------------------------------ MODULE TestGrid ------------------------------
(***************************************************************************)
(* The outermost program: test-grid.sh installs a cluster, lets `make      *)
(* test-e2e' run its phases around apply and restore, collects the JUnit   *)
(* reports, destroys the cluster, and does so Runs times; started again    *)
(* after it was killed it skips the runs that have reports.  At the end    *)
(* aggregate-junit makes one grid of all of it.                            *)
(*                                                                         *)
(* The directory reports/ and the backup of apply (.lab-state) are on the  *)
(* machine that runs the script and outlive every cluster.                 *)
(*                                                                         *)
(* Apply, verify and restore are as LabLifecycle and ClusterReadiness say; *)
(* here they succeed or fail.                                              *)
(***************************************************************************)
EXTENDS Naturals, FiniteSets, Sequences, SequencesExt

CONSTANTS
    Runs,        \* runs of the grid
    MaxFaults    \* bound: kills of the script and clusters that are not destroyed

ASSUME RunsAssumption == Runs \in Nat /\ MaxFaults \in Nat

VARIABLES
    step, i,         \* what the script does next, and in which run
    rc,              \* whether make test-e2e has seen a failure
    restoreNeeded,
    cluster,         \* the one the install directory knows; 0 if none
    made,            \* clusters made so far, which are numbered
    orphans,         \* clusters that exist and are not known any more
    lab,             \* the configuration of that cluster; "partial" is a mixture
    backup,          \* whose configuration .lab-state has; 0 if nobody's
    reports,         \* reports/, by file
    results,         \* results/run-NN, by file
    status,          \* results/run-NN/status
    faults,          \* bounded
    leftover         \* history: reports/ had a file from before the grid

script == <<step, i, rc, restoreNeeded>>
site   == <<cluster, made, orphans, lab, backup>>
files  == <<reports, results, status>>
vars   == <<script, site, files, faults, leftover>>

Phases == {"phase1", "phase3", "phase4", "phase5"}
\* In the order of Glob; the first is of `make test-mutating'.
Files  == <<"mutating", "phase1", "phase3", "phase4", "phase5">>
File   == ToSet(Files)

\* The spec that the label filter of a file's suite selects, one for each label, and
\* how it ends when it does not pass: the two kinds of failure meet in "volumes".
Test     == {"readonly", "volumes"}
Selected == [f \in File |-> IF f \in {"phase1", "phase3"} THEN "readonly" ELSE "volumes"]
Bad      == [f \in File |-> IF f = "phase4" THEN "error" ELSE "fail"]

\* A file of JUnit results: of which cluster it is, what became of the spec, and
\* whether it can be parsed.
NoReport == [cluster |-> 0, result |-> "missing", readable |-> FALSE]
Report(c, result) == [cluster |-> c, result |-> result, readable |-> TRUE]
Nothing == [f \in File |-> NoReport]
Present(dir) == {f \in File : dir[f] # NoReport}

TypeOK ==
    /\ step \in Phases \union {"next", "create", "apply", "verify", "restore", "collect",
                                      "status", "destroy", "done"}
    /\ i \in 1..(Runs + 1) /\ rc \in BOOLEAN /\ restoreNeeded \in BOOLEAN
    /\ made \in Nat /\ {cluster, backup} \union orphans \subseteq 0..made
    /\ cluster \notin orphans /\ 0 \notin orphans
    /\ lab \in {"none", "single", "multi", "partial", "foreign"}
    /\ \A r \in 1..Runs : \A f \in Present(results[r]) : results[r][f].cluster \in 0..made
    /\ status \in [1..Runs -> {"none", "PASS", "FAIL", "INSTALL_FAILED"}]
    /\ faults \in 0..MaxFaults

Init ==
    /\ step = "next" /\ i = 1 /\ rc = FALSE /\ restoreNeeded = FALSE
    /\ cluster = 0 /\ made = 0 /\ orphans = {} /\ lab = "none" /\ backup = 0
    /\ leftover \in BOOLEAN
    /\ reports = IF leftover THEN [Nothing EXCEPT !["mutating"] = Report(0, Bad["mutating"])]
                 ELSE Nothing
    /\ results = [r \in 1..Runs |-> Nothing] /\ status = [r \in 1..Runs |-> "none"]
    /\ faults = 0

Fault == faults < MaxFaults /\ faults' = faults + 1

Go(s)   == step' = s /\ UNCHANGED i
NextRun == step' = "next" /\ i' = i + 1
Calm    == UNCHANGED <<faults, leftover>>

(***************************************************************************)
(* test-grid.sh: a run until its tests.                                    *)
(***************************************************************************)
SkipRun ==
    /\ step = "next" /\ i <= Runs /\ Present(results[i]) # {} /\ NextRun
    /\ UNCHANGED <<rc, restoreNeeded, site, files>> /\ Calm

\* Mutant: a run is repeated unless it has passed.
StartUnlessPassed ==
    /\ step = "next" /\ i <= Runs /\ status[i] # "PASS" /\ Go("create")
    /\ orphans' = orphans \union ({cluster} \ {0}) /\ cluster' = 0 /\ lab' = "none"
    /\ UNCHANGED <<rc, restoreNeeded, made, backup, files>> /\ Calm

\* Mutant: the clean-up misses the metadata of the old cluster.
StartKeepsMetadata ==
    /\ step = "next" /\ i <= Runs /\ Present(results[i]) = {} /\ Go("create")
    /\ orphans' = orphans \union ({cluster} \ {0})
    /\ UNCHANGED <<rc, restoreNeeded, cluster, made, lab, backup, files>> /\ Calm

\* The install directory is cleaned: what it knew of a cluster is lost.
StartRun ==
    /\ step = "next" /\ i <= Runs /\ Present(results[i]) = {} /\ Go("create")
    /\ orphans' = orphans \union ({cluster} \ {0}) /\ cluster' = 0 /\ lab' = "none"
    /\ UNCHANGED <<rc, restoreNeeded, made, backup, files>> /\ Calm

CreateCluster ==
    /\ step = "create"
    /\ made' = made + 1 /\ cluster' = made' /\ lab' = "single"
    /\ rc' = FALSE /\ restoreNeeded' = FALSE
    /\ \/ Go("phase1") /\ UNCHANGED status
       \/ Go("destroy") /\ status' = [status EXCEPT ![i] = "INSTALL_FAILED"]
    /\ UNCHANGED <<orphans, backup, reports, results>> /\ Calm

(***************************************************************************)
(* make test-e2e.                                                          *)
(***************************************************************************)
\* The specs of phase 4 change Infrastructure; AfterSuite puts it back, or fails.
LabAfter(p) == lab' = lab \/ (p = "phase4" /\ lab' = "partial")

\* Mutant: the result of the last suite is the result.
PhaseForgets(p, next) ==
    /\ step = p
    /\ LabAfter(p)
    /\ \/ \E result \in {"pass", Bad[p]} :
            /\ reports' = [reports EXCEPT ![p] = Report(cluster, result)]
            /\ rc' = (result # "pass" \/ lab' # lab)
            /\ UNCHANGED faults
       \/ Fault /\ rc' = TRUE /\ UNCHANGED reports
    /\ Go(IF p = "phase1" /\ rc' THEN "collect" ELSE next)
    /\ UNCHANGED <<restoreNeeded, cluster, made, orphans, backup, results, status, leftover>>

\* A phase runs the specs its filter selects, and overwrites its report; when it
\* does not come to that, it fails and an older report stays.  A suite whose
\* AfterSuite fails has failed, whatever its specs have done.
Phase(p, next) ==
    /\ step = p
    /\ LabAfter(p)
    /\ \/ \E result \in {"pass", Bad[p]} :
            /\ reports' = [reports EXCEPT ![p] = Report(cluster, result)]
            /\ rc' = (rc \/ result # "pass" \/ lab' # lab)
            /\ UNCHANGED faults
       \/ Fault /\ rc' = TRUE /\ UNCHANGED reports
    /\ Go(IF p = "phase1" /\ rc' THEN "collect" ELSE next)
    /\ UNCHANGED <<restoreNeeded, cluster, made, orphans, backup, results, status, leftover>>

\* Mutant: verify, not apply, decides.
ApplyUnheeded ==
    /\ step = "apply" /\ restoreNeeded' = TRUE /\ Go("verify")
    /\ backup' = IF backup = 0 THEN cluster ELSE backup
    /\ lab' \in {"multi", lab, "partial"}
    /\ UNCHANGED <<rc, cluster, made, orphans, files>> /\ Calm

\* Apply takes a backup only if there is none, whoever left it.
Apply ==
    /\ step = "apply" /\ restoreNeeded' = TRUE
    /\ backup' = IF backup = 0 THEN cluster ELSE backup
    /\ \/ lab' = "multi" /\ Go("verify") /\ UNCHANGED rc
       \/ lab' \in {lab, "partial"} /\ rc' = TRUE /\ Go("restore")
    /\ UNCHANGED <<cluster, made, orphans, files>> /\ Calm

\* Apply refuses, or fails, before it has a backup.
ApplyRefuses ==
    /\ step = "apply" /\ restoreNeeded' = TRUE /\ rc' = TRUE /\ Go("restore")
    /\ UNCHANGED <<site, files>> /\ Calm

Verify ==
    /\ step = "verify"
    /\ \/ Go("phase3") /\ UNCHANGED rc
       \/ Go("restore") /\ rc' = TRUE
    /\ UNCHANGED <<restoreNeeded, site, files>> /\ Calm

Restore ==
    /\ step = "restore" /\ Go("collect")
    /\ \/ /\ backup # 0 /\ lab' = (IF backup = cluster THEN "single" ELSE "foreign")
          /\ UNCHANGED rc
       \/ lab' \in {lab, "partial"} /\ rc' = TRUE
    /\ UNCHANGED <<restoreNeeded, cluster, made, orphans, backup, files>> /\ Calm

(***************************************************************************)
(* test-grid.sh: a run after its tests.                                    *)
(***************************************************************************)
Collect ==
    /\ step = "collect" /\ Go("status")
    /\ results' = [results EXCEPT ![i] = reports]
    /\ UNCHANGED <<rc, restoreNeeded, site, reports, status>> /\ Calm

\* Mutant: a failed run is left as it is, for inspection.
StatusKeepsCluster ==
    /\ step = "status" /\ reports' = Nothing
    /\ status' = [status EXCEPT ![i] = IF rc THEN "FAIL" ELSE "PASS"]
    /\ IF rc THEN NextRun ELSE Go("destroy")
    /\ UNCHANGED <<rc, restoreNeeded, site, results>> /\ Calm

Status ==
    /\ step = "status" /\ Go("destroy") /\ reports' = Nothing
    /\ status' = [status EXCEPT ![i] = IF rc THEN "FAIL" ELSE "PASS"]
    /\ UNCHANGED <<rc, restoreNeeded, site, results>> /\ Calm

\* A failure of destroy is passed over.
Destroy ==
    /\ step = "destroy" /\ NextRun
    /\ \/ cluster' = 0 /\ lab' = "none" /\ UNCHANGED faults
       \/ Fault /\ UNCHANGED <<cluster, lab>>
    /\ UNCHANGED <<rc, restoreNeeded, made, orphans, backup, files, leftover>>

\* The script is killed, or ends itself because a command fails, and is started again;
\* the cluster stays, with what was done to it.
\* A copy that was interrupted has the first files, and may have part of the last of them.
Copied(n, whole) ==
    [f \in File |-> LET k == CHOOSE j \in DOMAIN Files : Files[j] = f
                    IN IF k > n \/ f \notin Present(reports) THEN NoReport
                       ELSE [reports[f] EXCEPT !.readable = whole \/ k < n]]

Kill ==
    /\ Fault /\ step \notin {"next", "done"}
    /\ step' = "next" /\ i' = 1 /\ rc' = FALSE /\ restoreNeeded' = FALSE
    /\ lab' = lab \/ (step \in {"apply", "phase4", "restore"} /\ lab' = "partial")
    /\ \/ UNCHANGED results
       \/ /\ step = "collect"
          /\ \E n \in DOMAIN Files, whole \in BOOLEAN :
                results' = [results EXCEPT ![i] = Copied(n, whole)]
    /\ backup' \in {backup} \union (IF step = "apply" /\ backup = 0 THEN {cluster} ELSE {})
    /\ UNCHANGED <<cluster, made, orphans, reports, status, leftover>>

(***************************************************************************)
(* aggregate-junit.                                                        *)
(***************************************************************************)
Order == <<"missing", "skip", "pass", "fail", "error">>
Rank(r) == CHOOSE k \in DOMAIN Order : Order[k] = r

\* Mutant: the file that is read last wins.
LastRead(existing, result) == IF result = "missing" THEN existing ELSE result

Worse(existing, result) == IF Rank(result) > Rank(existing) THEN result ELSE existing

\* Ginkgo lists a spec that was not selected as skipped.
ClassifyResult(f, t, report) == IF Selected[f] = t THEN report.result ELSE "skip"

\* The cell of a test in a run: file after file in the order of their names,
\* without those that are not there or cannot be parsed.
Cell(t, r) ==
    LET Read(cell, f) == IF results[r][f].readable
                         THEN Worse(cell, ClassifyResult(f, t, results[r][f])) ELSE cell
    IN Read(Read(Read(Read(Read("missing", "mutating"), "phase1"), "phase3"), "phase4"), "phase5")

Ran == {"pass", "fail", "error"}

\* Passed and counted runs of a test; with none the rate is 0.
PassRate(cell) ==
    <<Cardinality({r \in 1..Runs : cell[r] = "pass"}), Cardinality({r \in 1..Runs : cell[r] \in Ran})>>

BuildGrid ==
    LET tests == {t \in Test : \E r \in 1..Runs, f \in File : results[r][f].readable}
        cell  == [t \in tests |-> [r \in 1..Runs |-> Cell(t, r)]]
    IN [cell  |-> cell,
        rate  |-> [t \in tests |-> PassRate(cell[t])],
        total |-> [r \in 1..Runs |->
                      [k \in ToSet(Order) |-> Cardinality({t \in tests : cell[t][r] = k})]]]

Aggregate ==
    /\ step = "next" /\ i = Runs + 1
    /\ Go("done")
    /\ UNCHANGED <<rc, restoreNeeded, site, files>> /\ Calm

Script ==
    \/ SkipRun \/ StartRun \/ CreateCluster
    \/ Phase("phase1", "apply") \/ Apply \/ ApplyRefuses \/ Verify
    \/ Phase("phase3", "phase4") \/ Phase("phase4", "phase5") \/ Phase("phase5", "restore")
    \/ Restore \/ Collect \/ Status \/ Destroy \/ Aggregate

Next == Script \/ Kill

Spec == Init /\ [][Next]_vars

(***************************************************************************)
(* Properties.                                                             *)
(***************************************************************************)
\* A run with status PASS has no failed and no missing test in the grid, kills and
\* restarts or not, unless reports were there before the grid (Makefile:93-124,
\* test-grid.sh:148).
PassIsGreen ==
    step = "done" /\ ~leftover =>
        \A r \in 1..Runs : status[r] = "PASS" =>
            /\ DOMAIN BuildGrid.cell = Test
            /\ \A t \in Test : BuildGrid.cell[t][r] \notin {"missing", "fail", "error"}

\* The tests for two vCenters run only on a cluster that has them; phase 5 also runs
\* when phase 4 could not put the second one back (Makefile:109-115 looks at rc only
\* before phase 3), but then make test-e2e has failed.  Restore runs after them and
\* after every apply (Makefile:92: "Restore always runs after apply"): make test-e2e
\* does not succeed with the second vCenter, or a part of it, still there.
ReadyForTests ==
    /\ step \in {"phase3", "phase4"} => lab = "multi"
    /\ step = "phase5" => lab = "multi" \/ (lab = "partial" /\ rc)
    /\ step \notin {"next", "done"} /\ lab \in {"multi", "partial"} => restoreNeeded
    /\ step \in {"collect", "status"} /\ ~rc => lab \in {"single", "foreign"}

\* Restore puts back what this cluster was, not what an earlier one was: "run the full
\* test-e2e lifecycle N times on fresh clusters" (test-grid.sh:3).
RestoresOwnCluster == lab # "foreign"

\* The cell of a test is its worst result in the files of the run, in whatever order
\* they are read, a file that cannot be parsed apart; the pass rate counts the runs
\* in which it ran, and the totals of a run count every test once (main.go:200-268).
Worst(t, r) ==
    LET seen == {ClassifyResult(f, t, results[r][f]) : f \in {g \in File : results[r][g].readable}}
    IN IF "error" \in seen THEN "error" ELSE IF "fail" \in seen THEN "fail"
       ELSE IF "pass" \in seen THEN "pass" ELSE IF "skip" \in seen THEN "skip" ELSE "missing"

GridIsRight ==
    step = "done" =>
        LET grid == BuildGrid
            In(t, kinds) == {r \in 1..Runs : Worst(t, r) \in kinds}
        IN /\ \A t \in DOMAIN grid.cell :
                 /\ \A r \in 1..Runs : grid.cell[t][r] = Worst(t, r)
                 /\ grid.rate[t][1] = Cardinality(In(t, {"pass"}))
                 /\ grid.rate[t][1] = grid.rate[t][2] <=> In(t, {"fail", "error"}) = {}
           /\ \A r \in 1..Runs : grid.total[r]["fail"] + grid.total[r]["error"] > 0
                                  <=> \E t \in Test : r \in In(t, {"fail", "error"})

\* What a run has collected stays, also when the grid is started again.
ResultsStay ==
    [][\A r \in 1..Runs : Present(results[r]) # {} => results'[r] = results[r]]_vars

\* A cluster nobody knows costs a kill or a failed destroy (test-grid.sh:100-125, 173).
OrphansAreFaults == Cardinality(orphans) <= faults

=============================================================================
