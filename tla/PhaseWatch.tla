----------------------------- MODULE PhaseWatch -----------------------------
(***************************************************************************)
(* How the performance suites measure: watches that sample the Machines of *)
(* one MachineSet while they are provisioned, updated, deleted and         *)
(* replaced.                                                               *)
(*                                                                         *)
(* PERF-01 watches the phases (WatchMachinePhaseTimestamps), goes on with  *)
(* what it has when the wait times out, and counts the Machines whose      *)
(* resourceVersion has changed in a window.  A steady-state step watches   *)
(* the new Machines, stops when the wait times out, and then watches their *)
(* Nodes join (WatchNodeJoin).                                             *)
(*                                                                         *)
(* The Machines, their phases and Nodes are external, as are other actors  *)
(* that delete Machines.  One clock runs through both waits; polls come as *)
(* often as they like between two of its ticks, and a poll whose list      *)
(* fails is one that does not come.                                        *)
(***************************************************************************)
EXTENDS Naturals, FiniteSets, FiniteSetsExt

CONSTANTS
    MaxMachines,  \* bound: Machines that are created, those that replace another included
    Target,       \* replicas of the MachineSet
    Deadline,     \* the wait's timeout, in ticks
    MaxDeletes,   \* bound: Machines that others delete
    MaxWrites     \* bound: updates of a Machine within the window

ASSUME BoundAssumption ==
    /\ MaxMachines \in Nat /\ Deadline \in Nat /\ MaxDeletes \in Nat /\ MaxWrites \in Nat
    /\ Target \in Nat \ {0}   \* PERF_WORKER_COUNT must be > 0

VARIABLES
    suite,     \* "perf" or "steady"
    pc, now,
    machine,   \* the Machines, by name
    rec,       \* timestamps by name; 0 is the zero time
    joined,    \* what WatchNodeJoin has recorded of a Node
    before,    \* resourceVersions at the start of the window
    written,   \* Machines that were updated in the window
    changed,   \* what CountResourceVersionChanges has returned
    wasReady   \* history: names whose Node has been Ready

cluster == <<machine, written, wasReady>>
watcher == <<suite, pc, now, rec, joined, before, changed>>
vars    == <<watcher, cluster>>

Phase   == <<"Pending", "Provisioning", "Provisioned", "Running">>
Absent  == [phase |-> 0, deleting |-> FALSE, version |-> 0, node |-> "none"]
NoTimes == [Provisioning |-> 0, Provisioned |-> 0, Running |-> 0]

Gone    == 5
Names   == 1..MaxMachines   \* in the order of their creation

Present == {n \in Names : machine[n].phase \in DOMAIN Phase}
Alive   == {n \in Present : ~machine[n].deleting}
Running == {n \in Alive : Phase[machine[n].phase] = "Running"}
Tracked == DOMAIN rec

TypeOK ==
    /\ suite \in {"perf", "steady"} /\ pc \in {"watch", "before", "window", "join", "done"}
    /\ now \in 1..(Deadline + 1)
    /\ machine \in [Names -> [phase : 0..Gone, deleting : BOOLEAN, version : Nat,
                              node : {"none", "joined", "ready"}]]
    /\ Tracked \subseteq Names
    /\ \A n \in Tracked : rec[n] \in [Provisioning : 0..now, Provisioned : 0..now, Running : 0..now]
    /\ DOMAIN joined \subseteq Tracked /\ DOMAIN before \subseteq Names
    /\ written \union wasReady \subseteq Names /\ changed \in 0..Cardinality(DOMAIN before)

Init ==
    /\ suite \in {"perf", "steady"} /\ pc = "watch" /\ now = 1
    /\ machine = [n \in Names |-> Absent]
    /\ rec = [n \in {} |-> NoTimes] /\ joined = [n \in {} |-> "joined"]
    /\ before = [n \in {} |-> 0] /\ written = {} /\ changed = 0 /\ wasReady = {}

(***************************************************************************)
(* The watch of the phases.                                                *)
(***************************************************************************)
\* Mutant: a phase that no poll has seen stays without a time.
StampSeenOnly(t, p) ==
    LET At(time, ph) == IF time = 0 /\ Phase[p] = ph THEN now ELSE time
    IN [Provisioning |-> At(t.Provisioning, "Provisioning"),
        Provisioned  |-> At(t.Provisioned, "Provisioned"),
        Running      |-> At(t.Running, "Running")]

\* What a poll at now writes down about a Machine in phase p: also a time for
\* the phases before p, which it may have passed through since the last poll.
Stamp(t, p) ==
    LET At(time, ph) == IF time = 0 /\ \E i \in 1..p : Phase[i] = ph THEN now ELSE time
    IN [Provisioning |-> At(t.Provisioning, "Provisioning"),
        Provisioned  |-> At(t.Provisioned, "Provisioned"),
        Running      |-> At(t.Running, "Running")]

\* Machines that are being deleted are skipped; the records of earlier ones stay.
PollRecords ==
    [n \in Tracked \union Alive |->
        IF n \in Alive THEN Stamp(IF n \in Tracked THEN rec[n] ELSE NoTimes, machine[n].phase)
        ELSE rec[n]]

\* Mutant: whoever has a record that says Running is counted.
ContentFromRecords(r) == Cardinality({n \in DOMAIN r : r[n].Running > 0}) >= Target

\* WatchMachinePhaseTimestamps counts what this poll has seen Running, the
\* watch of the steady-state step what its records say.
Content(r) ==
    IF suite = "perf" THEN Cardinality(Running) >= Target
    ELSE Cardinality({n \in DOMAIN r : r[n].Running > 0}) >= Target

PollPhases ==
    /\ pc = "watch" /\ now <= Deadline
    /\ rec' = PollRecords
    /\ IF Content(PollRecords)
       THEN pc' = IF suite = "perf" THEN "before" ELSE "join"
       ELSE PollRecords # rec /\ UNCHANGED pc
    /\ UNCHANGED <<suite, now, cluster, joined, before, changed>>

\* The result has what was recorded until then: PERF-01 goes on when one Machine was
\* seen Running, the steady-state step fails.
WatchTimesOut ==
    /\ pc = "watch" /\ now > Deadline
    /\ pc' = IF suite = "perf" /\ \E n \in Tracked : rec[n].Running > 0 THEN "before" ELSE "done"
    /\ UNCHANGED <<suite, now, cluster, rec, joined, before, changed>>

\* AllRunningTime of the result: the latest time at which one was seen Running.
AllRunningTime == Max({rec[n].Running : n \in Tracked} \union {0})

(***************************************************************************)
(* The window of PERF-01.                                                  *)
(***************************************************************************)
SnapshotMachineResourceVersions == [n \in Alive |-> machine[n].version]

\* Mutant: a Machine that is not in both snapshots counts as changed.
CountMissingToo(a, b) ==
    Cardinality({n \in DOMAIN a \union DOMAIN b :
                    n \notin DOMAIN a \intersect DOMAIN b \/ a[n] # b[n]})

CountResourceVersionChanges(a, b) ==
    Cardinality({n \in DOMAIN a \intersect DOMAIN b : a[n] # b[n]})

SnapshotBefore ==
    /\ pc = "before" /\ pc' = "window" /\ before' = SnapshotMachineResourceVersions
    /\ written' = {}
    /\ UNCHANGED <<suite, now, machine, wasReady, rec, joined, changed>>

SnapshotAfter ==
    /\ pc = "window" /\ pc' = "done"
    /\ changed' = CountResourceVersionChanges(before, SnapshotMachineResourceVersions)
    /\ UNCHANGED <<suite, now, cluster, rec, joined, before>>

(***************************************************************************)
(* The watch of the Nodes.                                                 *)
(***************************************************************************)
\* Mutant: every Node is recorded, not only those of the Machines that are watched.
PollAnyNode ==
    LET nodes == {n \in Present : machine[n].node # "none"}
    IN [n \in DOMAIN joined \union nodes |->
            IF \/ n \in nodes /\ machine[n].node = "ready"
               \/ n \in DOMAIN joined /\ joined[n] = "ready"
            THEN "ready" ELSE "joined"]

\* A Node that has been seen Ready stays so in the record.
PollJoined ==
    LET nodes == {n \in Tracked \intersect Present : machine[n].node # "none"}
    IN [n \in DOMAIN joined \union nodes |->
            IF \/ n \in nodes /\ machine[n].node = "ready"
               \/ n \in DOMAIN joined /\ joined[n] = "ready"
            THEN "ready" ELSE "joined"]

\* Mutant: Nodes that have not registered are not waited for.
AllSeenReady(j) == \A n \in DOMAIN j : j[n] = "ready"

AllJoined(j) == (\A n \in DOMAIN j : j[n] = "ready") /\ DOMAIN j = Tracked

PollNodes ==
    /\ pc = "join"
    /\ joined' = PollJoined
    /\ IF AllJoined(PollJoined) THEN pc' = "done" ELSE PollJoined # joined /\ UNCHANGED pc
    /\ UNCHANGED <<suite, now, cluster, rec, before, changed>>

\* The error is dropped: the times of Nodes that were not seen stay zero.
JoinTimesOut ==
    /\ pc = "join" /\ now > Deadline /\ pc' = "done"
    /\ UNCHANGED <<suite, now, cluster, rec, joined, before, changed>>

(***************************************************************************)
(* The cluster (external).                                                 *)
(***************************************************************************)
Write(n, m) ==
    /\ machine' = [machine EXCEPT ![n] =
            IF pc = "window" THEN [m EXCEPT !.version = @ + 1] ELSE m]
    /\ written' = IF pc = "window" THEN written \union {n} ELSE written
    /\ UNCHANGED <<watcher, wasReady>>

CreateMachine(n) ==
    /\ machine[n].phase = 0 /\ \A m \in 1..(n - 1) : machine[m].phase # 0
    /\ Cardinality(Alive) < Target
    /\ Write(n, [Absent EXCEPT !.phase = 1])

Advance(n) ==
    /\ n \in Alive /\ Phase[machine[n].phase] # "Running"
    /\ Write(n, [machine[n] EXCEPT !.phase = @ + 1,
                                   !.node = IF @ = "none" /\ Phase[machine[n].phase] = "Provisioned"
                                            THEN "joined" ELSE @])

Update(n) ==
    /\ pc = "window" /\ n \in Alive /\ machine[n].version < MaxWrites
    /\ Write(n, machine[n])

Delete(n) ==
    /\ n \in Alive /\ Cardinality({m \in Names : machine[m].deleting}) < MaxDeletes
    /\ Write(n, [machine[n] EXCEPT !.deleting = TRUE])

GoneFor(n) ==
    /\ n \in Present \ Alive
    /\ machine' = [machine EXCEPT ![n].phase = Gone, ![n].node = "none"]
    /\ UNCHANGED <<watcher, written, wasReady>>

\* A Node becomes Ready, or stops being so.
NodeChanges(n) ==
    /\ n \in Present /\ machine[n].node # "none" /\ suite = "steady"
    /\ machine' = [machine EXCEPT ![n].node = IF @ = "ready" THEN "joined" ELSE "ready"]
    /\ wasReady' = wasReady \union {n}
    /\ UNCHANGED <<watcher, written>>

Tick ==
    /\ pc \in {"watch", "join"} /\ now <= Deadline /\ now' = now + 1
    /\ UNCHANGED <<suite, pc, rec, joined, before, changed, cluster>>

Watch == PollPhases \/ WatchTimesOut \/ SnapshotBefore \/ SnapshotAfter \/ PollNodes \/ JoinTimesOut

\* What the cluster does after the suite has ended is left out: nothing looks at it.
Next ==
    \/ Watch \/ Tick
    \/ /\ pc # "done"
       /\ \E n \in Names : CreateMachine(n) \/ Advance(n) \/ Update(n) \/ Delete(n) \/ GoneFor(n) \/ NodeChanges(n)

Spec == Init /\ [][Next]_vars

(***************************************************************************)
(* Properties.                                                             *)
(***************************************************************************)
\* The times of a record are in the order of the phases, and a later phase has no
\* time without the earlier ones, though polls miss phases (machine.go:573-597):
\* computeStats subtracts them from each other.
RecordsOrdered ==
    \A n \in Tracked :
        /\ rec[n].Running > 0 => rec[n].Provisioned > 0
        /\ rec[n].Provisioned > 0 => rec[n].Provisioning \in 1..rec[n].Provisioned
        /\ rec[n].Running > 0 => rec[n].Provisioned <= rec[n].Running

\* When the watch of PERF-01 succeeds, AllRunningTime, the end of its total time, is
\* the time of that poll and not an earlier one, and that many Machines are Running,
\* though some that were seen Running are deleted by then (machine.go:606-624).
AllRunningAtReturn ==
    [][suite = "perf" /\ pc = "watch" /\ pc' = "before" /\ now <= Deadline =>
        AllRunningTime' = now /\ Cardinality(Running) >= Target]_vars

\* What counts as changed was written in the window, and was a Machine of the set at
\* both ends; Machines deleted or created in between are left out (machine.go:649-657).
ChangedWereWritten ==
    [][pc = "window" /\ pc' = "done" =>
        changed' = Cardinality(written \intersect DOMAIN before \intersect Alive)]_vars

\* WatchNodeJoin succeeds before its timeout only if the Node of every Machine that
\* was watched has been Ready at some time, also one that is not Ready or not there
\* any more (steady_perf.go:69-92).
JoinedMeansAll ==
    [][pc = "join" /\ pc' = "done" /\ now <= Deadline => Tracked \subseteq wasReady]_vars

=============================================================================
