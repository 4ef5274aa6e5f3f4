-------------------------- MODULE PhaseWatchProofs --------------------------
(***************************************************************************)
(* Proofs about the watches of the performance suites.                     *)
(***************************************************************************)
EXTENDS PhaseWatch, FiniteSetTheorems, TLAPS

\* Nothing is counted before the window ends.
CountInv == pc # "done" => changed = 0

\* A Machine that a poll has seen Running is so, or gone: Machines do not go back.
SeenInv == \A n \in Tracked : rec[n].Running > 0 => machine[n].phase \in {4, Gone}

\* The Machines that are Running and of which the records know it.
KnownRunning == {n \in Running \intersect Tracked : rec[n].Running > 0}

\* While PERF-01 watches, the last poll has not seen enough of them.
ShortInv == suite = "perf" /\ pc = "watch" => Cardinality(KnownRunning) < Target

\* In the window a Machine of the first snapshot has another resourceVersion
\* exactly when it was written, and its name is not used again.
WindowInv ==
    pc = "window" =>
        \A n \in DOMAIN before :
            /\ machine[n].phase # 0
            /\ before[n] \in Nat /\ before[n] <= machine[n].version
            /\ n \in written <=> before[n] # machine[n].version

\* Who is Ready, or has been recorded as such, has been Ready.
ReadyInv ==
    /\ \A n \in Names : machine[n].node = "ready" => n \in wasReady
    /\ \A n \in DOMAIN joined : joined[n] = "ready" => n \in wasReady

WatchInv == CountInv /\ SeenInv /\ RecordsOrdered /\ ShortInv /\ WindowInv /\ ReadyInv

Inv == TypeOK /\ WatchInv

MachineType ==
    [phase : 0..Gone, deleting : BOOLEAN, version : Nat, node : {"none", "joined", "ready"}]

Times == [Provisioning : 0..now, Provisioned : 0..now, Running : 0..now]

(***************************************************************************)
(* The phases.                                                             *)
(***************************************************************************)
\* The phases of a Machine by number, and which are before which.
LEMMA PhaseNumbers ==
    /\ DOMAIN Phase = 1..4
    /\ Phase[1] = "Pending" /\ Phase[2] = "Provisioning" /\ Phase[3] = "Provisioned" /\ Phase[4] = "Running"
BY DEF Phase

\* A Machine is Running in the fourth phase and in no other.
LEMMA RunningIsLast == \A p \in DOMAIN Phase : Phase[p] = "Running" <=> p = 4
<1> SUFFICES ASSUME NEW p \in 1..4 PROVE Phase[p] = "Running" <=> p = 4
    BY PhaseNumbers
<1>1. p = 1 \/ p = 2 \/ p = 3 \/ p = 4
    OBVIOUS
<1> QED BY <1>1, PhaseNumbers

\* The phases that a Machine in phase p has reached, by name.
LEMMA ReachedPhases ==
    ASSUME NEW p \in 1..4
    PROVE  /\ (\E i \in 1..p : Phase[i] = "Provisioning") <=> p >= 2
           /\ (\E i \in 1..p : Phase[i] = "Provisioned") <=> p >= 3
           /\ (\E i \in 1..p : Phase[i] = "Running") <=> p = 4
<1>1. \A i \in 1..p : i = 1 \/ i = 2 \/ i = 3 \/ i = 4
    OBVIOUS
<1>2. (\E i \in 1..p : Phase[i] = "Provisioning") <=> p >= 2
    BY <1>1, PhaseNumbers
<1>3. (\E i \in 1..p : Phase[i] = "Provisioned") <=> p >= 3
    BY <1>1, PhaseNumbers
<1>4. (\E i \in 1..p : Phase[i] = "Running") <=> p = 4
    BY <1>1, PhaseNumbers
<1> QED BY <1>2, <1>3, <1>4

\* The names are finitely many, and so is every set of Machines.
LEMMA NamesFinite ==
    /\ IsFiniteSet(Names)
    /\ \A S \in SUBSET Names : IsFiniteSet(S) /\ Cardinality(S) \in Nat
<1>1. IsFiniteSet(Names)
    BY FS_Interval, BoundAssumption DEF Names
<1> QED BY <1>1, FS_Subset, FS_CardinalityType

\* What a poll writes down: the times stay in the order of the phases, none is
\* changed that is set, and Running gets one exactly in the last phase.
LEMMA StampFacts ==
    ASSUME now \in Nat \ {0}, NEW t \in Times, NEW p \in 1..4,
           t.Running > 0 => t.Provisioned > 0,
           t.Provisioned > 0 => t.Provisioning \in 1..t.Provisioned,
           t.Running > 0 => t.Provisioned <= t.Running
    PROVE  LET s == Stamp(t, p)
           IN /\ s \in Times
              /\ s.Running > 0 => s.Provisioned > 0
              /\ s.Provisioned > 0 => s.Provisioning \in 1..s.Provisioned
              /\ s.Running > 0 => s.Provisioned <= s.Running
              /\ t.Running > 0 => s.Running = t.Running
              /\ p = 4 /\ t.Running = 0 => s.Running = now
              /\ p # 4 => s.Running = t.Running
<1> DEFINE s == Stamp(t, p)
<1>1. /\ s.Provisioning = IF t.Provisioning = 0 /\ p >= 2 THEN now ELSE t.Provisioning
      /\ s.Provisioned = IF t.Provisioned = 0 /\ p >= 3 THEN now ELSE t.Provisioned
      /\ s.Running = IF t.Running = 0 /\ p = 4 THEN now ELSE t.Running
    BY ReachedPhases DEF Stamp
<1>2. t.Provisioning \in 0..now /\ t.Provisioned \in 0..now /\ t.Running \in 0..now
    BY DEF Times
<1>3. s \in Times
    <2>1. s = [Provisioning |-> s.Provisioning, Provisioned |-> s.Provisioned, Running |-> s.Running]
        BY DEF Stamp
    <2>2. s.Provisioning \in 0..now /\ s.Provisioned \in 0..now /\ s.Running \in 0..now
        BY <1>1, <1>2
    <2> HIDE DEF s
    <2> QED BY <2>1, <2>2 DEF Times
<1> HIDE DEF s
<1>4. /\ s.Running > 0 => s.Provisioned > 0
      /\ s.Provisioned > 0 => s.Provisioning \in 1..s.Provisioned
      /\ s.Running > 0 => s.Provisioned <= s.Running
    BY <1>1, <1>2
<1>5. /\ t.Running > 0 => s.Running = t.Running
      /\ p = 4 /\ t.Running = 0 => s.Running = now
      /\ p # 4 => s.Running = t.Running
    BY <1>1, <1>2
<1> QED BY <1>3, <1>4, <1>5 DEF s

(***************************************************************************)
(* Steps of the cluster.                                                   *)
(***************************************************************************)
ClusterStep(n) ==
    CreateMachine(n) \/ Advance(n) \/ Update(n) \/ Delete(n) \/ GoneFor(n) \/ NodeChanges(n)

\* How m may become m2 in one step of the cluster: it stays one of the set, is not
\* created twice, leaves the last phase only to disappear, and is deleted for good.
Evolves(m, m2) ==
    /\ m2 \in MachineType
    /\ m.phase # 0 => m2.phase # 0
    /\ m.phase = 4 => m2.phase \in {4, Gone}
    /\ m.phase = Gone => m2.phase = Gone
    /\ m.phase # 0 /\ m.deleting => m2.deleting

\* Whether the step is one that counts in the window.
Counted(n) ==
    \/ written' = written /\ machine'[n].version = machine[n].version
    \/ written' = written \union {n} /\ machine'[n].version = machine[n].version + 1

\* A step at n changes no other Machine.
OnlyAt(n) == machine' = [machine EXCEPT ![n] = machine'[n]] /\ UNCHANGED watcher

\* An object may be written with a Machine m: what Write does to it.
LEMMA WriteFacts ==
    ASSUME TypeOK, NEW n \in Names, NEW m \in MachineType, Write(n, m)
    PROVE  /\ OnlyAt(n) /\ wasReady' = wasReady
           /\ machine'[n] \in MachineType
           /\ machine'[n].phase = m.phase /\ machine'[n].deleting = m.deleting /\ machine'[n].node = m.node
           /\ pc = "window" => written' = written \union {n} /\ machine'[n].version = m.version + 1
           /\ written' \in {written, written \union {n}}
<1> USE DEF MachineType
<1>1. machine \in [Names -> MachineType]
    BY DEF TypeOK
<1> DEFINE w == IF pc = "window" THEN [m EXCEPT !.version = @ + 1] ELSE m
<1>2. machine' = [machine EXCEPT ![n] = w] /\ UNCHANGED watcher /\ wasReady' = wasReady
    BY DEF Write
<1>3. w \in MachineType /\ w.phase = m.phase /\ w.deleting = m.deleting /\ w.node = m.node
    OBVIOUS
<1>4. pc = "window" => w.version = m.version + 1
    OBVIOUS
<1>5. written' = IF pc = "window" THEN written \union {n} ELSE written
    BY DEF Write
<1> HIDE DEF w
<1>6. machine'[n] = w
    BY <1>1, <1>2
<1> QED BY <1>2, <1>3, <1>4, <1>5, <1>6 DEF OnlyAt

\* What a step of the cluster at n does.
Stepped(n) ==
    /\ OnlyAt(n) /\ Evolves(machine[n], machine'[n])
    /\ pc = "window" /\ machine[n].phase # 0 => Counted(n)
    /\ written' \in {written, written \union {n}}
    /\ wasReady' \in {wasReady, wasReady \union {n}}
    /\ machine'[n].node = "ready" => machine[n].node = "ready" \/ n \in wasReady'

\* A write whose object differs from the Machine in phase, deletion or Node only.
LEMMA WriteSteps ==
    ASSUME TypeOK, NEW n \in Names, NEW m \in MachineType, Write(n, m),
           Evolves(machine[n], m),
           machine[n].phase # 0 => m.version = machine[n].version,
           m.node = "ready" => machine[n].node = "ready"
    PROVE  Stepped(n)
<1>1. OnlyAt(n) /\ Evolves(machine[n], machine'[n])
    BY WriteFacts DEF Evolves
<1>2. pc = "window" /\ machine[n].phase # 0 => Counted(n)
    BY WriteFacts DEF Counted
<1> QED BY <1>1, <1>2, WriteFacts DEF Stepped

\* Every step of the cluster changes one Machine, in one of the ways of Evolves.
LEMMA ClusterEvolves ==
    ASSUME TypeOK, NEW n \in Names, ClusterStep(n)
    PROVE  Stepped(n)
<1> USE DEF Gone
<1> DEFINE m == machine[n]
<1>m. m \in MachineType /\ machine \in [Names -> MachineType]
    BY DEF TypeOK, MachineType
<1>t. /\ m.phase \in 0..5 /\ m.deleting \in BOOLEAN /\ m.version \in Nat
      /\ m.node \in {"none", "joined", "ready"}
    BY <1>m DEF MachineType
<1>a. n \in Alive => m.phase \in 1..4 /\ ~m.deleting
    BY PhaseNumbers DEF Alive, Present
<1>p. n \in Present => m.phase \in 1..4
    BY PhaseNumbers DEF Present
<1>1. ASSUME CreateMachine(n) PROVE Stepped(n)
    <2> DEFINE o == [Absent EXCEPT !.phase = 1]
    <2>0. Absent \in MachineType /\ Absent.node = "none"
        BY DEF Absent, MachineType
    <2>1. o \in MachineType /\ o.phase = 1 /\ o.node = "none"
        BY <2>0 DEF MachineType
    <2>2. m.phase = 0 /\ Write(n, o)
        BY <1>1 DEF CreateMachine
    <2> HIDE DEF o
    <2>3. Evolves(m, o)
        BY <2>1, <2>2 DEF Evolves
    <2> QED BY <2>1, <2>2, <2>3, WriteSteps
<1>2. ASSUME Advance(n) PROVE Stepped(n)
    <2> DEFINE nd == IF m.node = "none" /\ Phase[m.phase] = "Provisioned" THEN "joined" ELSE m.node
               o == [m EXCEPT !.phase = @ + 1, !.node = nd]
    <2>1. n \in Alive /\ Phase[m.phase] # "Running" /\ Write(n, o)
        BY <1>2, <1>m DEF Advance, MachineType
    <2>2. m.phase \in 1..3
        BY <2>1, <1>a, PhaseNumbers
    <2>3. nd \in {"none", "joined", "ready"} /\ (nd = "ready" => m.node = "ready")
        BY <1>t
    <2> HIDE DEF nd
    <2>4. o \in MachineType /\ o.phase = m.phase + 1 /\ o.node = nd /\ o.version = m.version /\ o.deleting = m.deleting
        <3> DEFINE o1 == [m EXCEPT !.phase = @ + 1]
        <3>1. o1 \in MachineType /\ o1.phase = m.phase + 1 /\ o1.version = m.version /\ o1.deleting = m.deleting
            BY <1>m, <2>2 DEF MachineType
        <3>2. o = [o1 EXCEPT !.node = nd]
            BY <1>m DEF MachineType
        <3> HIDE DEF o1, o
        <3> QED BY <2>3, <3>1, <3>2 DEF MachineType
    <2> HIDE DEF o
    <2>5. Evolves(m, o)
        BY <2>2, <2>4 DEF Evolves
    <2> QED BY <2>1, <2>3, <2>4, <2>5, WriteSteps
<1>3. ASSUME Update(n) PROVE Stepped(n)
    <2>1. n \in Alive /\ Write(n, m)
        BY <1>3 DEF Update
    <2>2. Evolves(m, m)
        BY <1>m, <2>1, <1>a DEF Evolves
    <2> QED BY <1>m, <2>1, <2>2, WriteSteps
<1>4. ASSUME Delete(n) PROVE Stepped(n)
    <2> DEFINE o == [m EXCEPT !.deleting = TRUE]
    <2>1. n \in Alive /\ Write(n, o)
        BY <1>4 DEF Delete
    <2>2. o \in MachineType /\ o.phase = m.phase /\ o.node = m.node /\ o.version = m.version /\ o.deleting = TRUE
        BY <1>m DEF MachineType
    <2> HIDE DEF o
    <2>3. Evolves(m, o)
        BY <2>1, <2>2, <1>a DEF Evolves
    <2> QED BY <2>1, <2>2, <2>3, WriteSteps
<1>5. ASSUME GoneFor(n) PROVE Stepped(n)
    <2> DEFINE o == [m EXCEPT !.phase = Gone, !.node = "none"]
    <2>1. machine' = [machine EXCEPT ![n] = o] /\ UNCHANGED <<watcher, written, wasReady>>
        BY <1>5, <1>m DEF GoneFor
    <2>2. o \in MachineType /\ o.phase = Gone /\ o.node = "none" /\ o.version = m.version /\ o.deleting = m.deleting
        <3> DEFINE o1 == [m EXCEPT !.phase = Gone]
        <3>1. o1 \in MachineType /\ o1.phase = Gone /\ o1.version = m.version /\ o1.deleting = m.deleting
            BY <1>m DEF MachineType
        <3>2. o = [o1 EXCEPT !.node = "none"]
            BY <1>m DEF MachineType
        <3> HIDE DEF o1, o
        <3> QED BY <3>1, <3>2 DEF MachineType
    <2> HIDE DEF o
    <2>3. machine'[n] = o
        BY <2>1, <1>m
    <2>4. Evolves(m, o)
        BY <2>2, <1>t DEF Evolves
    <2> QED BY <2>1, <2>2, <2>3, <2>4 DEF Stepped, OnlyAt, Counted
<1>6. ASSUME NodeChanges(n) PROVE Stepped(n)
    <2> DEFINE nd == IF m.node = "ready" THEN "joined" ELSE "ready"
               o == [m EXCEPT !.node = nd]
    <2>1. machine' = [machine EXCEPT ![n] = o] /\ wasReady' = wasReady \union {n} /\ UNCHANGED <<watcher, written>>
        BY <1>6, <1>m DEF NodeChanges
    <2>2. o \in MachineType /\ o.phase = m.phase /\ o.version = m.version /\ o.deleting = m.deleting
        BY <1>m DEF MachineType
    <2> HIDE DEF o
    <2>3. machine'[n] = o
        BY <2>1, <1>m
    <2>4. Evolves(m, o)
        BY <2>2, <1>t DEF Evolves
    <2> QED BY <2>1, <2>2, <2>3, <2>4 DEF Stepped, OnlyAt, Counted
<1> QED BY <1>1, <1>2, <1>3, <1>4, <1>5, <1>6 DEF ClusterStep

(***************************************************************************)
(* A poll.                                                                 *)
(***************************************************************************)
\* The sets of Machines that the watches read.
LEMMA AliveFacts ==
    /\ Alive \subseteq Names /\ Running \subseteq Alive
    /\ \A n \in Alive : machine[n].phase \in 1..4 /\ ~machine[n].deleting
    /\ \A n \in Names : n \in Running <=> machine[n].phase = 4 /\ ~machine[n].deleting
<1>1. \A n \in Alive : machine[n].phase \in 1..4 /\ ~machine[n].deleting
    BY PhaseNumbers DEF Alive, Present
<1>2. Alive \subseteq Names /\ Running \subseteq Alive
    BY DEF Alive, Present, Running
<1>3. \A n \in Names : n \in Running <=> machine[n].phase = 4 /\ ~machine[n].deleting
    <2> TAKE n \in Names
    <2>1. ASSUME n \in Running PROVE machine[n].phase = 4 /\ ~machine[n].deleting
        BY <2>1, RunningIsLast DEF Running, Alive, Present
    <2>2. ASSUME machine[n].phase = 4, ~machine[n].deleting PROVE n \in Running
        BY <2>2, RunningIsLast, PhaseNumbers DEF Running, Alive, Present
    <2> QED BY <2>1, <2>2
<1> QED BY <1>1, <1>2, <1>3

\* What a poll makes of the records.
LEMMA PollFacts ==
    ASSUME TypeOK, RecordsOrdered
    PROVE  /\ DOMAIN PollRecords = Tracked \union Alive
           /\ \A n \in DOMAIN PollRecords :
                LET s == PollRecords[n]
                IN /\ s \in Times
                   /\ s.Running > 0 => s.Provisioned > 0
                   /\ s.Provisioned > 0 => s.Provisioning \in 1..s.Provisioned
                   /\ s.Running > 0 => s.Provisioned <= s.Running
                   /\ n \in Running => s.Running > 0
                   /\ n \in Running /\ (n \in Tracked => rec[n].Running = 0) => s.Running = now
                   /\ n \notin Running => s.Running = IF n \in Tracked THEN rec[n].Running ELSE 0
<1>0. DOMAIN PollRecords = Tracked \union Alive
    BY DEF PollRecords
<1>1. now \in Nat \ {0}
    BY BoundAssumption DEF TypeOK
<1>2. SUFFICES ASSUME NEW n \in Tracked \union Alive
      PROVE  LET s == PollRecords[n]
                IN /\ s \in Times
                   /\ s.Running > 0 => s.Provisioned > 0
                   /\ s.Provisioned > 0 => s.Provisioning \in 1..s.Provisioned
                   /\ s.Running > 0 => s.Provisioned <= s.Running
                   /\ n \in Running => s.Running > 0
                   /\ n \in Running /\ (n \in Tracked => rec[n].Running = 0) => s.Running = now
                   /\ n \notin Running => s.Running = IF n \in Tracked THEN rec[n].Running ELSE 0
    BY <1>0
<1> DEFINE t == IF n \in Tracked THEN rec[n] ELSE NoTimes
           s == PollRecords[n]
<1>3. /\ t \in Times
      /\ t.Running > 0 => t.Provisioned > 0
      /\ t.Provisioned > 0 => t.Provisioning \in 1..t.Provisioned
      /\ t.Running > 0 => t.Provisioned <= t.Running
      /\ t.Running = IF n \in Tracked THEN rec[n].Running ELSE 0
    <2>1. CASE n \in Tracked
        BY <2>1 DEF TypeOK, RecordsOrdered, Times
    <2>2. CASE n \notin Tracked
        BY <2>2, <1>1 DEF NoTimes, Times
    <2> QED BY <2>1, <2>2
<1>4. t.Running \in 0..now
    BY <1>3 DEF Times
<1>5. CASE n \in Alive
    <2>1. machine[n].phase \in 1..4 /\ (n \in Running <=> machine[n].phase = 4)
        BY <1>5, AliveFacts
    <2>2. s = Stamp(t, machine[n].phase)
        BY <1>5 DEF PollRecords
    <2> HIDE DEF t, s
    <2>3. PICK p \in 1..4 : p = machine[n].phase
        BY <2>1
    <2>4. s = Stamp(t, p) /\ (n \in Running <=> p = 4)
        BY <2>1, <2>2, <2>3
    <2>5. /\ s \in Times
          /\ s.Running > 0 => s.Provisioned > 0
          /\ s.Provisioned > 0 => s.Provisioning \in 1..s.Provisioned
          /\ s.Running > 0 => s.Provisioned <= s.Running
          /\ t.Running > 0 => s.Running = t.Running
          /\ p = 4 /\ t.Running = 0 => s.Running = now
          /\ p # 4 => s.Running = t.Running
        BY <1>1, <1>3, <2>4, StampFacts
    <2>6. n \in Running => s.Running > 0
        BY <1>1, <1>4, <2>4, <2>5
    <2>7. n \in Running /\ (n \in Tracked => rec[n].Running = 0) => s.Running = now
        BY <1>3, <2>4, <2>5
    <2>8. n \notin Running => s.Running = IF n \in Tracked THEN rec[n].Running ELSE 0
        BY <1>3, <2>4, <2>5
    <2> QED BY <2>5, <2>6, <2>7, <2>8 DEF s
<1>6. CASE n \notin Alive
    <2>1. s = t
        BY <1>2, <1>6 DEF PollRecords
    <2>2. n \notin Running
        BY <1>6, AliveFacts
    <2> QED BY <1>3, <2>1, <2>2
<1> QED BY <1>5, <1>6

(***************************************************************************)
(* The invariant.                                                          *)
(***************************************************************************)
LEMMA InitInv == Init => Inv
<1> SUFFICES ASSUME Init PROVE Inv
    OBVIOUS
<1>1. machine = [n \in Names |-> Absent] /\ Absent \in MachineType /\ Absent.node = "none" /\ Absent.phase = 0
    BY DEF Init, Absent, MachineType, Gone
<1>2. Tracked = {} /\ DOMAIN joined = {} /\ DOMAIN before = {}
    BY DEF Init, Tracked
<1>3. Cardinality(DOMAIN before) = 0
    BY <1>2, FS_EmptySet
<1>4. /\ suite \in {"perf", "steady"} /\ pc = "watch"
      /\ now = 1 /\ changed = 0 /\ written \union wasReady \subseteq Names
    BY DEF Init
<1>5. machine \in [Names -> MachineType]
    BY <1>1
<1>6. TypeOK
    BY <1>2, <1>3, <1>4, <1>5, BoundAssumption DEF TypeOK, MachineType
<1>7. KnownRunning = {}
    BY <1>2 DEF KnownRunning
<1>8. ShortInv
    BY <1>7, FS_EmptySet, BoundAssumption DEF ShortInv
<1>9. CountInv /\ SeenInv /\ RecordsOrdered /\ WindowInv /\ ReadyInv
    BY <1>1, <1>2, <1>4 DEF CountInv, SeenInv, RecordsOrdered, WindowInv, ReadyInv
<1> QED BY <1>6, <1>8, <1>9 DEF Inv, WatchInv

\* A step of the cluster: the watcher sees other Machines, its records stay.
LEMMA ClusterInv ==
    ASSUME Inv, pc # "done", NEW n \in Names, ClusterStep(n)
    PROVE  Inv'
<1> USE DEF Inv, WatchInv
<1>0. OnlyAt(n) /\ Stepped(n) /\ Evolves(machine[n], machine'[n])
    BY ClusterEvolves DEF Stepped
<1>1. /\ UNCHANGED <<suite, pc, now, rec, joined, before, changed>>
      /\ Tracked' = Tracked
    BY <1>0 DEF OnlyAt, watcher, Tracked
<1>2. machine \in [Names -> MachineType] /\ machine'[n] \in MachineType
    BY <1>0 DEF TypeOK, MachineType, Evolves
<1>3. machine' = [machine EXCEPT ![n] = machine'[n]]
    BY <1>0 DEF OnlyAt
<1>4. machine' \in [Names -> MachineType] /\ \A k \in Names \ {n} : machine'[k] = machine[k]
    BY <1>2, <1>3
<1>5. TypeOK'
    <2>1. (written \union wasReady)' \subseteq Names
        BY <1>0 DEF Stepped, TypeOK
    <2>2. suite' \in {"perf", "steady"} /\ pc' \in {"watch", "before", "window", "join", "done"} /\ now' \in 1..(Deadline + 1)
        BY <1>1 DEF TypeOK
    <2>3. /\ Tracked' \subseteq Names
          /\ \A k \in Tracked' : rec'[k] \in [Provisioning : 0..now', Provisioned : 0..now', Running : 0..now']
        BY <1>1 DEF TypeOK
    <2>4. /\ DOMAIN joined' \subseteq Tracked' /\ DOMAIN before' \subseteq Names
          /\ changed' \in 0..Cardinality(DOMAIN before')
        BY <1>1 DEF TypeOK
    <2> QED BY <1>4, <2>1, <2>2, <2>3, <2>4 DEF TypeOK, MachineType
<1>6. CountInv' /\ RecordsOrdered'
    BY <1>1 DEF CountInv, RecordsOrdered
<1>7. SeenInv'
    <2> SUFFICES ASSUME NEW k \in Tracked, rec[k].Running > 0 PROVE machine'[k].phase \in {4, Gone}
        BY <1>1 DEF SeenInv
    <2>1. k \in Names /\ machine[k].phase \in {4, Gone}
        BY DEF SeenInv, TypeOK
    <2>2. CASE k = n
        BY <2>1, <2>2, <1>0 DEF Evolves
    <2>3. CASE k # n
        BY <2>1, <2>3, <1>4
    <2> QED BY <2>2, <2>3
<1>8. ShortInv'
    <2>1. KnownRunning' \subseteq KnownRunning
        <3> SUFFICES ASSUME NEW k \in KnownRunning' PROVE k \in KnownRunning
            OBVIOUS
        <3>1. k \in Running' /\ k \in Tracked /\ rec[k].Running > 0
            BY <1>1 DEF KnownRunning
        <3>2. k \in Names /\ machine[k].phase \in {4, Gone}
            BY <3>1 DEF TypeOK, SeenInv
        <3>3. machine'[k].phase = 4 /\ ~machine'[k].deleting
            BY <3>1, RunningIsLast DEF Running, Alive, Present
        <3>4. machine[k].phase = 4 /\ ~machine[k].deleting
            <4>1. CASE k = n
                BY <3>2, <3>3, <4>1, <1>0 DEF Evolves, Gone
            <4>2. CASE k # n
                BY <3>2, <3>3, <4>2, <1>4
            <4> QED BY <4>1, <4>2
        <3>5. k \in Running
            BY <3>2, <3>4, AliveFacts
        <3> QED BY <3>1, <3>5 DEF KnownRunning
    <2>2. KnownRunning \subseteq Names
        BY AliveFacts DEF KnownRunning
    <2>3. Cardinality(KnownRunning) \in Nat /\ Cardinality(KnownRunning') \in Nat /\ IsFiniteSet(KnownRunning)
        BY <2>1, <2>2, NamesFinite
    <2>4. Cardinality(KnownRunning') <= Cardinality(KnownRunning)
        BY <2>1, <2>3, FS_Subset
    <2> QED BY <1>1, <2>3, <2>4, BoundAssumption DEF ShortInv
<1>9. WindowInv'
    <2> SUFFICES ASSUME pc = "window", NEW k \in DOMAIN before
        PROVE  /\ machine'[k].phase # 0
               /\ before[k] \in Nat /\ before[k] <= machine'[k].version
               /\ k \in written' <=> before[k] # machine'[k].version
        BY <1>1 DEF WindowInv
    <2>1. /\ k \in Names /\ machine[k].phase # 0
          /\ before[k] \in Nat /\ before[k] <= machine[k].version
          /\ k \in written <=> before[k] # machine[k].version
        BY DEF WindowInv, TypeOK
    <2>2. machine[k].version \in Nat
        BY <2>1, <1>2 DEF MachineType
    <2>3. CASE k = n
        <3>1. Counted(n) /\ machine'[n].phase # 0
            BY <1>0, <2>1, <2>3 DEF Stepped, Evolves
        <3>2. CASE written' = written /\ machine'[n].version = machine[n].version
            BY <2>1, <2>3, <3>1, <3>2
        <3>3. CASE written' = written \union {n} /\ machine'[n].version = machine[n].version + 1
            BY <2>1, <2>2, <2>3, <3>1, <3>3
        <3> QED BY <3>1, <3>2, <3>3 DEF Counted
    <2>4. CASE k # n
        <3>1. k \in written' <=> k \in written
            BY <1>0, <2>4 DEF Stepped
        <3> QED BY <2>1, <2>4, <1>4, <3>1
    <2> QED BY <2>3, <2>4
<1>10. ReadyInv'
    <2>1. wasReady \subseteq wasReady'
        BY <1>0 DEF Stepped
    <2>2. \A k \in DOMAIN joined' : joined'[k] = "ready" => k \in wasReady'
        BY <1>1, <2>1 DEF ReadyInv
    <2>3. ASSUME NEW k \in Names, machine'[k].node = "ready" PROVE k \in wasReady'
        <3>1. CASE k = n
            BY <1>0, <2>1, <2>3, <3>1 DEF Stepped, ReadyInv
        <3>2. CASE k # n
            BY <1>4, <2>1, <2>3, <3>2 DEF ReadyInv
        <3> QED BY <3>1, <3>2
    <2> QED BY <2>2, <2>3 DEF ReadyInv
<1> QED BY <1>5, <1>6, <1>7, <1>8, <1>9, <1>10

\* A poll of the phases.
LEMMA PollInv ==
    ASSUME Inv, PollPhases
    PROVE  Inv'
<1> USE DEF Inv, WatchInv
<1>1. /\ pc = "watch" /\ pc' \in {"watch", "before", "join"} /\ rec' = PollRecords
      /\ UNCHANGED <<suite, now, joined, before, changed, machine, written, wasReady>>
    BY DEF PollPhases, cluster
<1> DEFINE R == PollRecords
<1>2. /\ Tracked' = Tracked \union Alive
      /\ \A n \in Tracked \union Alive :
            /\ R[n] \in Times
            /\ R[n].Running > 0 => R[n].Provisioned > 0
            /\ R[n].Provisioned > 0 => R[n].Provisioning \in 1..R[n].Provisioned
            /\ R[n].Running > 0 => R[n].Provisioned <= R[n].Running
            /\ n \notin Running => R[n].Running = IF n \in Tracked THEN rec[n].Running ELSE 0
    BY <1>1, PollFacts DEF Tracked
<1> HIDE DEF R
<1>r. rec' = R
    BY <1>1 DEF R
<1>3. TypeOK'
    <2>1. suite' \in {"perf", "steady"} /\ pc' \in {"watch", "before", "window", "join", "done"} /\ now' \in 1..(Deadline + 1)
        BY <1>1 DEF TypeOK
    <2>2. /\ Tracked' \subseteq Names /\ DOMAIN joined' \subseteq Tracked' /\ DOMAIN before' \subseteq Names
          /\ written' \union wasReady' \subseteq Names /\ changed' \in 0..Cardinality(DOMAIN before')
        BY <1>1, <1>2, AliveFacts DEF TypeOK
    <2>3. machine' \in [Names -> MachineType]
        BY <1>1 DEF TypeOK, MachineType
    <2>4. \A n \in Tracked' : rec'[n] \in [Provisioning : 0..now', Provisioned : 0..now', Running : 0..now']
        BY <1>1, <1>2, <1>r DEF Times
    <2> QED BY <2>1, <2>2, <2>3, <2>4 DEF TypeOK, MachineType
<1>4. CountInv' /\ WindowInv'
    BY <1>1 DEF CountInv, WindowInv
<1>5. RecordsOrdered'
    BY <1>2, <1>r DEF RecordsOrdered
<1>6. SeenInv'
    <2> SUFFICES ASSUME NEW n \in Tracked \union Alive, R[n].Running > 0 PROVE machine[n].phase \in {4, Gone}
        BY <1>1, <1>2, <1>r DEF SeenInv, Gone
    <2>1. CASE n \in Running
        BY <2>1, AliveFacts
    <2>2. CASE n \notin Running
        BY <1>2, <2>2 DEF SeenInv
    <2> QED BY <2>1, <2>2
<1>7. ShortInv'
    <2> SUFFICES ASSUME suite = "perf", pc' = "watch" PROVE Cardinality(KnownRunning') < Target
        BY <1>1 DEF ShortInv
    <2>1. ~Content(PollRecords)
        BY <1>1 DEF PollPhases
    <2>2. ~(Cardinality(Running) >= Target)
        BY <2>1 DEF Content
    <2>3. KnownRunning' \subseteq Running
        <3>1. Running' = Running
            BY <1>1 DEF Running, Alive, Present
        <3> QED BY <3>1 DEF KnownRunning
    <2>4. Running \subseteq Names
        BY AliveFacts
    <2>5. Cardinality(Running) \in Nat /\ Cardinality(KnownRunning') \in Nat /\ IsFiniteSet(Running)
        BY <2>3, <2>4, NamesFinite
    <2>6. Cardinality(KnownRunning') <= Cardinality(Running)
        BY <2>3, <2>5, FS_Subset
    <2> QED BY <2>2, <2>5, <2>6, BoundAssumption
<1>8. ReadyInv'
    BY <1>1 DEF ReadyInv
<1> QED BY <1>3, <1>4, <1>5, <1>6, <1>7, <1>8

\* The records of an earlier poll are still records of this one.
LEMMA RecordsStay ==
    ASSUME Inv, UNCHANGED <<rec, machine>>, now' \in {now, now + 1}
    PROVE  /\ Tracked' = Tracked /\ KnownRunning' = KnownRunning
           /\ SeenInv' /\ RecordsOrdered'
           /\ \A n \in Tracked' : rec'[n] \in [Provisioning : 0..now', Provisioned : 0..now', Running : 0..now']
<1> USE DEF Inv, WatchInv
<1>1. Tracked' = Tracked
    BY DEF Tracked
<1>2. KnownRunning' = KnownRunning
    BY <1>1 DEF KnownRunning, Running, Alive, Present
<1>3. SeenInv' /\ RecordsOrdered'
    BY <1>1 DEF SeenInv, RecordsOrdered
<1>4. ASSUME NEW n \in Tracked' PROVE rec'[n] \in [Provisioning : 0..now', Provisioned : 0..now', Running : 0..now']
    <2>1. rec[n] \in [Provisioning : 0..now, Provisioned : 0..now, Running : 0..now]
        BY <1>1, <1>4 DEF TypeOK
    <2>2. now \in Nat
        BY BoundAssumption DEF TypeOK
    <2>3. 0..now \subseteq 0..now'
        BY <2>2
    <2> QED BY <2>1, <2>3
<1> QED BY <1>1, <1>2, <1>3, <1>4

\* Time passes, or the watch of the phases times out.
LEMMA TimeInv ==
    ASSUME Inv, Tick \/ WatchTimesOut \/ JoinTimesOut
    PROVE  Inv'
<1> USE DEF Inv, WatchInv
<1>1. /\ UNCHANGED <<suite, rec, machine, written, wasReady, joined, before, changed>>
      /\ pc # "done" /\ pc' \in {pc, "before", "done"} /\ pc' # "window"
    BY DEF Tick, WatchTimesOut, JoinTimesOut, cluster, TypeOK
<1>2. now' \in {now, now + 1} /\ now' \in 1..(Deadline + 1)
    BY BoundAssumption DEF Tick, WatchTimesOut, JoinTimesOut, TypeOK
<1>3. /\ Tracked' = Tracked /\ KnownRunning' = KnownRunning
      /\ SeenInv' /\ RecordsOrdered'
      /\ \A n \in Tracked' : rec'[n] \in [Provisioning : 0..now', Provisioned : 0..now', Running : 0..now']
    BY <1>1, <1>2, RecordsStay
<1>4. TypeOK'
    <2>1. suite' \in {"perf", "steady"} /\ pc' \in {"watch", "before", "window", "join", "done"}
        BY <1>1 DEF TypeOK
    <2>2. /\ Tracked' \subseteq Names /\ DOMAIN joined' \subseteq Tracked' /\ DOMAIN before' \subseteq Names
          /\ written' \union wasReady' \subseteq Names /\ changed' \in 0..Cardinality(DOMAIN before')
        BY <1>1, <1>3 DEF TypeOK
    <2>3. machine' \in [Names -> MachineType]
        BY <1>1 DEF TypeOK, MachineType
    <2> QED BY <1>2, <1>3, <2>1, <2>2, <2>3 DEF TypeOK, MachineType
<1>5. CountInv' /\ WindowInv' /\ ReadyInv'
    BY <1>1 DEF CountInv, WindowInv, ReadyInv
<1>6. ShortInv'
    BY <1>1, <1>3 DEF ShortInv
<1> QED BY <1>3, <1>4, <1>5, <1>6

\* What the two snapshots of the window have in common and apart: the Machines that
\* were written and are there at both ends.
LEMMA CountFacts ==
    ASSUME Inv, pc = "window"
    PROVE  CountResourceVersionChanges(before, SnapshotMachineResourceVersions)
             = Cardinality(written \intersect DOMAIN before \intersect Alive)
<1> DEFINE b == SnapshotMachineResourceVersions
<1>1. DOMAIN b = Alive /\ \A n \in Alive : b[n] = machine[n].version
    BY DEF SnapshotMachineResourceVersions
<1> HIDE DEF b
<1>2. \A n \in DOMAIN before : n \in written <=> before[n] # machine[n].version
    BY DEF Inv, WatchInv, WindowInv
<1>3. {n \in DOMAIN before \intersect DOMAIN b : before[n] # b[n]} = written \intersect DOMAIN before \intersect Alive
    BY <1>1, <1>2
<1> QED BY <1>3 DEF CountResourceVersionChanges, b

\* The window.
LEMMA SnapshotInv ==
    ASSUME Inv, SnapshotBefore \/ SnapshotAfter
    PROVE  Inv'
<1> USE DEF Inv, WatchInv
<1>1. /\ UNCHANGED <<suite, now, rec, machine, wasReady, joined>>
      /\ pc' \in {"window", "done"} /\ pc \in {"before", "window"}
    BY DEF SnapshotBefore, SnapshotAfter, cluster
<1>2. now' \in {now, now + 1} /\ now' \in 1..(Deadline + 1)
    BY <1>1 DEF TypeOK
<1>3. /\ Tracked' = Tracked
      /\ SeenInv' /\ RecordsOrdered'
      /\ \A n \in Tracked' : rec'[n] \in [Provisioning : 0..now', Provisioned : 0..now', Running : 0..now']
    BY <1>1, <1>2, RecordsStay
<1>4. ShortInv' /\ ReadyInv'
    BY <1>1 DEF ShortInv, ReadyInv
<1>5. suite' \in {"perf", "steady"} /\ pc' \in {"watch", "before", "window", "join", "done"}
    BY <1>1 DEF TypeOK
<1>6. Tracked' \subseteq Names /\ DOMAIN joined' \subseteq Tracked' /\ wasReady' \subseteq Names
    BY <1>1, <1>3 DEF TypeOK
<1>7. machine' \in [Names -> MachineType]
    BY <1>1 DEF TypeOK, MachineType
<1>8. CASE SnapshotBefore
    <2>1. /\ pc = "before" /\ pc' = "window" /\ written' = {} /\ changed' = changed
          /\ DOMAIN before' = Alive /\ \A n \in Alive : before'[n] = machine[n].version
        BY <1>8 DEF SnapshotBefore, SnapshotMachineResourceVersions
    <2>2. CountInv' /\ changed' = 0
        BY <2>1 DEF CountInv
    <2>3. Cardinality(DOMAIN before') \in Nat
        BY <2>1, AliveFacts, NamesFinite
    <2>4. TypeOK'
        BY <1>2, <1>3, <1>5, <1>6, <1>7, <2>1, <2>2, <2>3, AliveFacts DEF TypeOK, MachineType
    <2>5. WindowInv'
        <3>1. \A n \in Alive : machine[n].version \in Nat /\ machine[n].phase # 0
            BY AliveFacts DEF TypeOK
        <3> QED BY <1>1, <2>1, <3>1 DEF WindowInv
    <2> QED BY <1>3, <1>4, <2>2, <2>4, <2>5
<1>9. CASE SnapshotAfter
    <2>1. /\ pc = "window" /\ pc' = "done" /\ written' = written /\ before' = before
          /\ changed' = CountResourceVersionChanges(before, SnapshotMachineResourceVersions)
        BY <1>9 DEF SnapshotAfter, cluster
    <2> DEFINE C == written \intersect DOMAIN before \intersect Alive
    <2>2. changed' = Cardinality(C)
        BY <2>1, CountFacts
    <2>3. C \subseteq DOMAIN before /\ DOMAIN before \subseteq Names
        BY DEF TypeOK
    <2> HIDE DEF C
    <2>4. /\ Cardinality(C) \in Nat /\ Cardinality(DOMAIN before) \in Nat
          /\ IsFiniteSet(DOMAIN before)
        BY <2>3, NamesFinite
    <2>5. Cardinality(C) <= Cardinality(DOMAIN before)
        BY <2>3, <2>4, FS_Subset
    <2>6. changed' \in 0..Cardinality(DOMAIN before')
        BY <2>1, <2>2, <2>4, <2>5
    <2>7. DOMAIN before' \subseteq Names /\ written' \union wasReady' \subseteq Names
        BY <1>6, <2>1 DEF TypeOK
    <2>8. TypeOK'
        BY <1>2, <1>3, <1>5, <1>6, <1>7, <2>6, <2>7 DEF TypeOK, MachineType
    <2>9. CountInv' /\ WindowInv'
        BY <2>1 DEF CountInv, WindowInv
    <2> QED BY <1>3, <1>4, <2>8, <2>9
<1> QED BY <1>8, <1>9

\* What a poll of the Nodes records, only of Nodes that have been Ready and only of
\* Machines with a record.
LEMMA JoinedFacts ==
    ASSUME Inv
    PROVE  /\ DOMAIN PollJoined \subseteq Tracked
           /\ \A n \in DOMAIN PollJoined : PollJoined[n] = "ready" => n \in wasReady
<1> DEFINE nodes == {n \in Tracked \intersect Present : machine[n].node # "none"}
           Rdy(n) == \/ n \in nodes /\ machine[n].node = "ready"
                     \/ n \in DOMAIN joined /\ joined[n] = "ready"
<1>1. DOMAIN PollJoined = DOMAIN joined \union nodes
    BY DEF PollJoined
<1>2. ASSUME NEW n \in DOMAIN PollJoined, PollJoined[n] = "ready" PROVE n \in wasReady
    <2>1. PollJoined[n] = IF Rdy(n) THEN "ready" ELSE "joined"
        BY <1>2 DEF PollJoined
    <2>2. Rdy(n)
        BY <1>2, <2>1
    <2> QED BY <2>2 DEF Inv, WatchInv, ReadyInv, Present
<1> QED BY <1>1, <1>2 DEF Inv, TypeOK

\* A poll of WatchNodeJoin keeps the invariant.
LEMMA NodesInv ==
    ASSUME Inv, PollNodes
    PROVE  Inv'
<1> USE DEF Inv, WatchInv
<1>1. /\ UNCHANGED <<suite, now, rec, machine, written, wasReady, before, changed>>
      /\ pc = "join" /\ pc' \in {"join", "done"} /\ joined' = PollJoined
    BY DEF PollNodes, cluster
<1>2. now' \in {now, now + 1} /\ now' \in 1..(Deadline + 1)
    BY <1>1 DEF TypeOK
<1>3. /\ Tracked' = Tracked
      /\ SeenInv' /\ RecordsOrdered'
      /\ \A n \in Tracked' : rec'[n] \in [Provisioning : 0..now', Provisioned : 0..now', Running : 0..now']
    BY <1>1, <1>2, RecordsStay
<1>4. TypeOK'
    <2>1. suite' \in {"perf", "steady"} /\ pc' \in {"watch", "before", "window", "join", "done"}
        BY <1>1 DEF TypeOK
    <2>2. /\ Tracked' \subseteq Names /\ DOMAIN joined' \subseteq Tracked' /\ DOMAIN before' \subseteq Names
          /\ written' \union wasReady' \subseteq Names /\ changed' \in 0..Cardinality(DOMAIN before')
        BY <1>1, <1>3, JoinedFacts DEF TypeOK
    <2>3. machine' \in [Names -> MachineType]
        BY <1>1 DEF TypeOK, MachineType
    <2> QED BY <1>2, <1>3, <2>1, <2>2, <2>3 DEF TypeOK, MachineType
<1>5. CountInv' /\ WindowInv' /\ ShortInv'
    BY <1>1 DEF CountInv, WindowInv, ShortInv
<1>6. ReadyInv'
    BY <1>1, JoinedFacts DEF ReadyInv
<1> QED BY <1>3, <1>4, <1>5, <1>6

\* Every poll, tick and step of the cluster keeps the invariant.
LEMMA NextInv == Inv /\ [Next]_vars => Inv'
<1> SUFFICES ASSUME Inv, [Next]_vars PROVE Inv'
    OBVIOUS
<1>1. CASE Watch \/ Tick
    BY <1>1, PollInv, TimeInv, SnapshotInv, NodesInv DEF Watch
<1>2. ASSUME pc # "done", NEW n \in Names, ClusterStep(n) PROVE Inv'
    BY <1>2, ClusterInv
<1>3. CASE UNCHANGED vars
    <2>1. UNCHANGED <<suite, pc, now, rec, joined, before, changed, machine, written, wasReady>>
        BY <1>3 DEF vars, watcher, cluster
    <2>2. /\ Tracked' = Tracked /\ KnownRunning' = KnownRunning
        BY <2>1 DEF Tracked, KnownRunning, Running, Alive, Present
    <2>3. TypeOK'
        BY <2>1, <2>2 DEF Inv, TypeOK
    <2> QED BY <2>1, <2>2, <2>3 DEF Inv, WatchInv, CountInv, SeenInv, RecordsOrdered, ShortInv, WindowInv, ReadyInv
<1> QED BY <1>1, <1>2, <1>3 DEF Next, ClusterStep

(***************************************************************************)
(* Theorems.                                                               *)
(***************************************************************************)
\* The maximum of a set of numbers is the one that is in it and not below any.
LEMMA MaxIs ==
    ASSUME NEW S \in SUBSET Nat, NEW x \in S, \A y \in S : y <= x
    PROVE  Max(S) = x
<1> DEFINE mx == Max(S)
<1>1. mx \in S /\ \A y \in S : mx >= y
    <2>1. \A y \in S : x >= y
        OBVIOUS
    <2> QED BY <2>1 DEF Max
<1> HIDE DEF mx
<1>2. mx \in Nat /\ x \in Nat /\ mx >= x /\ mx <= x
    BY <1>1
<1>3. mx = x
    BY <1>2
<1> QED BY <1>3 DEF mx

\* In every reachable state the records, the snapshot and the history of the Nodes
\* agree with the Machines, however steps of the cluster and polls interleave.
THEOREM WatchInvariant == Spec => []Inv
<1> QED BY InitInv, NextInv, PTL DEF Spec

\* The types of the variables, for any number of Machines, deletions and writes.
THEOREM TypeCorrect == Spec => []TypeOK
<1>1. Inv => TypeOK
    BY DEF Inv
<1> QED BY <1>1, WatchInvariant, PTL

\* The times of every record are in the order of the phases, and none has a time
\* without those before it, whatever phases the polls have missed.
THEOREM RecordsAreOrdered == Spec => []RecordsOrdered
<1>1. Inv => RecordsOrdered
    BY DEF Inv, WatchInv
<1> QED BY <1>1, WatchInvariant, PTL

\* A watch of PERF-01 that succeeds ends with the poll that gave AllRunningTime, and
\* with as many Machines Running as it was asked for: ShortInv says that one of them
\* is Running for the first time in that poll.
THEOREM ReturnIsAllRunning == Spec => AllRunningAtReturn
<1>1. ASSUME Inv, [Next]_vars, suite = "perf", pc = "watch", pc' = "before", now <= Deadline
      PROVE  AllRunningTime' = now /\ Cardinality(Running) >= Target
    <2>0. Inv /\ TypeOK /\ RecordsOrdered /\ ShortInv
        BY <1>1 DEF Inv, WatchInv
    <2>1. PollPhases
        <3>1. ASSUME NEW n \in Names, ClusterStep(n) PROVE FALSE
            BY <1>1, <2>0, <3>1, ClusterEvolves DEF Stepped, OnlyAt, watcher
        <3>2. ~Tick /\ ~WatchTimesOut /\ ~SnapshotBefore /\ ~SnapshotAfter /\ ~PollNodes /\ ~JoinTimesOut
            BY <1>1, <2>0, BoundAssumption DEF Tick, WatchTimesOut, SnapshotBefore, SnapshotAfter, PollNodes, JoinTimesOut, TypeOK
        <3>3. ~UNCHANGED vars
            BY <1>1 DEF vars, watcher
        <3> QED BY <1>1, <3>1, <3>2, <3>3 DEF Next, Watch, ClusterStep
    <2>2. Content(PollRecords) /\ rec' = PollRecords
        BY <1>1, <2>1 DEF PollPhases
    <2>3. Cardinality(Running) >= Target
        BY <1>1, <2>2 DEF Content
    <2>4. PICK n \in Running : n \in Tracked => rec[n].Running = 0
        <3>1. Cardinality(KnownRunning) < Target
            BY <1>1, <2>0 DEF ShortInv
        <3>2. KnownRunning # Running
            <4>1. KnownRunning \subseteq Names /\ Running \subseteq Names
                BY AliveFacts DEF KnownRunning
            <4>2. Cardinality(KnownRunning) \in Nat /\ Cardinality(Running) \in Nat
                BY <4>1, NamesFinite
            <4> QED BY <2>3, <3>1, <4>2, BoundAssumption
        <3>3. PICK n \in Running : ~(n \in Tracked /\ rec[n].Running > 0)
            BY <3>2 DEF KnownRunning
        <3>4. n \in Tracked => rec[n].Running \in 0..now
            BY <2>0 DEF TypeOK
        <3>5. now \in Nat
            BY <2>0, BoundAssumption DEF TypeOK
        <3> QED BY <3>3, <3>4, <3>5
    <2> DEFINE R == PollRecords
               S == {R[k].Running : k \in DOMAIN R} \union {0}
    <2>5. n \in DOMAIN R /\ R[n].Running = now /\ \A k \in DOMAIN R : R[k] \in Times
        BY <2>0, <2>4, AliveFacts, PollFacts
    <2>6. now \in Nat
        BY <2>0, BoundAssumption DEF TypeOK
    <2> HIDE DEF R
    <2>7. now \in S
        BY <2>5
    <2>8. S \in SUBSET Nat /\ \A y \in S : y <= now
        <3>1. \A k \in DOMAIN R : R[k].Running \in Nat /\ R[k].Running <= now
            BY <2>5, <2>6 DEF Times
        <3> QED BY <2>6, <3>1
    <2>9. AllRunningTime' = Max(S)
        BY <2>2 DEF AllRunningTime, Tracked, R
    <2> HIDE DEF S
    <2>10. Max(S) = now
        BY <2>7, <2>8, MaxIs
    <2> QED BY <2>3, <2>9, <2>10
<1>2. Inv /\ [Next]_vars => [suite = "perf" /\ pc = "watch" /\ pc' = "before" /\ now <= Deadline =>
        AllRunningTime' = now /\ Cardinality(Running) >= Target]_vars
    BY <1>1
<1> QED BY <1>2, WatchInvariant, PTL DEF Spec, AllRunningAtReturn

\* What PERF-01 reports as changed are the Machines that were written in the window
\* and were there at both its ends.
THEOREM ChangesAreWrites == Spec => ChangedWereWritten
<1>1. ASSUME Inv, [Next]_vars, pc = "window", pc' = "done"
      PROVE  changed' = Cardinality(written \intersect DOMAIN before \intersect Alive)
    <2>1. SnapshotAfter
        <3>1. ASSUME NEW n \in Names, ClusterStep(n) PROVE FALSE
            BY <1>1, <3>1, ClusterEvolves DEF Inv, Stepped, OnlyAt, watcher
        <3>2. ~Tick /\ ~WatchTimesOut /\ ~SnapshotBefore /\ ~PollPhases /\ ~PollNodes /\ ~JoinTimesOut
            BY <1>1 DEF Tick, WatchTimesOut, SnapshotBefore, PollPhases, PollNodes, JoinTimesOut
        <3>3. ~UNCHANGED vars
            BY <1>1 DEF vars, watcher
        <3> QED BY <1>1, <3>1, <3>2, <3>3 DEF Next, Watch, ClusterStep
    <2> QED BY <1>1, <2>1, CountFacts DEF SnapshotAfter
<1>2. Inv /\ [Next]_vars => [pc = "window" /\ pc' = "done" =>
        changed' = Cardinality(written \intersect DOMAIN before \intersect Alive)]_vars
    BY <1>1
<1> QED BY <1>2, WatchInvariant, PTL DEF Spec, ChangedWereWritten

\* A WatchNodeJoin that succeeds has seen the Node of every watched Machine Ready,
\* those that have stopped being so or are gone included.
THEOREM JoinedIsAll == Spec => JoinedMeansAll
<1>1. ASSUME Inv, [Next]_vars, pc = "join", pc' = "done", now <= Deadline
      PROVE  Tracked \subseteq wasReady
    <2>1. PollNodes
        <3>1. ASSUME NEW n \in Names, ClusterStep(n) PROVE FALSE
            BY <1>1, <3>1, ClusterEvolves DEF Inv, Stepped, OnlyAt, watcher
        <3>2. ~Tick /\ ~WatchTimesOut /\ ~SnapshotBefore /\ ~SnapshotAfter /\ ~PollPhases /\ ~JoinTimesOut
            BY <1>1, BoundAssumption DEF Inv, Tick, WatchTimesOut, SnapshotBefore, SnapshotAfter, PollPhases, JoinTimesOut, TypeOK
        <3>3. ~UNCHANGED vars
            BY <1>1 DEF vars, watcher
        <3> QED BY <1>1, <3>1, <3>2, <3>3 DEF Next, Watch, ClusterStep
    <2>2. AllJoined(PollJoined)
        BY <1>1, <2>1 DEF PollNodes
    <2> QED BY <1>1, <2>2, JoinedFacts DEF AllJoined
<1>2. Inv /\ [Next]_vars => [pc = "join" /\ pc' = "done" /\ now <= Deadline => Tracked \subseteq wasReady]_vars
    BY <1>1
<1> QED BY <1>2, WatchInvariant, PTL DEF Spec, JoinedMeansAll

=============================================================================
