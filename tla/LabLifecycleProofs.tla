------------------------- MODULE LabLifecycleProofs -------------------------
(***************************************************************************)
(* Proofs about LabLifecycle, for any set of vCenters, any behaviour of    *)
(* the other actors and any number of applies, edits and faults.           *)
(***************************************************************************)
EXTENDS LabLifecycle, FiniteSetTheorems, TLAPS

\* The five objects are different objects.
LEMMA DistinctObjects ==
    /\ Infra # SourceConfig /\ Infra # RootCreds /\ Infra # CloudCreds /\ Infra # MachineCreds
    /\ SourceConfig # RootCreds /\ SourceConfig # CloudCreds /\ SourceConfig # MachineCreds
    /\ RootCreds # CloudCreds /\ RootCreds # MachineCreds /\ CloudCreds # MachineCreds
BY DEF Infra, SourceConfig, RootCreds, CloudCreds, MachineCreds

\* The sentinels are no sets of vCenters, no states and not each other.
LEMMA Sentinels ==
    /\ Absent \notin SUBSET VCenter /\ Unparsable \notin SUBSET VCenter
    /\ Absent # Unparsable
    /\ NoFile \notin State /\ Torn \notin State /\ NoCycle \notin State /\ NoFile # Torn
BY SentinelAssumption

\* The first target of a loop that is not over is one of its targets.
LEMMA FirstIsTarget ==
    ASSUME NEW S \in SUBSET BackupTargets, S # {}
    PROVE  First(S) \in S
BY DEF First, BackupTargets

\* Writing an object with a content it may have keeps the cluster well formed.
LEMMA WriteKeepsState ==
    ASSUME NEW s \in State, NEW o \in Object, NEW c \in ContentOf(o)
    PROVE  [s EXCEPT ![o] = c] \in State
<1>1. c \in Content
    BY DEF ContentOf, Content
<1>2. [s EXCEPT ![o] = c] \in Snapshot
    BY <1>1 DEF State, Snapshot
<1>3. o \in {Infra, SourceConfig} => c # Absent
    BY Sentinels DEF ContentOf
<1>4. s \in [Object -> Content] /\ s[Infra] # Absent /\ s[SourceConfig] # Absent
    BY DEF State, Snapshot
<1>5. Infra \in Object /\ SourceConfig \in Object
    BY DEF Object
<1>6. [s EXCEPT ![o] = c][Infra] # Absent /\ [s EXCEPT ![o] = c][SourceConfig] # Absent
    BY <1>3, <1>4, <1>5
<1> QED
    BY <1>2, <1>6 DEF State

\* What the objects of a well formed cluster, or of a whole backup, hold.
LEMMA StateContents ==
    ASSUME NEW s \in State
    PROVE  /\ s \in Snapshot
           /\ \A o \in Object : s[o] \in Content /\ (s[o] # Absent => s[o] \in ContentOf(o))
           /\ s[Infra] \in SUBSET VCenter
           /\ s[SourceConfig] # Absent
           /\ s[SourceConfig] \in {Unparsable} \cup SUBSET VCenter
           /\ \A o \in BackupTargets : s[o] \in {Absent} \cup SUBSET VCenter
<1>1. /\ s \in Snapshot /\ s[Infra] # Absent /\ s[SourceConfig] # Absent
      /\ \A o \in Object : s[o] \in Content /\ (s[o] # Absent => s[o] \in ContentOf(o))
    BY DEF State, Snapshot
<1>2. Infra \in Object /\ SourceConfig \in Object
    BY DEF Object
<1>3. s[Infra] \in ContentOf(Infra) /\ s[SourceConfig] \in ContentOf(SourceConfig)
    BY <1>1, <1>2
<1>4. \A o \in BackupTargets : o \in Object /\ o # Infra /\ o # SourceConfig
    BY DistinctObjects DEF BackupTargets, Object
<1>5. \A o \in BackupTargets : s[o] \in {Absent} \cup SUBSET VCenter
    BY <1>1, <1>4 DEF ContentOf
<1> QED
    BY <1>1, <1>3, <1>5, DistinctObjects DEF ContentOf

\* Capturing an object keeps the draft a partial snapshot.
LEMMA CaptureKeepsSnapshot ==
    ASSUME NEW d \in Snapshot, NEW s \in State, NEW o \in Object
    PROVE  d \in [Object -> Content] /\ [d EXCEPT ![o] = s[o]] \in Snapshot
<1>1. s[o] \in Content /\ (s[o] # Absent => s[o] \in ContentOf(o))
    BY StateContents
<1> QED
    BY <1>1 DEF Snapshot

\* The empty draft is a snapshot.
LEMMA EmptyIsSnapshot == Empty \in Snapshot
BY DEF Empty, Snapshot, Content

\* An edit by another actor keeps the cluster well formed.
LEMMA EditKeepsState ==
    ASSUME NEW s \in State, NEW t,
           t = [o \in Object |-> t[o]],
           \A o \in Object : IF s[o] \in {Absent, Unparsable} THEN t[o] = s[o]
                            ELSE s[o] \in SUBSET VCenter => t[o] \in SUBSET VCenter
    PROVE  t \in State
<1>1. ASSUME NEW o \in Object
      PROVE  t[o] \in Content /\ (t[o] # Absent => t[o] \in ContentOf(o)) /\ (s[o] # Absent => t[o] # Absent)
    <2>1. s[o] \in Content /\ (s[o] # Absent => s[o] \in ContentOf(o))
        BY StateContents
    <2>2. CASE s[o] \in {Absent, Unparsable}
        BY <2>1, <2>2
    <2>3. CASE s[o] \notin {Absent, Unparsable}
        <3>1. s[o] \in SUBSET VCenter
            BY <2>1, <2>3 DEF Content
        <3>2. t[o] \in SUBSET VCenter
            BY <3>1, <2>3
        <3> QED
            BY <3>2, Sentinels DEF Content, ContentOf
    <2> QED
        BY <2>2, <2>3
<1>2. t \in [Object -> Content]
    BY <1>1
<1>3. t \in Snapshot
    BY <1>1, <1>2 DEF Snapshot
<1>4. Infra \in Object /\ SourceConfig \in Object
    BY DEF Object
<1>5. t[Infra] # Absent /\ t[SourceConfig] # Absent
    BY <1>1, <1>4 DEF State
<1> QED
    BY <1>3, <1>5 DEF State

-----------------------------------------------------------------------------
(***************************************************************************)
(* IInv is inductive: the initial states, then one lemma per group of      *)
(* actions.                                                                *)
(***************************************************************************)
LEMMA InitIInv == Init => IInv
<1> SUFFICES ASSUME Init PROVE IInv
    OBVIOUS
<1>1. PICK vcs \in SUBSET VCenter, config \in {"valid", "unparsable"}, cloud \in {"present", "absent"} :
          cluster = [o \in Object |->
             IF o = SourceConfig /\ config = "unparsable" THEN Unparsable
             ELSE IF o = CloudCreds /\ cloud = "absent" THEN Absent ELSE vcs]
    BY DEF Init
<1>2. ASSUME NEW o \in Object
      PROVE  /\ cluster[o] \in Content
             /\ cluster[o] # Absent => cluster[o] \in ContentOf(o)
             /\ o \in {Infra, SourceConfig} => cluster[o] # Absent
    BY <1>1, DistinctObjects, Sentinels DEF Content, ContentOf
<1>3. cluster \in State
    <2>1. cluster = [o \in Object |-> cluster[o]]
        BY <1>1, Zenon
    <2>2. cluster \in [Object -> Content]
        BY <2>1, <1>2
    <2>3. cluster \in Snapshot
        BY <2>2, <1>2 DEF Snapshot
    <2>4. Infra \in Object /\ SourceConfig \in Object
        BY DEF Object
    <2> QED
        BY <2>3, <2>4, <1>2 DEF State
<1>4. TypeOK
    BY <1>3, EmptyIsSnapshot, DistinctObjects DEF Init, TypeOK, Label, Command, LabObject, Object, Content
<1> QED
    BY <1>4, DistinctObjects DEF Init, IInv, ControlInv, WriteAheadInv, Capturing, Restoring, Changing

\* A command that ends: only its local variables change, and a file may appear.
LEMMA ExitIInv ==
    ASSUME IInv, NEW r \in {"ok", "failed"}, Exit(r),
           UNCHANGED <<cluster, cmd, cycle, quiet, applies, edits>>,
           faults' \in Nat,
           file' \in {file, Torn}
    PROVE  IInv'
<1>1. TypeOK'
    BY EmptyIsSnapshot, DistinctObjects DEF IInv, TypeOK, Exit, Label, LabObject, Object, Content, BackupTargets
<1>2. pc' = "idle"
    BY DEF Exit
<1>3. ControlInv'
    BY <1>2 DEF ControlInv, Capturing, Restoring
<1>4. WriteAheadInv'
    BY <1>2, Sentinels DEF IInv, WriteAheadInv, Capturing, Changing
<1> QED
    BY <1>1, <1>3, <1>4 DEF IInv

\* The steps of apply up to the moment the backup is saved.
LEMMA CaptureStepIInv ==
    ASSUME IInv, GetInfra \/ CaptureConfig \/ CaptureSecret \/ SaveState
    PROVE  IInv'
<1> USE DEF IInv, TypeOK, ControlInv, WriteAheadInv, Goto, locals, counts
<1>1. ASSUME GetInfra PROVE IInv'
    <2>1. cluster[Infra] \in SUBSET VCenter
        BY StateContents
    <2>2. [Empty EXCEPT ![Infra] = cluster[Infra]] \in Snapshot
        BY CaptureKeepsSnapshot, EmptyIsSnapshot DEF Object
    <2>3. [Empty EXCEPT ![Infra] = cluster[Infra]][Infra] # Absent
        BY <2>1, Sentinels DEF Empty, Object
    <2>4. TypeOK'
        BY <1>1, <2>1, <2>2 DEF GetInfra, Label, Content
    <2>5. ControlInv'
        BY <1>1, <2>3 DEF GetInfra, Capturing, Restoring
    <2>6. WriteAheadInv'
        BY <1>1 DEF GetInfra, Capturing, Changing
    <2> QED
        BY <2>4, <2>5, <2>6
<1>2. ASSUME CaptureConfig PROVE IInv'
    <2>1. SourceConfig \in Object /\ Infra \in Object \ {SourceConfig}
        BY DistinctObjects DEF Object
    <2>2. draft' = [draft EXCEPT ![SourceConfig] = cluster[SourceConfig]]
        BY <1>2 DEF CaptureConfig
    <2>3. draft \in [Object -> Content] /\ draft' \in Snapshot
        BY <2>1, <2>2, CaptureKeepsSnapshot
    <2>4. draft'[SourceConfig] = cluster[SourceConfig] /\ draft'[Infra] = draft[Infra]
        BY <2>1, <2>2, <2>3
    <2>5. cluster[SourceConfig] # Absent
        BY StateContents
    <2>6. TypeOK'
        BY <1>2, <2>3 DEF CaptureConfig, Label
    <2>7. ControlInv'
        BY <1>2, <2>4, <2>5 DEF CaptureConfig, Capturing, Restoring, BackupTargets
    <2>8. WriteAheadInv'
        BY <1>2 DEF CaptureConfig, Capturing, Changing
    <2> QED
        BY <2>6, <2>7, <2>8
<1>3. ASSUME CaptureSecret PROVE IInv'
    <2>1. First(todo) \in BackupTargets
        BY <1>3, FirstIsTarget DEF CaptureSecret
    <2>2. /\ First(todo) \in Object
          /\ Infra \in Object \ {First(todo)} /\ SourceConfig \in Object \ {First(todo)}
        BY <2>1, DistinctObjects DEF Object, BackupTargets
    <2>3. draft' = [draft EXCEPT ![First(todo)] = cluster[First(todo)]]
        BY <1>3 DEF CaptureSecret
    <2>4. draft \in [Object -> Content] /\ draft' \in Snapshot
        BY <2>2, <2>3, CaptureKeepsSnapshot
    <2>5. draft'[SourceConfig] = draft[SourceConfig] /\ draft'[Infra] = draft[Infra]
        BY <2>2, <2>3, <2>4
    <2>6. TypeOK'
        BY <1>3, <2>4 DEF CaptureSecret, Label
    <2>7. ControlInv'
        BY <1>3, <2>5 DEF CaptureSecret, Capturing, Restoring
    <2>8. WriteAheadInv'
        BY <1>3 DEF CaptureSecret, Capturing, Changing
    <2> QED
        BY <2>6, <2>7, <2>8
<1>4. ASSUME SaveState PROVE IInv'
    <2>1. draft \in State
        BY <1>4 DEF SaveState, State, Capturing
    <2>2. TypeOK'
        BY <1>4, <2>1, EmptyIsSnapshot DEF SaveState, Label
    <2>3. ControlInv'
        BY <1>4 DEF SaveState, Capturing, Restoring
    <2>4. WriteAheadInv'
        BY <1>4, <2>1, Sentinels DEF SaveState, Capturing, Changing
    <2> QED
        BY <2>2, <2>3, <2>4
<1> QED
    BY <1>1, <1>2, <1>3, <1>4

\* The steps of apply that read and change the cluster.
LEMMA ChangeStepIInv ==
    ASSUME IInv, GetConfig \/ PutConfig \/ GetSecret \/ PutSecret \/ PatchInfra
    PROVE  IInv'
<1> USE DEF IInv, TypeOK, ControlInv, WriteAheadInv, Goto, locals, counts
<1>1. /\ SourceConfig \in LabObject /\ UpdateTargets \subseteq LabObject /\ Infra \in LabObject
      /\ LabObject \subseteq Object /\ UpdateTargets \subseteq BackupTargets
    BY DistinctObjects DEF LabObject, Object, UpdateTargets, BackupTargets
<1>2. ASSUME GetConfig PROVE IInv'
    <2>1. cluster[SourceConfig] \in Content /\ cluster[SourceConfig] # Absent
        BY <1>1, StateContents
    <2>2. TypeOK'
        BY <1>1, <1>2, <2>1 DEF GetConfig, ReadForUpdate, Label
    <2>3. ControlInv'
        BY <1>1, <1>2, <2>1 DEF GetConfig, ReadForUpdate, Capturing, Restoring
    <2>4. WriteAheadInv'
        BY <1>2 DEF GetConfig, Capturing, Changing
    <2> QED
        BY <2>2, <2>3, <2>4
<1>3. ASSUME PutConfig PROVE IInv'
    <2>1. /\ pc = "put_config" /\ ~cmd.dry /\ target = SourceConfig /\ cmd.vc \in VCenter
          /\ todo \subseteq UpdateTargets
          /\ read \in {Unparsable} \cup SUBSET VCenter
        BY <1>3 DEF PutConfig, Content, Command
    <2>2. MergedConfig \in SUBSET VCenter
        BY <2>1 DEF MergedConfig
    <2>3. MergedConfig \in ContentOf(SourceConfig)
        BY <2>2 DEF ContentOf
    <2>4. cluster' \in State
        BY <1>1, <1>3, <2>3, WriteKeepsState DEF PutConfig, Write
    <2>5. TypeOK'
        BY <1>3, <2>4 DEF PutConfig, OpenCycle, Label
    <2>6. ControlInv'
        BY <1>3, <2>1 DEF PutConfig, Capturing, Restoring
    <2>7. WriteAheadInv'
        BY <1>3, <2>1 DEF PutConfig, OpenCycle, Capturing, Changing
    <2> QED
        BY <2>5, <2>6, <2>7
<1>4. ASSUME GetSecret PROVE IInv'
    <2>1. First(todo) \in todo /\ First(todo) \in UpdateTargets
        BY <1>1, <1>4, FirstIsTarget DEF GetSecret
    <2>2. cluster[First(todo)] \in {Absent} \cup SUBSET VCenter
        BY <1>1, <2>1, StateContents
    <2>3. TypeOK'
        BY <1>1, <1>4, <2>1, <2>2 DEF GetSecret, ReadForUpdate, Label, Content
    <2>4. ControlInv'
        BY <1>4, <2>1, <2>2 DEF GetSecret, ReadForUpdate, Capturing, Restoring
    <2>5. WriteAheadInv'
        BY <1>4 DEF GetSecret, Capturing, Changing
    <2> QED
        BY <2>3, <2>4, <2>5
<1>5. ASSUME PutSecret PROVE IInv'
    <2>1. /\ pc = "put_secret" /\ ~cmd.dry /\ cmd.vc \in VCenter
          /\ todo \subseteq UpdateTargets /\ read \in SUBSET VCenter
          /\ First(todo) \in UpdateTargets
        BY <1>1, <1>5, FirstIsTarget DEF PutSecret, Command
    <2>2. read \cup {cmd.vc} \in ContentOf(First(todo))
        BY <2>1 DEF ContentOf
    <2>3. cluster' \in State
        BY <1>1, <1>5, <2>1, <2>2, WriteKeepsState DEF PutSecret, MergedSecret, Write
    <2>4. TypeOK'
        BY <1>1, <1>5, <2>1, <2>3 DEF PutSecret, Label
    <2>5. ControlInv'
        BY <1>5, <2>1 DEF PutSecret, Capturing, Restoring
    <2>6. WriteAheadInv'
        BY <1>5, <2>1 DEF PutSecret, Capturing, Changing
    <2> QED
        BY <2>4, <2>5, <2>6
<1>6. ASSUME PatchInfra PROVE IInv'
    <2>1. seen \cup {cmd.vc} \in ContentOf(Infra)
        BY DEF ContentOf, Command
    <2>2. cluster' \in State
        BY <1>1, <1>6, <2>1, WriteKeepsState DEF PatchInfra, PatchedSpec
    <2>3. TypeOK'
        BY <1>6, <2>2 DEF PatchInfra, Label
    <2>4. ControlInv'
        BY <1>6 DEF PatchInfra, Capturing, Restoring
    <2>5. WriteAheadInv'
        BY <1>6 DEF PatchInfra, Capturing, Changing
    <2> QED
        BY <2>3, <2>4, <2>5
<1> QED
    BY <1>2, <1>3, <1>4, <1>5, <1>6

\* The steps of restore.
LEMMA RestoreStepIInv ==
    ASSUME IInv, LoadState \/ \E o \in LabObject : RestoreGet(o) \/ RestorePut(o)
    PROVE  IInv'
<1> USE DEF IInv, TypeOK, ControlInv, WriteAheadInv, Goto, locals, counts
<1>1. Infra \in LabObject /\ SourceConfig \in LabObject /\ LabObject \subseteq Object
    BY DistinctObjects DEF LabObject, Object
<1>2. ASSUME LoadState PROVE IInv'
    <2>1. file \in State
        BY <1>2 DEF LoadState, Usable
    <2>2. file \in Snapshot /\ file[Infra] # Absent
        BY <2>1 DEF State
    <2>3. TypeOK'
        BY <1>1, <1>2, <2>2 DEF LoadState, Label
    <2>4. ControlInv'
        BY <1>1, <1>2, <2>2 DEF LoadState, Capturing, Restoring
    <2>5. WriteAheadInv'
        BY <1>2 DEF LoadState, Capturing, Changing
    <2> QED
        BY <2>3, <2>4, <2>5
<1>3. ASSUME NEW o \in LabObject, RestoreGet(o) PROVE IInv'
    <2>1. cluster[o] \in Content
        BY <1>1, StateContents
    <2>2. TypeOK'
        BY <1>3, <2>1 DEF RestoreGet, ReadForUpdate, Label
    <2>3. ControlInv'
        BY <1>3 DEF RestoreGet, ReadForUpdate, Capturing, Restoring
    <2>4. WriteAheadInv'
        BY <1>3 DEF RestoreGet, Capturing, Changing
    <2> QED
        BY <2>2, <2>3, <2>4
<1>4. ASSUME NEW o \in LabObject, RestorePut(o) PROVE IInv'
    <2>1. /\ pc = "restore_put" /\ target = o /\ Usable(file) /\ draft = file
          /\ todo \subseteq {p \in LabObject : draft[p] # Absent}
          /\ draft[o] # Absent
        BY <1>4 DEF RestorePut, Write, Restoring
    <2>2. draft \in State
        BY <2>1 DEF Usable
    <2>3. draft[o] \in ContentOf(o) /\ draft[SourceConfig] # Absent
        BY <1>1, <2>1, <2>2, StateContents
    <2>4. cluster' \in State
        BY <1>1, <1>4, <2>3, WriteKeepsState DEF RestorePut, Write
    <2>5. todo' \subseteq {p \in LabObject : draft[p] # Absent}
        BY <1>1, <1>4, <2>1, <2>3, DistinctObjects
        DEF RestorePut, AfterRestoring, NextStage, UpdateTargets, LabObject, Object
    <2>6. TypeOK'
        BY <1>4, <2>4, <2>5 DEF RestorePut, Label
    <2>7. ControlInv'
        BY <1>4, <2>1, <2>5 DEF RestorePut, Capturing, Restoring
    <2>8. WriteAheadInv'
        BY <1>4, <2>1 DEF RestorePut, Usable, Capturing, Changing
    <2> QED
        BY <2>6, <2>7, <2>8
<1> QED
    BY <1>2, <1>3, <1>4

\* Commands starting, and what other actors do.
LEMMA OtherStepIInv ==
    ASSUME IInv,
           \/ \E v \in VCenter, dry \in BOOLEAN : StartApply(v, dry)
           \/ StartRestore
           \/ OutsideStep
    PROVE  IInv'
<1> USE DEF IInv, TypeOK, ControlInv, WriteAheadInv, locals, counts
<1>1. ASSUME NEW v \in VCenter, NEW dry \in BOOLEAN, StartApply(v, dry) PROVE IInv'
    <2>1. TypeOK'
        BY <1>1 DEF StartApply, Label, Command
    <2> QED
        BY <1>1, <2>1 DEF StartApply, Capturing, Restoring, Changing
<1>2. ASSUME StartRestore PROVE IInv'
    <2>1. TypeOK'
        BY <1>2 DEF StartRestore, Label, Command
    <2> QED
        BY <1>2, <2>1 DEF StartRestore, Capturing, Restoring, Changing
<1>3. ASSUME NEW t, t \in State, Edit(t) PROVE IInv'
    <2>1. stale' \in BOOLEAN
        BY <1>3, Zenon DEF Edit
    <2>2. edits' \in Nat
        BY <1>3 DEF Edit
    <2>3. TypeOK'
        BY <1>3, <2>1, <2>2 DEF Edit
    <2> QED
        BY <1>3, <2>3 DEF Edit, Capturing, Restoring, Changing
<1>4. ASSUME NEW v \in VCenter, OutsideAdd(v) PROVE IInv'
    <2> DEFINE t == [o \in Object |-> IF Named(o) THEN cluster[o] \cup {v} ELSE cluster[o]]
    <2>1. \A o \in Object : IF cluster[o] \in {Absent, Unparsable} THEN t[o] = cluster[o]
                           ELSE cluster[o] \in SUBSET VCenter => t[o] \in SUBSET VCenter
        BY DEF Named
    <2>2. t = [o \in Object |-> t[o]]
        OBVIOUS
    <2>3. t \in State
        BY <2>1, <2>2, EditKeepsState
    <2> QED
        BY <1>3, <1>4, <2>3 DEF OutsideAdd
<1>5. ASSUME NEW v \in VCenter, OutsideRemove(v) PROVE IInv'
    <2> DEFINE t == [o \in Object |-> IF Named(o) THEN cluster[o] \ {v} ELSE cluster[o]]
    <2>1. \A o \in Object : IF cluster[o] \in {Absent, Unparsable} THEN t[o] = cluster[o]
                           ELSE cluster[o] \in SUBSET VCenter => t[o] \in SUBSET VCenter
        BY DEF Named
    <2>2. t = [o \in Object |-> t[o]]
        OBVIOUS
    <2>3. t \in State
        BY <2>1, <2>2, EditKeepsState
    <2> QED
        BY <1>3, <1>5, <2>3 DEF OutsideRemove
<1>6. ASSUME ReconcileMachineCreds PROVE IInv'
    <2>1. MachineCreds \in Object /\ RootCreds \in BackupTargets
        BY DEF Object, BackupTargets
    <2>2. cluster[RootCreds] \in ContentOf(MachineCreds)
        BY <2>1, StateContents, DistinctObjects DEF ContentOf
    <2>3. cluster' \in State
        BY <1>6, <2>1, <2>2, WriteKeepsState DEF ReconcileMachineCreds
    <2>4. TypeOK'
        BY <1>6, <2>3 DEF ReconcileMachineCreds
    <2> QED
        BY <1>6, <2>4 DEF ReconcileMachineCreds, Capturing, Restoring, Changing
<1> QED
    BY <1>1, <1>2, <1>4, <1>5, <1>6 DEF OutsideStep

\* The steps that end a command.
LEMMA EndStepIInv ==
    ASSUME IInv,
           \/ RefuseApply \/ DryRunPatch \/ LoadStateFails \/ WaitReady \/ Conflict
           \/ Fail \/ SaveInterrupted
    PROVE  IInv'
<1>1. faults \in Nat /\ faults + 1 \in Nat
    BY DEF IInv, TypeOK
<1>2. ASSUME RefuseApply \/ LoadStateFails \/ Conflict PROVE IInv'
    BY <1>1, <1>2, ExitIInv DEF RefuseApply, LoadStateFails, Conflict, counts
<1>3. ASSUME DryRunPatch \/ WaitReady PROVE IInv'
    BY <1>1, <1>3, ExitIInv DEF DryRunPatch, WaitReady, counts
<1>4. ASSUME Fail \/ SaveInterrupted PROVE IInv'
    BY <1>1, <1>4, ExitIInv DEF Fail, SaveInterrupted
<1> QED
    BY <1>2, <1>3, <1>4

\* A stuttering step keeps IInv.
LEMMA StutterIInv == IInv /\ UNCHANGED vars => IInv'
BY DEF vars, locals, counts, IInv, TypeOK, ControlInv, WriteAheadInv

\* Every step of a command and of other actors keeps IInv.
LEMMA NextIInv == IInv /\ [Next]_vars => IInv'
<1> SUFFICES ASSUME IInv, Next PROVE IInv'
    BY StutterIInv
<1> QED
    BY CaptureStepIInv, ChangeStepIInv, RestoreStepIInv, OtherStepIInv, EndStepIInv
    DEF Next, CommandStep, ApplyStep, RestoreStep

-----------------------------------------------------------------------------
(***************************************************************************)
(* What follows                                                            *)
(***************************************************************************)
\* In every reachable state the variables are in their domains and agree
\* with the position of the command.
THEOREM InductiveInvariant == Spec => []IInv
BY InitIInv, NextIInv, PTL DEF Spec

\* Only an interrupted write leaves a state file that cannot be loaded.
LEMMA NextWhole ==
    ASSUME ~TornWrites
    PROVE  IInv /\ file # Torn /\ [Next]_vars => file' # Torn
<1> SUFFICES ASSUME IInv, file # Torn, [Next]_vars, file' # file PROVE file' # Torn
    OBVIOUS
<1>1. SaveState
    BY DEF Next, CommandStep, ApplyStep, RestoreStep, OutsideStep, locals, counts, vars,
           StartApply, StartRestore, GetInfra, RefuseApply, CaptureConfig, CaptureSecret,
           SaveInterrupted, GetConfig, PutConfig, GetSecret, PutSecret,
           PatchInfra, DryRunPatch, LoadState, LoadStateFails, RestoreGet, RestorePut,
           WaitReady, Conflict, Fail, OutsideAdd, OutsideRemove, Edit, ReconcileMachineCreds
<1>2. file' = draft /\ draft \in State
    BY <1>1 DEF SaveState, IInv, TypeOK, ControlInv, Capturing, State
<1> QED
    BY <1>2, Sentinels

\* "apply-lab saves backups before any change; restore-lab reverts them" (README.md:110):
\* no change of apply without a state file that can be loaded, for every interleaving with
\* other actors, every failure and every sequence of commands, as long as the write of
\* the file itself is not cut short.
THEOREM BackupPrecedesChange ==
    ASSUME ~TornWrites
    PROVE  Spec => []BackupBeforeChange
<1> DEFINE Whole == file # Torn
<1>1. Init => IInv /\ Whole
    BY InitIInv, Sentinels DEF Init
<1>2. IInv /\ Whole /\ [Next]_vars => IInv' /\ Whole'
    BY NextIInv, NextWhole
<1>3. IInv /\ Whole => BackupBeforeChange
    BY DEF IInv, WriteAheadInv, BackupBeforeChange, Usable
<1> HIDE DEF Whole
<1> QED
    BY <1>1, <1>2, <1>3, PTL DEF Spec

\* No step overwrites a state file or writes one while the cluster carries a
\* change of apply, so that the backup never records the changes it is for.
THEOREM BackupIsTakenOnce == Spec => BackupTakenOnce
<1>1. IInv /\ [Next]_vars => (file' # file => file = NoFile /\ cycle = NoCycle)
    <2> SUFFICES ASSUME IInv, Next, file' # file
                 PROVE  file = NoFile /\ cycle = NoCycle
        BY DEF vars
    <2>1. pc = "save_state"
        BY DEF Next, CommandStep, ApplyStep, RestoreStep, OutsideStep, locals, counts,
               StartApply, StartRestore, GetInfra, RefuseApply, CaptureConfig, CaptureSecret,
               SaveState, SaveInterrupted, GetConfig, PutConfig, GetSecret, PutSecret,
               PatchInfra, DryRunPatch, LoadState, LoadStateFails, RestoreGet, RestorePut,
               WaitReady, Conflict, Fail, OutsideAdd, OutsideRemove, Edit, ReconcileMachineCreds
    <2> QED
        BY <2>1 DEF IInv, WriteAheadInv, Capturing
<1> QED
    BY <1>1, InductiveInvariant, PTL DEF Spec, BackupTakenOnce

-----------------------------------------------------------------------------
(***************************************************************************)
(* What a command has achieved at each of its calls, as long as nobody     *)
(* else has written since it started.                                      *)
(***************************************************************************)
ReadingOrChanging == {"get_config", "put_config", "get_secret", "put_secret"}

\* The labels of apply, those of restore, and the result while one runs.
KindInv ==
    /\ pc \in {"get_infra"} \cup Capturing \cup ReadingOrChanging => cmd.kind = "apply"
    /\ pc \in {"load_state"} \cup Restoring => cmd.kind = "restore"
    /\ pc # "idle" => result = "none"

\* The backup being captured agrees with the cluster on what it holds so far.
CaptureInv ==
    /\ pc \in Capturing /\ quiet => draft[Infra] = cluster[Infra]
    /\ pc \in {"capture_secret", "save_state"} /\ quiet => draft[SourceConfig] = cluster[SourceConfig]
    /\ pc = "capture_secret" /\ quiet => \A o \in UpdateTargets \ todo : draft[o] = cluster[o]
    /\ pc = "save_state" /\ quiet => \A o \in UpdateTargets : draft[o] = cluster[o]

\* What apply has read is still true, and what it has treated names its vCenter.
Carries(S) == \A o \in S : cluster[o] # Absent => cmd.vc \in cluster[o]

ApplyInv ==
    /\ pc \in Capturing \cup ReadingOrChanging /\ quiet => seen = cluster[Infra]
    /\ pc \in {"put_config", "put_secret"} /\ quiet => read = cluster[target]
    /\ pc = "put_config" => todo = UpdateTargets
    /\ pc \in {"get_secret", "put_secret"} /\ ~cmd.dry => cycle # NoCycle
    /\ pc \in {"get_secret", "put_secret"} /\ ~cmd.dry /\ quiet =>
          Carries({SourceConfig} \cup (UpdateTargets \ todo))
    /\ pc = "wait_ready" /\ cmd.kind = "apply" /\ quiet => Carries(LabObject)
    /\ ApplyComplete

\* What restore has written back agrees with the backup.
Pending ==
    IF Infra \in todo THEN LabObject
    ELSE IF SourceConfig \in todo THEN LabObject \ {Infra} ELSE todo

PutBack(S) == \A o \in S : file[o] # Absent => cluster[o] = file[o]

RestoreInv ==
    /\ pc \in Restoring => todo \in {{Infra}, {SourceConfig}} \/ todo \subseteq UpdateTargets
    /\ pc \in Restoring /\ quiet => PutBack(LabObject \ Pending)
    /\ pc = "wait_ready" /\ cmd.kind = "restore" /\ quiet => PutBack(LabObject)
    /\ RestoreExact

ProgressInv == KindInv /\ CaptureInv /\ ApplyInv /\ RestoreInv

\* Without concurrent actors nobody writes while a command runs.
AloneInv == pc # "idle" => quiet

\* No more than three vCenters in what apply read, in the backup or the cluster.
LimitInv ==
    /\ VCenterLimit
    /\ pc \in Capturing \cup ReadingOrChanging => Cardinality(seen) < MaxVCenters
    /\ pc \in Capturing => Cardinality(draft[Infra]) <= MaxVCenters
    /\ Usable(file) => Cardinality(file[Infra]) <= MaxVCenters

\* The cluster, and the backup, also cover the Infrastructure of the backup.
CoverInv ==
    /\ \A o \in LabObject : Covers(cluster[o], cluster[Infra])
    /\ Usable(file) => \A o \in LabObject : Covers(cluster[o], file[Infra]) /\ Covers(file[o], file[Infra])

\* Without other actors the cluster leaves the backup only while a cycle is open.
MatchInv ==
    /\ file # Torn
    /\ BackupMatchesCycle
    /\ Usable(file) => \A o \in LabObject : file[o] = Absent <=> cluster[o] = Absent
    /\ Usable(file) /\ cycle = NoCycle => \A o \in LabObject : cluster[o] = file[o]

\* A write changes the object that is written and no other.
LEMMA WriteContents ==
    ASSUME NEW s \in State, NEW o \in Object, NEW c
    PROVE  /\ [s EXCEPT ![o] = c][o] = c
           /\ \A p \in Object \ {o} : [s EXCEPT ![o] = c][p] = s[p]
BY DEF State, Snapshot

\* What apply and restore write: the Infrastructure, the config and the secrets of apply.
LEMMA LabObjects ==
    /\ LabObject = {Infra, SourceConfig} \cup UpdateTargets
    /\ Infra \notin UpdateTargets /\ SourceConfig \notin UpdateTargets
    /\ LabObject \subseteq Object /\ UpdateTargets \subseteq BackupTargets
    /\ MachineCreds \in Object \ LabObject
BY DistinctObjects DEF LabObject, Object, UpdateTargets, BackupTargets

\* At the start there is no command.
LEMMA InitProgress == Init => ProgressInv
BY DEF Init, ProgressInv, KindInv, CaptureInv, ApplyInv, RestoreInv, ApplyComplete, RestoreExact,
       Capturing, ReadingOrChanging, Restoring

\* A command that ends keeps what it has achieved.
LEMMA ExitProgress ==
    ASSUME ProgressInv, NEW r, Exit(r), UNCHANGED <<cluster, cmd, quiet>>,
           r # "ok" \/ (UNCHANGED file /\ pc = "wait_ready") \/ (cmd.kind = "apply" /\ cmd.dry)
    PROVE  ProgressInv'
<1>1. pc' = "idle" /\ result' = r
    BY DEF Exit
<1>2. ApplyComplete'
    BY <1>1 DEF ProgressInv, ApplyInv, ApplyComplete, Carries
<1>3. RestoreExact'
    BY <1>1 DEF ProgressInv, RestoreInv, RestoreExact, PutBack
<1> QED
    BY <1>1, <1>2, <1>3 DEF ProgressInv, KindInv, CaptureInv, ApplyInv, RestoreInv, Capturing,
                            ReadingOrChanging, Restoring

\* The ways a command ends.
LEMMA EndProgress ==
    ASSUME IInv, ProgressInv,
           \/ RefuseApply \/ DryRunPatch \/ LoadStateFails \/ WaitReady \/ Conflict
           \/ Fail \/ SaveInterrupted
    PROVE  ProgressInv'
<1>1. ASSUME RefuseApply \/ LoadStateFails \/ Conflict \/ Fail \/ SaveInterrupted PROVE ProgressInv'
    BY <1>1, ExitProgress DEF RefuseApply, LoadStateFails, Conflict, Fail, SaveInterrupted
<1>2. ASSUME DryRunPatch PROVE ProgressInv'
    BY <1>2, ExitProgress DEF DryRunPatch, ProgressInv, KindInv, ReadingOrChanging
<1>3. ASSUME WaitReady PROVE ProgressInv'
    BY <1>3, ExitProgress DEF WaitReady
<1> QED
    BY <1>1, <1>2, <1>3

\* The start of a command, and the steps of others, which end the quiet.
LEMMA OtherProgress ==
    ASSUME IInv, ProgressInv,
           \/ \E v \in VCenter, dry \in BOOLEAN : StartApply(v, dry)
           \/ StartRestore
           \/ OutsideStep
    PROVE  ProgressInv'
<1> USE DEF ProgressInv, KindInv, CaptureInv, ApplyInv, RestoreInv, Capturing, ReadingOrChanging, Restoring
<1>1. ASSUME NEW v \in VCenter, NEW dry \in BOOLEAN, StartApply(v, dry) PROVE ProgressInv'
    BY <1>1 DEF StartApply, ApplyComplete, RestoreExact
<1>2. ASSUME StartRestore PROVE ProgressInv'
    <2>1. cmd'.kind = "restore" /\ pc' = "load_state" /\ result' = "none"
        BY <1>2 DEF StartRestore, IInv, TypeOK, Command
    <2> QED
        BY <2>1 DEF ApplyComplete, RestoreExact
<1>3. ASSUME NEW t, Edit(t) PROVE ProgressInv'
    BY <1>3 DEF Edit, ApplyComplete, RestoreExact
<1>4. ASSUME ReconcileMachineCreds PROVE ProgressInv'
    <2>1. \A o \in LabObject : cluster'[o] = cluster[o]
        BY <1>4, WriteContents, LabObjects DEF ReconcileMachineCreds, IInv, TypeOK
    <2>2. /\ target \in LabObject
          /\ UNCHANGED <<file, pc, cmd, result, seen, draft, todo, target, read, cycle, quiet>>
        BY <1>4 DEF ReconcileMachineCreds, locals, IInv, TypeOK
    <2>3. ApplyInv'
        BY <2>1, <2>2, LabObjects DEF Carries, ApplyComplete
    <2>4. RestoreInv'
        BY <2>1, <2>2, LabObjects DEF Pending, PutBack, RestoreExact
    <2> QED
        BY <2>1, <2>2, <2>3, <2>4, LabObjects
<1> QED
    BY <1>1, <1>2, <1>3, <1>4 DEF OutsideStep, OutsideAdd, OutsideRemove

\* The calls of captureState and SaveState.
LEMMA CaptureProgress ==
    ASSUME IInv, ProgressInv, GetInfra \/ CaptureConfig \/ CaptureSecret \/ SaveState
    PROVE  ProgressInv'
<1> USE DEF ProgressInv, KindInv, CaptureInv, ApplyInv, RestoreInv, Capturing, ReadingOrChanging, Restoring, Goto
<1>1. cluster \in State /\ draft \in Snapshot /\ draft \in [Object -> Content]
    BY DEF IInv, TypeOK, Snapshot
<1>2. Infra \in Object /\ SourceConfig \in Object
    BY DEF Object
<1>3. ASSUME GetInfra PROVE ProgressInv'
    <2>1. [Empty EXCEPT ![Infra] = cluster[Infra]][Infra] = cluster[Infra]
        BY <1>2 DEF Empty
    <2> QED
        BY <1>3, <2>1 DEF GetInfra, ApplyComplete, RestoreExact
<1>4. ASSUME CaptureConfig PROVE ProgressInv'
    <2>1. /\ draft'[SourceConfig] = cluster[SourceConfig] /\ draft'[Infra] = draft[Infra]
        BY <1>1, <1>2, <1>4, DistinctObjects DEF CaptureConfig
    <2> QED
        BY <1>4, <2>1, LabObjects DEF CaptureConfig, ApplyComplete, RestoreExact
<1>5. ASSUME CaptureSecret PROVE ProgressInv'
    <2>1. First(todo) \in BackupTargets
        BY <1>5, FirstIsTarget DEF CaptureSecret, IInv, TypeOK, ControlInv
    <2>2. First(todo) \in Object /\ First(todo) # Infra /\ First(todo) # SourceConfig
        BY <2>1, DistinctObjects DEF BackupTargets, Object
    <2>3. /\ draft'[First(todo)] = cluster[First(todo)]
          /\ \A o \in Object \ {First(todo)} : draft'[o] = draft[o]
        BY <1>1, <1>5, <2>2 DEF CaptureSecret
    <2>4. quiet => \A o \in UpdateTargets \ todo' : draft'[o] = cluster[o]
        BY <1>5, <2>3, LabObjects DEF CaptureSecret
    <2> QED
        BY <1>2, <1>5, <2>2, <2>3, <2>4 DEF CaptureSecret, ApplyComplete, RestoreExact
<1>6. ASSUME SaveState PROVE ProgressInv'
    BY <1>6 DEF SaveState, ApplyComplete, RestoreExact
<1> QED
    BY <1>3, <1>4, <1>5, <1>6

\* The calls of updateCredentials and the patch of the Infrastructure.
LEMMA ChangeProgress ==
    ASSUME IInv, ProgressInv, GetConfig \/ PutConfig \/ GetSecret \/ PutSecret \/ PatchInfra
    PROVE  ProgressInv'
<1> USE DEF ProgressInv, KindInv, CaptureInv, ApplyInv, RestoreInv, Capturing, ReadingOrChanging, Restoring, Goto
<1>1. cluster \in State /\ cmd \in Command /\ todo \subseteq Object
    BY LabObjects DEF IInv, TypeOK, BackupTargets, Object
<1>2. ASSUME GetConfig PROVE ProgressInv'
    BY <1>2 DEF GetConfig, ReadForUpdate, Carries, ApplyComplete, RestoreExact
<1>3. ASSUME PutConfig PROVE ProgressInv'
    <2>1. /\ cluster'[SourceConfig] = MergedConfig
          /\ \A o \in Object \ {SourceConfig} : cluster'[o] = cluster[o]
        BY <1>1, <1>3, WriteContents, LabObjects DEF PutConfig, Write
    <2>2. cmd.vc \in MergedConfig
        BY DEF MergedConfig
    <2>3. cycle' # NoCycle
        BY <1>1, <1>3, Sentinels DEF PutConfig, OpenCycle
    <2>4. cluster'[Infra] = cluster[Infra]
        BY <2>1, LabObjects, DistinctObjects
    <2> QED
        BY <1>3, <2>1, <2>2, <2>3, <2>4 DEF PutConfig, locals, Carries, ApplyComplete, RestoreExact
<1>4. ASSUME GetSecret PROVE ProgressInv'
    BY <1>4 DEF GetSecret, ReadForUpdate, Carries, ApplyComplete, RestoreExact
<1>5. ASSUME PutSecret PROVE ProgressInv'
    <2>1. First(todo) \in UpdateTargets
        BY <1>5, FirstIsTarget, LabObjects DEF PutSecret, IInv, ControlInv
    <2>2. /\ cluster'[First(todo)] = MergedSecret
          /\ \A o \in Object \ {First(todo)} : cluster'[o] = cluster[o]
        BY <1>1, <1>5, <2>1, WriteContents, LabObjects DEF PutSecret, Write
    <2>3. cmd.vc \in MergedSecret
        BY DEF MergedSecret
    <2>4. cluster'[Infra] = cluster[Infra] /\ cluster'[SourceConfig] = cluster[SourceConfig]
        BY <2>1, <2>2, LabObjects
    <2>5. ~cmd.dry /\ quiet => \A o \in UpdateTargets \ todo' : cluster'[o] # Absent => cmd.vc \in cluster'[o]
        BY <1>5, <2>1, <2>2, <2>3, LabObjects DEF PutSecret, Carries
    <2>6. ~cmd.dry /\ quiet => (cluster'[SourceConfig] # Absent => cmd.vc \in cluster'[SourceConfig])
        BY <1>5, <2>4 DEF PutSecret, Carries
    <2>7. /\ pc = "put_secret" /\ pc' = "get_secret" /\ UNCHANGED <<cmd, quiet, seen, cycle, result>>
        BY <1>5 DEF PutSecret
    <2> QED
        BY <2>4, <2>5, <2>6, <2>7 DEF Carries, ApplyComplete, RestoreExact
<1>6. ASSUME PatchInfra PROVE ProgressInv'
    <2>1. /\ cluster'[Infra] = PatchedSpec
          /\ \A o \in Object \ {Infra} : cluster'[o] = cluster[o]
        BY <1>1, <1>6, WriteContents, LabObjects DEF PatchInfra
    <2>2. cmd.vc \in PatchedSpec
        BY DEF PatchedSpec
    <2>3. quiet => \A o \in LabObject : cluster'[o] # Absent => cmd.vc \in cluster'[o]
        BY <1>6, <2>1, <2>2, LabObjects DEF PatchInfra, Carries
    <2>4. pc = "get_secret" /\ pc' = "wait_ready" /\ UNCHANGED <<cmd, quiet, result>>
        BY <1>6 DEF PatchInfra
    <2> QED
        BY <2>3, <2>4 DEF Carries, ApplyComplete, RestoreExact
<1> QED
    BY <1>2, <1>3, <1>4, <1>5, <1>6

\* The calls of restore.
LEMMA RestoreProgress ==
    ASSUME IInv, ProgressInv, LoadState \/ \E o \in LabObject : RestoreGet(o) \/ RestorePut(o)
    PROVE  ProgressInv'
<1> USE DEF ProgressInv, KindInv, CaptureInv, ApplyInv, RestoreInv, Capturing, ReadingOrChanging, Restoring, Goto
<1>1. ASSUME LoadState PROVE ProgressInv'
    BY <1>1 DEF LoadState, Pending, PutBack, ApplyComplete, RestoreExact
<1>2. ASSUME NEW o \in LabObject, RestoreGet(o) PROVE ProgressInv'
    BY <1>2 DEF RestoreGet, Pending, PutBack, ApplyComplete, RestoreExact
<1>3. ASSUME NEW o \in LabObject, RestorePut(o) PROVE ProgressInv'
    <2>1. /\ pc = "restore_put" /\ o \in todo /\ draft = file
          /\ pc' \in {"restore_get", "wait_ready"} /\ (pc' = "wait_ready" => todo' = {})
          /\ UNCHANGED <<file, cmd, quiet, result>>
        BY <1>3 DEF RestorePut, Write, IInv, ControlInv
    <2>2. /\ cluster'[o] = file[o]
          /\ \A p \in Object \ {o} : cluster'[p] = cluster[p]
        BY <1>3, <2>1, WriteContents, LabObjects DEF RestorePut, Write, IInv, TypeOK
    <2>3. todo' = AfterRestoring(o)
        BY <1>3 DEF RestorePut
    <2>4. CASE todo = {Infra}
        <3>1. o = Infra /\ todo' = {SourceConfig}
            BY <2>1, <2>3, <2>4 DEF AfterRestoring, NextStage
        <3>2. quiet => PutBack(LabObject \ Pending)'
            BY <2>1, <2>2, <3>1, DistinctObjects DEF Pending, PutBack
        <3> QED
            BY <2>1, <3>1, <3>2 DEF ApplyComplete, RestoreExact
    <2>5. CASE todo = {SourceConfig}
        <3>1. o = SourceConfig /\ todo' = {s \in UpdateTargets : file[s] # Absent}
            BY <2>1, <2>3, <2>5, DistinctObjects DEF AfterRestoring, NextStage
        <3>2. quiet => cluster[Infra] = file[Infra] \/ file[Infra] = Absent
            BY <2>1, <2>5, DistinctObjects, LabObjects DEF Pending, PutBack
        <3>3. quiet => \A p \in LabObject \ todo' : file[p] # Absent => cluster'[p] = file[p]
            BY <2>1, <2>2, <3>1, <3>2, LabObjects DEF PutBack
        <3>4. Pending' = todo'
            BY <3>1, LabObjects DEF Pending
        <3>5. quiet => PutBack(LabObject \ Pending)'
            BY <2>1, <3>3, <3>4 DEF PutBack
        <3>6. todo' = {} /\ quiet => PutBack(LabObject)'
            BY <2>1, <3>3 DEF PutBack
        <3> QED
            BY <2>1, <3>1, <3>5, <3>6 DEF ApplyComplete, RestoreExact
    <2>6. CASE todo \subseteq UpdateTargets
        <3>1. todo' = todo \ {o}
            BY <2>1, <2>3, <2>6, LabObjects DEF AfterRestoring, NextStage
        <3>2. Pending = todo /\ Pending' = todo'
            BY <2>6, <3>1, LabObjects DEF Pending
        <3>3. quiet => PutBack(LabObject \ todo)
            BY <2>1, <3>2
        <3>4. quiet => \A p \in LabObject \ todo' : file[p] # Absent => cluster'[p] = file[p]
            BY <2>1, <2>2, <3>1, <3>3, LabObjects DEF PutBack
        <3>5. quiet => PutBack(LabObject \ Pending)'
            BY <2>1, <3>2, <3>4 DEF PutBack
        <3>6. todo' = {} /\ quiet => PutBack(LabObject)'
            BY <2>1, <3>4 DEF PutBack
        <3> QED
            BY <2>1, <2>6, <3>1, <3>5, <3>6 DEF ApplyComplete, RestoreExact
    <2> QED
        BY <2>1, <2>4, <2>5, <2>6
<1> QED
    BY <1>1, <1>2, <1>3

\* A stuttering step keeps ProgressInv.
LEMMA StutterProgress == ProgressInv /\ UNCHANGED vars => ProgressInv'
BY DEF vars, locals, counts, ProgressInv, KindInv, CaptureInv, ApplyInv, RestoreInv, Carries, PutBack,
       Pending, ApplyComplete, RestoreExact

\* Every step of a command and of other actors keeps ProgressInv.
LEMMA NextProgress == IInv /\ ProgressInv /\ [Next]_vars => ProgressInv'
BY EndProgress, OtherProgress, CaptureProgress, ChangeProgress, RestoreProgress, StutterProgress
DEF Next, CommandStep, ApplyStep, RestoreStep

\* In every reachable state of any instance a command has achieved what its position says.
THEOREM CommandProgress == Spec => [](IInv /\ ProgressInv)
BY NextProgress, InitProgress, InitIInv, NextIInv, PTL DEF Spec

\* An undisturbed apply that reports success has added its vCenter everywhere.
THEOREM ApplyIsComplete == Spec => []ApplyComplete
<1>1. ProgressInv => ApplyComplete
    BY DEF ProgressInv, ApplyInv
<1> QED
    BY <1>1, CommandProgress, PTL

\* An undisturbed restore that reports success has put the backup back.
THEOREM RestoreIsExact == Spec => []RestoreExact
<1>1. ProgressInv => RestoreExact
    BY DEF ProgressInv, RestoreInv
<1> QED
    BY <1>1, CommandProgress, PTL

-----------------------------------------------------------------------------
(***************************************************************************)
(* The limit of three vCenters                                             *)
(***************************************************************************)
LEMMA AddWithinLimit ==
    ASSUME NEW S \in SUBSET VCenter, NEW v, Cardinality(S) < MaxVCenters
    PROVE  Cardinality(S \cup {v}) <= MaxVCenters
<1>1. IsFiniteSet(S)
    BY FS_Subset, BoundAssumption
<1>2. Cardinality(S) \in Nat
    BY <1>1, FS_CardinalityType
<1>3. Cardinality(S \cup {v}) \in {Cardinality(S), Cardinality(S) + 1}
    BY <1>1, FS_AddElement
<1> QED
    BY <1>2, <1>3 DEF MaxVCenters

\* Who takes vCenters away stays within the limit.
LEMMA SubsetWithinLimit ==
    ASSUME NEW S \in SUBSET VCenter, NEW T \in SUBSET S, Cardinality(S) <= MaxVCenters
    PROVE  Cardinality(T) <= MaxVCenters
<1>1. IsFiniteSet(S)
    BY FS_Subset, BoundAssumption
<1>2. IsFiniteSet(T) /\ Cardinality(T) <= Cardinality(S)
    BY <1>1, FS_Subset
<1> QED
    BY <1>1, <1>2, FS_CardinalityType DEF MaxVCenters

\* The cluster starts within the limit.
LEMMA InitLimit == Init => LimitInv
<1> SUFFICES ASSUME Init PROVE LimitInv
    OBVIOUS
<1>1. PICK vcs \in SUBSET VCenter, config \in {"valid", "unparsable"}, cloud \in {"present", "absent"} :
          /\ Cardinality(vcs) <= MaxVCenters
          /\ cluster = [o \in Object |->
                IF o = SourceConfig /\ config = "unparsable" THEN Unparsable
                ELSE IF o = CloudCreds /\ cloud = "absent" THEN Absent ELSE vcs]
    BY DEF Init
<1>2. cluster[Infra] = vcs
    BY <1>1, DistinctObjects DEF Object
<1> QED
    BY <1>1, <1>2 DEF Init, LimitInv, VCenterLimit, Usable, Capturing, ReadingOrChanging

\* No step goes beyond the limit, and none reads or saves more than it.
LEMMA NextLimit == IInv /\ LimitInv /\ [Next]_vars => LimitInv'
<1> SUFFICES ASSUME IInv, LimitInv, [Next]_vars PROVE LimitInv'
    OBVIOUS
<1> USE DEF LimitInv, VCenterLimit, Capturing, ReadingOrChanging, Goto, locals, counts
<1>1. /\ cluster \in State /\ cluster[Infra] \in SUBSET VCenter
      /\ draft \in [Object -> Content] /\ seen \in SUBSET VCenter
      /\ Infra \in Object /\ SourceConfig \in Object
    BY StateContents DEF IInv, TypeOK, Snapshot, Object
<1>2. ASSUME NEW o \in Object \ {Infra}, NEW c, cluster' = [cluster EXCEPT ![o] = c]
      PROVE  cluster'[Infra] = cluster[Infra]
    BY <1>1, <1>2
<1>3. ASSUME GetInfra PROVE LimitInv'
    <2>1. [Empty EXCEPT ![Infra] = cluster[Infra]][Infra] = cluster[Infra]
        BY <1>1 DEF Empty
    <2> QED
        BY <1>3, <2>1 DEF GetInfra, MayAdd
<1>4. ASSUME CaptureConfig PROVE LimitInv'
    <2>1. draft'[Infra] = draft[Infra]
        BY <1>1, <1>4, DistinctObjects DEF CaptureConfig
    <2> QED
        BY <1>4, <2>1 DEF CaptureConfig
<1>5. ASSUME CaptureSecret PROVE LimitInv'
    <2>1. First(todo) # Infra
        BY DistinctObjects DEF First
    <2>2. draft'[Infra] = draft[Infra]
        BY <1>1, <1>5, <2>1 DEF CaptureSecret
    <2> QED
        BY <1>5, <2>2 DEF CaptureSecret
<1>6. ASSUME SaveState PROVE LimitInv'
    BY <1>6 DEF SaveState
<1>7. ASSUME GetConfig \/ GetSecret PROVE LimitInv'
    BY <1>7 DEF GetConfig, GetSecret
<1>8. ASSUME PutConfig PROVE LimitInv'
    <2>1. cluster'[Infra] = cluster[Infra]
        BY <1>1, <1>2, <1>8, DistinctObjects DEF PutConfig, Write
    <2> QED
        BY <1>8, <2>1 DEF PutConfig
<1>9. ASSUME PutSecret PROVE LimitInv'
    <2>1. First(todo) \in Object \ {Infra}
        BY DistinctObjects DEF First, Object
    <2>2. cluster'[Infra] = cluster[Infra]
        BY <1>2, <1>9, <2>1 DEF PutSecret, Write
    <2> QED
        BY <1>9, <2>2 DEF PutSecret
<1>10. ASSUME PatchInfra PROVE LimitInv'
    <2>1. cluster'[Infra] = seen \cup {cmd.vc}
        BY <1>1, <1>10, WriteContents DEF PatchInfra, PatchedSpec
    <2>2. Cardinality(seen \cup {cmd.vc}) <= MaxVCenters
        BY <1>1, <1>10, AddWithinLimit DEF PatchInfra
    <2> QED
        BY <1>10, <2>1, <2>2 DEF PatchInfra
<1>11. ASSUME LoadState \/ \E o \in LabObject : RestoreGet(o) PROVE LimitInv'
    BY <1>11 DEF LoadState, RestoreGet
<1>12. ASSUME NEW o \in LabObject, RestorePut(o) PROVE LimitInv'
    <2>1. Usable(file) /\ draft = file /\ cluster' = [cluster EXCEPT ![o] = file[o]]
        BY <1>12 DEF RestorePut, Write, IInv, ControlInv, Restoring
    <2>2. cluster'[Infra] \in {cluster[Infra], file[Infra]}
        BY <1>1, <2>1, LabObjects, WriteContents
    <2>3. Cardinality(cluster'[Infra]) <= MaxVCenters
        BY <2>1, <2>2
    <2> QED
        BY <1>12, <2>1, <2>3 DEF RestorePut
<1>13. ASSUME NEW v \in VCenter, OutsideAdd(v) PROVE LimitInv'
    <2>1. cluster'[Infra] \in {cluster[Infra], cluster[Infra] \cup {v}}
        BY <1>1, <1>13 DEF OutsideAdd, Edit
    <2>2. Cardinality(cluster'[Infra]) <= MaxVCenters
        BY <1>1, <1>13, <2>1, AddWithinLimit DEF OutsideAdd, MayAdd
    <2> QED
        BY <1>13, <2>2 DEF OutsideAdd, Edit
<1>14. ASSUME NEW v \in VCenter, OutsideRemove(v) PROVE LimitInv'
    <2>1. cluster'[Infra] \in SUBSET cluster[Infra]
        BY <1>1, <1>14 DEF OutsideRemove, Edit
    <2>2. Cardinality(cluster'[Infra]) <= MaxVCenters
        BY <1>1, <2>1, SubsetWithinLimit
    <2> QED
        BY <1>14, <2>2 DEF OutsideRemove, Edit
<1>15. ASSUME ReconcileMachineCreds PROVE LimitInv'
    <2>1. cluster'[Infra] = cluster[Infra]
        BY <1>2, <1>15, DistinctObjects DEF ReconcileMachineCreds, Object
    <2> QED
        BY <1>15, <2>1 DEF ReconcileMachineCreds
<1>16. ASSUME NEW r, Exit(r), UNCHANGED cluster, file' \in {file, Torn} PROVE LimitInv'
    BY <1>16 DEF Exit, Usable
<1>17. ASSUME \/ RefuseApply \/ DryRunPatch \/ LoadStateFails \/ WaitReady \/ Conflict
              \/ Fail \/ SaveInterrupted
       PROVE  LimitInv'
    BY <1>16, <1>17 DEF RefuseApply, DryRunPatch, LoadStateFails, WaitReady, Conflict, Fail, SaveInterrupted
<1>18. ASSUME StartRestore \/ \E v \in VCenter, dry \in BOOLEAN : StartApply(v, dry) PROVE LimitInv'
    BY <1>18 DEF StartRestore, StartApply
<1>19. ASSUME UNCHANGED vars PROVE LimitInv'
    BY <1>19 DEF vars
<1> QED
    BY <1>3, <1>4, <1>5, <1>6, <1>7, <1>8, <1>9, <1>10, <1>11, <1>12, <1>13, <1>14, <1>15, <1>17, <1>18, <1>19
    DEF Next, CommandStep, ApplyStep, RestoreStep, OutsideStep

\* No interleaving of applies, restores and other actors, and no failure, takes the
\* Infrastructure beyond OpenShift's three vCenters, although apply checks the limit
\* against the Infrastructure it read at its start.
THEOREM LimitHolds == Spec => []VCenterLimit
<1>1. LimitInv => VCenterLimit
    BY DEF LimitInv
<1> QED
    BY <1>1, InitIInv, NextIInv, InitLimit, NextLimit, PTL DEF Spec

-----------------------------------------------------------------------------
(***************************************************************************)
(* Commands that run while nobody else writes: what becomes of a cluster   *)
(* that applies and restores have failed on at any call.                   *)
(***************************************************************************)
LEMMA NextAlone ==
    ASSUME "concurrent" \notin Outside
    PROVE  AloneInv /\ [Next]_vars => AloneInv'
<1> SUFFICES ASSUME AloneInv, [Next]_vars PROVE AloneInv'
    OBVIOUS
<1> USE DEF AloneInv, Goto, locals, counts
<1>1. ASSUME NEW r, Exit(r) PROVE AloneInv'
    BY <1>1 DEF Exit
<1>2. ASSUME \/ RefuseApply \/ DryRunPatch \/ LoadStateFails \/ WaitReady \/ Conflict
             \/ Fail \/ SaveInterrupted
      PROVE  AloneInv'
    BY <1>1, <1>2 DEF RefuseApply, DryRunPatch, LoadStateFails, WaitReady, Conflict, Fail, SaveInterrupted
<1>3. ASSUME GetInfra \/ CaptureConfig \/ CaptureSecret \/ SaveState PROVE AloneInv'
    BY <1>3 DEF GetInfra, CaptureConfig, CaptureSecret, SaveState
<1>4. ASSUME GetConfig \/ PutConfig \/ GetSecret \/ PutSecret \/ PatchInfra PROVE AloneInv'
    BY <1>4 DEF GetConfig, PutConfig, GetSecret, PutSecret, PatchInfra
<1>5. ASSUME LoadState \/ \E o \in LabObject : RestoreGet(o) \/ RestorePut(o) PROVE AloneInv'
    BY <1>5 DEF LoadState, RestoreGet, RestorePut
<1>6. ASSUME StartRestore \/ \E v \in VCenter, dry \in BOOLEAN : StartApply(v, dry) PROVE AloneInv'
    BY <1>6 DEF StartRestore, StartApply
<1>7. ASSUME OutsideStep PROVE AloneInv'
    BY <1>7 DEF OutsideStep, OutsideAdd, OutsideRemove, MayEdit, Edit, ReconcileMachineCreds
<1> QED
    BY <1>2, <1>3, <1>4, <1>5, <1>6, <1>7 DEF Next, CommandStep, ApplyStep, RestoreStep, vars

\* The invariants of commands that run alone hold of the initial states and are kept.
LEMMA InitAlone == Init => AloneInv
BY DEF Init, AloneInv

\* The complete draft is the cluster, on what apply and restore write.
LEMMA DraftIsCluster ==
    ASSUME ProgressInv, AloneInv, pc = "save_state"
    PROVE  \A o \in LabObject : draft[o] = cluster[o]
BY LabObjects DEF ProgressInv, CaptureInv, AloneInv, Capturing

\* What apply writes in the config, and in a secret, is what it holds and the vCenter.
LEMMA ConfigWritten ==
    ASSUME IInv, ProgressInv, AloneInv, PutConfig
    PROVE  /\ cluster'[SourceConfig] =
                 (IF cluster[SourceConfig] = Unparsable THEN cluster[Infra] ELSE cluster[SourceConfig]) \cup {cmd.vc}
           /\ cluster' = [cluster EXCEPT ![SourceConfig] = cluster'[SourceConfig]]
           /\ \A p \in Object \ {SourceConfig} : cluster'[p] = cluster[p]
<1>1. pc = "put_config" /\ cluster' = [cluster EXCEPT ![SourceConfig] = MergedConfig]
    BY DEF PutConfig, Write
<1>2. target = SourceConfig /\ read = cluster[SourceConfig] /\ seen = cluster[Infra]
    BY <1>1 DEF IInv, ControlInv, ProgressInv, ApplyInv, AloneInv, ReadingOrChanging
<1>3. cluster \in State /\ SourceConfig \in Object
    BY DEF IInv, TypeOK, Object
<1>4. cluster'[SourceConfig] = MergedConfig /\ \A p \in Object \ {SourceConfig} : cluster'[p] = cluster[p]
    BY <1>1, <1>3, WriteContents
<1> QED
    BY <1>1, <1>2, <1>4 DEF MergedConfig

\* What apply writes in a secret is what it holds and the vCenter.
LEMMA SecretWritten ==
    ASSUME IInv, ProgressInv, AloneInv, PutSecret
    PROVE  /\ First(todo) \in UpdateTargets
           /\ cluster[First(todo)] \in SUBSET VCenter
           /\ cluster'[First(todo)] = cluster[First(todo)] \cup {cmd.vc}
           /\ cluster' = [cluster EXCEPT ![First(todo)] = cluster'[First(todo)]]
           /\ \A p \in Object \ {First(todo)} : cluster'[p] = cluster[p]
<1>1. pc = "put_secret" /\ cluster' = [cluster EXCEPT ![First(todo)] = MergedSecret]
    BY DEF PutSecret, Write
<1>2. target = First(todo) /\ read = cluster[First(todo)] /\ read \in SUBSET VCenter
    BY <1>1 DEF IInv, ControlInv, ProgressInv, ApplyInv, AloneInv
<1>3. First(todo) \in UpdateTargets
    BY <1>1, FirstIsTarget, LabObjects DEF IInv, ControlInv
<1>4. cluster \in State /\ First(todo) \in Object
    BY <1>3, LabObjects DEF IInv, TypeOK
<1>5. cluster'[First(todo)] = MergedSecret /\ \A p \in Object \ {First(todo)} : cluster'[p] = cluster[p]
    BY <1>1, <1>4, WriteContents
<1> QED
    BY <1>1, <1>2, <1>3, <1>5 DEF MergedSecret

\* Step 3 of apply: the vCenter is in every object that can name it by then.
LEMMA InfraWritten ==
    ASSUME IInv, ProgressInv, AloneInv, PatchInfra
    PROVE  /\ cluster'[Infra] = cluster[Infra] \cup {cmd.vc}
           /\ cluster' = [cluster EXCEPT ![Infra] = cluster'[Infra]]
           /\ \A p \in Object \ {Infra} : cluster'[p] = cluster[p]
           /\ \A p \in LabObject \ {Infra} : cluster[p] # Absent => cmd.vc \in cluster[p]
<1>1. pc = "get_secret" /\ todo = {} /\ ~cmd.dry /\ cluster' = [cluster EXCEPT ![Infra] = PatchedSpec]
    BY DEF PatchInfra
<1>2. seen = cluster[Infra] /\ Carries({SourceConfig} \cup UpdateTargets)
    BY <1>1 DEF ProgressInv, ApplyInv, AloneInv, ReadingOrChanging
<1>3. cluster \in State /\ Infra \in Object
    BY DEF IInv, TypeOK, Object
<1>4. cluster'[Infra] = PatchedSpec /\ \A p \in Object \ {Infra} : cluster'[p] = cluster[p]
    BY <1>1, <1>3, WriteContents
<1>5. \A p \in LabObject \ {Infra} : cluster[p] # Absent => cmd.vc \in cluster[p]
    BY <1>2, LabObjects DEF Carries
<1> QED
    BY <1>1, <1>2, <1>4, <1>5 DEF PatchedSpec

\* Restore writes an object of the backup as the backup has it, the Infrastructure first.
LEMMA BackupWritten ==
    ASSUME IInv, ProgressInv, AloneInv, NEW o \in LabObject, RestorePut(o)
    PROVE  /\ Usable(file) /\ file[o] # Absent
           /\ cluster'[o] = file[o]
           /\ cluster' = [cluster EXCEPT ![o] = file[o]]
           /\ \A p \in Object \ {o} : cluster'[p] = cluster[p]
           /\ o # Infra => cluster[Infra] = file[Infra]
<1>1. /\ pc = "restore_put" /\ o \in todo /\ draft = file /\ Usable(file)
      /\ cluster' = [cluster EXCEPT ![o] = file[o]]
      /\ file[o] # Absent
    BY DEF RestorePut, Write, IInv, ControlInv, Restoring
<1>2. cluster \in State /\ o \in Object /\ file \in State
    BY <1>1, LabObjects DEF IInv, TypeOK, Usable
<1>3. cluster'[o] = file[o] /\ \A p \in Object \ {o} : cluster'[p] = cluster[p]
    BY <1>1, <1>2, WriteContents
<1>4. ASSUME o # Infra PROVE cluster[Infra] = file[Infra]
    <2>1. Infra \notin todo
        BY <1>1, <1>4, LabObjects DEF ProgressInv, RestoreInv, Restoring
    <2>2. Infra \in LabObject \ Pending
        BY <2>1, LabObjects DEF Pending
    <2>3. PutBack(LabObject \ Pending)
        BY <1>1 DEF ProgressInv, RestoreInv, Restoring, AloneInv
    <2>4. file[Infra] # Absent
        BY <1>2 DEF State
    <2> QED
        BY <2>2, <2>3, <2>4 DEF PutBack
<1> QED
    BY <1>1, <1>3, <1>4

\* The steps that change the objects apply and restore write, the state file or the cycle.
LEMMA StepKinds ==
    ASSUME IInv, [Next]_vars
    PROVE  \/ SaveState \/ SaveInterrupted \/ PutConfig \/ PutSecret \/ PatchInfra
           \/ \E o \in LabObject : RestorePut(o)
           \/ \E v \in VCenter : OutsideAdd(v) \/ OutsideRemove(v)
           \/ UNCHANGED <<file, cycle>> /\ \A o \in LabObject : cluster'[o] = cluster[o]
<1>1. ASSUME ReconcileMachineCreds PROVE UNCHANGED <<file, cycle>> /\ \A o \in LabObject : cluster'[o] = cluster[o]
    BY <1>1, WriteContents, LabObjects DEF ReconcileMachineCreds, IInv, TypeOK
<1>2. ASSUME \/ RefuseApply \/ DryRunPatch \/ LoadStateFails \/ WaitReady \/ Conflict \/ Fail
             \/ GetInfra \/ CaptureConfig \/ CaptureSecret \/ GetConfig \/ GetSecret
             \/ LoadState \/ \E o \in LabObject : RestoreGet(o)
             \/ StartRestore \/ \E v \in VCenter, dry \in BOOLEAN : StartApply(v, dry)
             \/ UNCHANGED vars
      PROVE  UNCHANGED <<file, cycle, cluster>>
    BY <1>2 DEF RefuseApply, DryRunPatch, LoadStateFails, WaitReady, Conflict, Fail, GetInfra,
                CaptureConfig, CaptureSecret, GetConfig, GetSecret, LoadState, RestoreGet,
                StartRestore, StartApply, vars
<1> QED
    BY <1>1, <1>2 DEF Next, CommandStep, ApplyStep, RestoreStep, OutsideStep

\* One object written with a content that covers what it has to.
LEMMA WriteCovers ==
    ASSUME CoverInv, NEW o \in LabObject, UNCHANGED file,
           \A p \in LabObject \ {o} : cluster'[p] = cluster[p],
           \A p \in LabObject : Covers(cluster'[p], cluster'[Infra]),
           Usable(file) => Covers(cluster'[o], file[Infra])
    PROVE  CoverInv'
BY DEF CoverInv

\* The cluster starts with credentials for its vCenters.
LEMMA InitCover == Init => CoverInv
<1> SUFFICES ASSUME Init PROVE CoverInv
    OBVIOUS
<1>1. PICK vcs \in SUBSET VCenter, config \in {"valid", "unparsable"}, cloud \in {"present", "absent"} :
          cluster = [o \in Object |->
                IF o = SourceConfig /\ config = "unparsable" THEN Unparsable
                ELSE IF o = CloudCreds /\ cloud = "absent" THEN Absent ELSE vcs]
    BY DEF Init
<1>2. Infra \in Object /\ LabObject \subseteq Object
    BY DEF Object, LabObject
<1>3. cluster[Infra] = vcs /\ \A o \in LabObject : cluster[o] \in {Absent, Unparsable, vcs}
    BY <1>1, <1>2, DistinctObjects
<1> QED
    BY <1>3 DEF Init, CoverInv, Covers, Usable

\* No step names a vCenter before its credentials, or takes them away before it.
LEMMA NextCover ==
    ASSUME Outside \subseteq {"add"}
    PROVE  IInv /\ ProgressInv /\ AloneInv /\ CoverInv /\ [Next]_vars => CoverInv'
<1> SUFFICES ASSUME IInv, ProgressInv, AloneInv, CoverInv, [Next]_vars PROVE CoverInv'
    OBVIOUS
<1>1. /\ cluster \in State /\ cluster[Infra] \in SUBSET VCenter
      /\ Infra \in LabObject /\ SourceConfig \in LabObject /\ SourceConfig # Infra /\ LabObject \subseteq Object
      /\ cluster[SourceConfig] # Absent
    BY StateContents, LabObjects, DistinctObjects DEF IInv, TypeOK
<1>2. /\ \A o \in LabObject : cluster[o] \in {Absent, Unparsable} \/ cluster[Infra] \subseteq cluster[o]
      /\ Usable(file) => \A o \in LabObject : cluster[o] \in {Absent, Unparsable} \/ file[Infra] \subseteq cluster[o]
      /\ Usable(file) => \A o \in LabObject : Covers(file[o], file[Infra])
      /\ Usable(file) => file[Infra] \subseteq cluster[Infra]
    BY <1>1, Sentinels DEF CoverInv, Covers
<1>3. ASSUME SaveState PROVE CoverInv'
    <2>1. file' = draft /\ UNCHANGED cluster /\ \A o \in LabObject : draft[o] = cluster[o]
        BY <1>3, DraftIsCluster DEF SaveState
    <2> QED
        BY <1>1, <2>1 DEF CoverInv
<1>4. ASSUME PutConfig PROVE CoverInv'
    <2>1. UNCHANGED file
        BY <1>4 DEF PutConfig
    <2>2. cluster[Infra] \subseteq cluster'[SourceConfig] /\ (Usable(file) => file[Infra] \subseteq cluster'[SourceConfig])
        BY <1>1, <1>2, <1>4, ConfigWritten
    <2>3. \A p \in Object \ {SourceConfig} : cluster'[p] = cluster[p]
        BY <1>4, ConfigWritten
    <2> QED
        BY <1>1, <1>2, <2>1, <2>2, <2>3, WriteCovers DEF Covers
<1>5. ASSUME PutSecret PROVE CoverInv'
    <2>1. UNCHANGED file
        BY <1>5 DEF PutSecret
    <2>2. PICK s \in LabObject \ {Infra} : /\ cluster[s] \in SUBSET VCenter
                                           /\ cluster'[s] = cluster[s] \cup {cmd.vc}
                                           /\ \A p \in Object \ {s} : cluster'[p] = cluster[p]
        BY <1>5, SecretWritten, LabObjects
    <2>3. cluster[Infra] \subseteq cluster'[s] /\ (Usable(file) => file[Infra] \subseteq cluster'[s])
        BY <1>2, <2>2, Sentinels
    <2> QED
        BY <1>1, <1>2, <2>1, <2>2, <2>3, WriteCovers DEF Covers
<1>6. ASSUME PatchInfra PROVE CoverInv'
    <2>1. UNCHANGED file
        BY <1>6 DEF PatchInfra
    <2>2. /\ cluster'[Infra] = cluster[Infra] \cup {cmd.vc}
          /\ \A p \in Object \ {Infra} : cluster'[p] = cluster[p]
          /\ \A p \in LabObject \ {Infra} : cluster[p] # Absent => cmd.vc \in cluster[p]
        BY <1>6, InfraWritten
    <2>3. \A p \in LabObject : Covers(cluster'[p], cluster'[Infra])
        BY <1>1, <1>2, <2>2 DEF Covers
    <2> QED
        BY <1>1, <1>2, <2>1, <2>2, <2>3, WriteCovers DEF Covers
<1>7. ASSUME NEW o \in LabObject, RestorePut(o) PROVE CoverInv'
    <2>1. UNCHANGED file
        BY <1>7 DEF RestorePut
    <2>2. /\ Usable(file) /\ cluster'[o] = file[o]
          /\ \A p \in Object \ {o} : cluster'[p] = cluster[p]
          /\ o # Infra => cluster[Infra] = file[Infra]
        BY <1>7, BackupWritten
    <2>3. cluster'[Infra] = file[Infra]
        BY <1>1, <2>2
    <2>4. \A p \in LabObject : Covers(cluster'[p], file[Infra])
        BY <1>1, <1>2, <2>2 DEF Covers
    <2> QED
        BY <1>1, <2>1, <2>2, <2>3, <2>4, WriteCovers
<1>8. ASSUME NEW v \in VCenter, OutsideAdd(v) PROVE CoverInv'
    <2>1. /\ UNCHANGED file
          /\ \A o \in LabObject : cluster'[o] = IF cluster[o] \in {Absent, Unparsable} THEN cluster[o] ELSE cluster[o] \cup {v}
        BY <1>1, <1>8 DEF OutsideAdd, Edit, Named
    <2>2. cluster'[Infra] = cluster[Infra] \cup {v}
        BY <1>1, <2>1, Sentinels
    <2> QED
        BY <1>1, <1>2, <2>1, <2>2 DEF CoverInv, Covers
<1>9. ~ \E v \in VCenter : OutsideRemove(v)
    BY DEF OutsideRemove
<1>10. ASSUME SaveInterrupted PROVE CoverInv'
    BY <1>10 DEF SaveInterrupted, CoverInv, Usable
<1>11. ASSUME UNCHANGED file, \A o \in LabObject : cluster'[o] = cluster[o] PROVE CoverInv'
    BY <1>1, <1>11 DEF CoverInv
<1> QED
    BY <1>3, <1>4, <1>5, <1>6, <1>7, <1>8, <1>9, <1>10, <1>11, StepKinds

\* The Machine API secret, once it is derived, covers what the root secret does.
LEMMA CoverMachine == CoverInv => CoversInfra
<1>1. RootCreds \in LabObject
    BY DistinctObjects DEF LabObject, Object
<1> QED
    BY <1>1 DEF CoverInv, CoversInfra

\* At whatever call commands stopped, and whatever vCenters others added between them,
\* the config and the credentials cover the vCenters of the Infrastructure.
THEOREM CoversDespiteAdds ==
    ASSUME Outside \subseteq {"add"}
    PROVE  Spec => []CoversInfra
<1>1. Init => IInv /\ ProgressInv /\ AloneInv /\ CoverInv
    BY InitIInv, InitProgress, InitAlone, InitCover
<1>2. IInv /\ ProgressInv /\ AloneInv /\ CoverInv /\ [Next]_vars => (IInv /\ ProgressInv /\ AloneInv /\ CoverInv)'
    BY NextIInv, NextProgress, NextAlone, NextCover
<1> QED
    BY <1>1, <1>2, CoverMachine, PTL DEF Spec

\* There is no backup and no change at the start.
LEMMA InitMatch == Init => MatchInv
BY Sentinels DEF Init, MatchInv, BackupMatchesCycle, Usable

\* Every step keeps the backup the cluster before the first change.
LEMMA NextMatch ==
    ASSUME Outside = {}, ~TornWrites
    PROVE  IInv /\ ProgressInv /\ ProgressInv' /\ AloneInv /\ MatchInv /\ [Next]_vars => MatchInv'
<1> SUFFICES ASSUME IInv, ProgressInv, ProgressInv', AloneInv, MatchInv, [Next]_vars PROVE MatchInv'
    OBVIOUS
<1> USE DEF MatchInv, BackupMatchesCycle
<1>1. /\ cluster \in State /\ cluster[Infra] \in SUBSET VCenter
      /\ Infra \in LabObject /\ SourceConfig \in LabObject /\ SourceConfig # Infra /\ LabObject \subseteq Object
      /\ cluster[SourceConfig] # Absent
    BY StateContents, LabObjects, DistinctObjects DEF IInv, TypeOK
<1>2. ASSUME SaveState PROVE MatchInv'
    <2>1. /\ file' = draft /\ UNCHANGED <<cluster, cycle>> /\ cycle = NoCycle
          /\ \A o \in LabObject : draft[o] = cluster[o]
        BY <1>2, DraftIsCluster DEF SaveState, IInv, WriteAheadInv, Capturing
    <2>2. draft \in State
        BY <1>2 DEF SaveState, IInv, TypeOK, ControlInv, Capturing, State
    <2> QED
        BY <2>1, <2>2, Sentinels
\* An apply that writes: the backup exists, and the cycle is open when it has.
<1>3. ASSUME UNCHANGED file, Usable(file), NEW o \in LabObject,
             \A p \in LabObject \ {o} : cluster'[p] = cluster[p],
             cluster[o] # Absent, cluster'[o] # Absent,
             cycle' # NoCycle, cycle' = IF cycle = NoCycle THEN cluster ELSE cycle
      PROVE  MatchInv'
    BY <1>3
<1>4. ASSUME PutConfig PROVE MatchInv'
    <2>1. /\ UNCHANGED file /\ Usable(file)
          /\ cycle' = IF cycle = NoCycle THEN cluster ELSE cycle
        BY <1>4 DEF PutConfig, OpenCycle, IInv, ControlInv, WriteAheadInv, Changing, Usable
    <2>2. cycle' # NoCycle
        BY <1>1, <2>1, Sentinels
    <2>3. cluster'[SourceConfig] # Absent
        BY NextIInv, StateContents DEF IInv, TypeOK
    <2>4. \A p \in LabObject \ {SourceConfig} : cluster'[p] = cluster[p]
        BY <1>1, <1>4, ConfigWritten
    <2> QED
        BY <1>1, <1>3, <2>1, <2>2, <2>3, <2>4
<1>5. ASSUME PutSecret PROVE MatchInv'
    <2>1. UNCHANGED <<file, cycle>> /\ Usable(file) /\ cycle # NoCycle
        BY <1>5 DEF PutSecret, IInv, ControlInv, WriteAheadInv, Changing, Usable, ProgressInv, ApplyInv
    <2>2. PICK s \in LabObject : /\ cluster[s] \in SUBSET VCenter
                                 /\ cluster'[s] = cluster[s] \cup {cmd.vc}
                                 /\ \A p \in Object \ {s} : cluster'[p] = cluster[p]
        BY <1>5, SecretWritten, LabObjects
    <2>3. cluster[s] # Absent /\ cluster'[s] # Absent
        <3>1. cmd.vc \in VCenter
            BY DEF IInv, TypeOK, Command
        <3> QED
            BY <2>2, <3>1, Sentinels
    <2> QED
        BY <1>1, <1>3, <2>1, <2>2, <2>3
<1>6. ASSUME PatchInfra PROVE MatchInv'
    <2>1. UNCHANGED <<file, cycle>> /\ Usable(file) /\ cycle # NoCycle
        BY <1>6 DEF PatchInfra, IInv, WriteAheadInv, Changing, Usable, ProgressInv, ApplyInv
    <2>2. cluster'[Infra] # Absent /\ cluster[Infra] # Absent
        BY NextIInv, StateContents, Sentinels DEF IInv, TypeOK
    <2>3. \A p \in LabObject \ {Infra} : cluster'[p] = cluster[p]
        BY <1>1, <1>6, InfraWritten
    <2> QED
        BY <1>1, <1>3, <2>1, <2>2, <2>3
<1>7. ASSUME NEW o \in LabObject, RestorePut(o) PROVE MatchInv'
    <2>1. /\ UNCHANGED <<file, cmd, quiet>> /\ pc = "restore_put"
          /\ cycle' = IF todo' = {} THEN NoCycle ELSE cycle
          /\ todo' = {} => pc' = "wait_ready"
        BY <1>7 DEF RestorePut, Goto
    <2>2. /\ Usable(file) /\ file[o] # Absent /\ cluster'[o] = file[o]
          /\ \A p \in LabObject \ {o} : cluster'[p] = cluster[p]
        BY <1>1, <1>7, BackupWritten
    <2>3. \A p \in LabObject : file[p] = Absent <=> cluster'[p] = Absent
        BY <2>2
    <2>4. ASSUME todo' = {} PROVE \A p \in LabObject : cluster'[p] = file[p]
        <3>1. cmd.kind = "restore" /\ quiet
            BY <2>1 DEF ProgressInv, KindInv, Restoring, AloneInv
        <3>2. PutBack(LabObject)'
            BY <2>1, <2>4, <3>1 DEF ProgressInv, RestoreInv
        <3> QED
            BY <2>1, <2>3, <3>2 DEF PutBack
    <2>5. ASSUME cycle = NoCycle PROVE \A p \in LabObject : cluster'[p] = file[p]
        BY <2>2, <2>5
    <2> QED
        BY <2>1, <2>2, <2>3, <2>4, <2>5
<1>8. ~ \E v \in VCenter : OutsideAdd(v) \/ OutsideRemove(v)
    BY DEF OutsideAdd, OutsideRemove
<1>9. ~ SaveInterrupted
    BY DEF SaveInterrupted
<1>10. ASSUME UNCHANGED <<file, cycle>>, \A o \in LabObject : cluster'[o] = cluster[o] PROVE MatchInv'
    BY <1>10
<1> QED
    BY <1>2, <1>4, <1>5, <1>6, <1>7, <1>8, <1>9, <1>10, StepKinds

\* While a change of apply waits to be reverted the backup is the cluster before the first
\* one, when only the two commands write and the write of the state file is not cut short.
THEOREM BackupMatches ==
    ASSUME Outside = {}, ~TornWrites
    PROVE  Spec => []BackupMatchesCycle
<1>1. Init => IInv /\ ProgressInv /\ AloneInv /\ MatchInv
    BY InitIInv, InitProgress, InitAlone, InitMatch
<1>2. IInv /\ ProgressInv /\ AloneInv /\ MatchInv /\ [Next]_vars => (IInv /\ ProgressInv /\ AloneInv /\ MatchInv)'
    BY NextIInv, NextProgress, NextAlone, NextMatch
<1>3. MatchInv => BackupMatchesCycle
    BY DEF MatchInv
<1> QED
    BY <1>1, <1>2, <1>3, PTL DEF Spec

\* A config that cannot be read stands beside the Infrastructure of before the cycle.
ReadableInv == cycle # NoCycle /\ cluster[SourceConfig] = Unparsable => cluster[Infra] = cycle[Infra]

\* From its first write on, apply has a config that can be read.
RebuiltInv == pc \in {"get_secret", "put_secret"} /\ ~cmd.dry => cluster[SourceConfig] # Unparsable

\* Nothing makes it unreadable again while that apply runs.
LEMMA NextRebuilt ==
    ASSUME Outside = {}
    PROVE  IInv /\ ProgressInv /\ AloneInv /\ RebuiltInv /\ [Next]_vars => RebuiltInv'
<1> SUFFICES ASSUME IInv, ProgressInv, AloneInv, RebuiltInv, [Next]_vars PROVE RebuiltInv'
    OBVIOUS
<1>1. /\ SourceConfig \in Object /\ MachineCreds \in Object /\ Infra \in Object
      /\ SourceConfig # MachineCreds /\ SourceConfig # Infra /\ SourceConfig \notin UpdateTargets
      /\ cluster \in State /\ cluster[Infra] \in SUBSET VCenter /\ cmd.vc \in VCenter
      /\ cluster[SourceConfig] \in {Unparsable} \cup SUBSET VCenter
    BY StateContents, LabObjects, DistinctObjects DEF IInv, TypeOK, Command, Object
<1> USE DEF RebuiltInv, Goto, locals, counts
<1>2. ASSUME NEW r, Exit(r) PROVE RebuiltInv'
    BY <1>2 DEF Exit
<1>3. ASSUME \/ RefuseApply \/ DryRunPatch \/ LoadStateFails \/ WaitReady \/ Conflict
             \/ Fail \/ SaveInterrupted
      PROVE  RebuiltInv'
    BY <1>2, <1>3 DEF RefuseApply, DryRunPatch, LoadStateFails, WaitReady, Conflict, Fail, SaveInterrupted
<1>4. ASSUME GetInfra \/ CaptureConfig \/ CaptureSecret \/ SaveState PROVE RebuiltInv'
    BY <1>4 DEF GetInfra, CaptureConfig, CaptureSecret, SaveState
<1>5. ASSUME GetConfig \/ GetSecret \/ PatchInfra PROVE RebuiltInv'
    BY <1>5 DEF GetConfig, GetSecret, PatchInfra
<1>6. ASSUME PutConfig PROVE RebuiltInv'
    <2>1. cluster'[SourceConfig] \in SUBSET VCenter
        BY <1>1, <1>6, ConfigWritten
    <2> QED
        BY <2>1, Sentinels
<1>7. ASSUME PutSecret PROVE RebuiltInv'
    <2>1. cluster'[SourceConfig] = cluster[SourceConfig]
        BY <1>1, <1>7, SecretWritten
    <2> QED
        BY <1>7, <2>1 DEF PutSecret
<1>8. ASSUME LoadState \/ \E o \in LabObject : RestoreGet(o) \/ RestorePut(o) PROVE RebuiltInv'
    BY <1>8 DEF LoadState, RestoreGet, RestorePut
<1>9. ASSUME StartRestore \/ \E v \in VCenter, dry \in BOOLEAN : StartApply(v, dry) PROVE RebuiltInv'
    BY <1>9 DEF StartRestore, StartApply
<1>10. ASSUME OutsideStep PROVE RebuiltInv'
    <2>1. ReconcileMachineCreds
        BY <1>10 DEF OutsideStep, OutsideAdd, OutsideRemove
    <2>2. cluster'[SourceConfig] = cluster[SourceConfig]
        BY <1>1, <2>1, WriteContents DEF ReconcileMachineCreds
    <2> QED
        BY <2>1, <2>2 DEF ReconcileMachineCreds
<1> QED
    BY <1>3, <1>4, <1>5, <1>6, <1>7, <1>8, <1>9, <1>10 DEF Next, CommandStep, ApplyStep, RestoreStep, vars

\* Apply makes the config readable before it changes the Infrastructure, restore puts the
\* Infrastructure back before the config.
LEMMA NextReadable ==
    ASSUME Outside = {}, ~TornWrites
    PROVE  IInv /\ ProgressInv /\ AloneInv /\ MatchInv /\ RebuiltInv /\ ReadableInv /\ [Next]_vars => ReadableInv'
<1> SUFFICES ASSUME IInv, ProgressInv, AloneInv, MatchInv, RebuiltInv, ReadableInv, [Next]_vars PROVE ReadableInv'
    OBVIOUS
<1> USE DEF ReadableInv
<1>1. /\ cluster \in State /\ cluster[Infra] \in SUBSET VCenter
      /\ Infra \in LabObject /\ SourceConfig \in LabObject /\ SourceConfig # Infra /\ LabObject \subseteq Object
      /\ cluster[SourceConfig] \in {Unparsable} \cup SUBSET VCenter
      /\ cmd.vc \in VCenter
    BY StateContents, LabObjects, DistinctObjects DEF IInv, TypeOK, Command
<1>2. ASSUME PutConfig PROVE ReadableInv'
    <2>1. cluster'[SourceConfig] \in SUBSET VCenter
        BY <1>1, <1>2, ConfigWritten
    <2> QED
        BY <2>1, Sentinels
<1>3. ASSUME PutSecret PROVE ReadableInv'
    BY <1>1, <1>3, SecretWritten, LabObjects DEF PutSecret
<1>4. ASSUME PatchInfra PROVE ReadableInv'
    <2>1. cluster'[SourceConfig] = cluster[SourceConfig]
        BY <1>1, <1>4, InfraWritten
    <2> QED
        BY <1>4, <2>1 DEF PatchInfra, RebuiltInv
<1>5. ASSUME NEW o \in LabObject, RestorePut(o) PROVE ReadableInv'
    <2>1. /\ cluster'[o] = file[o] /\ \A p \in Object \ {o} : cluster'[p] = cluster[p]
          /\ o # Infra => cluster[Infra] = file[Infra]
        BY <1>5, BackupWritten
    <2>2. cluster'[Infra] = file[Infra]
        BY <1>1, <2>1
    <2>3. cycle' \in {cycle, NoCycle} /\ (cycle # NoCycle => file[Infra] = cycle[Infra])
        BY <1>1, <1>5 DEF RestorePut, MatchInv, BackupMatchesCycle
    <2> QED
        BY <2>2, <2>3
<1>6. ASSUME SaveState PROVE ReadableInv'
    BY <1>6 DEF SaveState
<1>7. ~ \E v \in VCenter : OutsideAdd(v) \/ OutsideRemove(v)
    BY DEF OutsideAdd, OutsideRemove
<1>8. ~ SaveInterrupted
    BY DEF SaveInterrupted
<1>9. ASSUME UNCHANGED <<file, cycle>>, \A o \in LabObject : cluster'[o] = cluster[o] PROVE ReadableInv'
    BY <1>1, <1>9
<1> QED
    BY <1>2, <1>3, <1>4, <1>5, <1>6, <1>7, <1>8, <1>9, StepKinds

\* At whatever call commands stopped the components find the config and the credentials
\* for what the Infrastructure names, and no change of apply beside a config that cannot
\* be read, when only the two commands write.
THEOREM CredsAlwaysCover ==
    ASSUME Outside = {}, ~TornWrites
    PROVE  Spec => []CredsCoverInfra
<1> DEFINE Inv == IInv /\ ProgressInv /\ AloneInv /\ CoverInv /\ MatchInv /\ RebuiltInv /\ ReadableInv
<1>1. Init => Inv
    BY InitIInv, InitProgress, InitAlone, InitCover, InitMatch DEF Init, RebuiltInv, ReadableInv
<1>2. Inv /\ [Next]_vars => Inv'
    BY NextIInv, NextProgress, NextAlone, NextCover, NextMatch, NextRebuilt, NextReadable
<1>3. Inv => CredsCoverInfra
    BY CoverMachine DEF ReadableInv, CredsCoverInfra
<1> HIDE DEF Inv
<1> QED
    BY <1>1, <1>2, <1>3, PTL DEF Spec

\* Step 3 of apply appends its vCenter and drops none, although it replaces the list by
\* one built from the Infrastructure read at the start, unless others write meanwhile.
THEOREM ApplyAppendsAlone ==
    ASSUME "concurrent" \notin Outside
    PROVE  Spec => ApplyAppends
<1>1. Init => IInv /\ ProgressInv /\ AloneInv
    BY InitIInv, InitProgress, InitAlone
<1>2. IInv /\ ProgressInv /\ AloneInv /\ [Next]_vars => (IInv /\ ProgressInv /\ AloneInv)'
    BY NextIInv, NextProgress, NextAlone
<1>3. IInv /\ ProgressInv /\ AloneInv => (PatchInfra => cluster'[Infra] = cluster[Infra] \cup {cmd.vc})
    BY InfraWritten
<1> QED
    BY <1>1, <1>2, <1>3, PTL DEF Spec, ApplyAppends

-----------------------------------------------------------------------------
(***************************************************************************)
(* The refinement of AtomicBackup                                          *)
(***************************************************************************)
Live   == [o \in LabObject |-> cluster[o]]
Backup == IF Usable(file) THEN [o \in LabObject |-> file[o]] ELSE file

\* What is saved of the objects is a function, whatever the file is not.
LEMMA BackupUsable ==
    ASSUME IInv, Usable(file)
    PROVE  Backup = [o \in LabObject |-> file[o]] /\ Backup # NoFile /\ Backup # Torn
<1>1. file \in State
    BY DEF IInv, TypeOK, Usable
<1>2. \A o \in LabObject : file[o] \in Content
    BY <1>1, StateContents, LabObjects
<1>3. [o \in LabObject |-> file[o]] \in [LabObject -> Content]
    BY <1>2
<1> QED
    BY <1>3, SentinelAssumption DEF Backup

\* A write of one object is a write of that object of the abstract cluster.
LEMMA LiveWrite ==
    ASSUME NEW o \in LabObject, NEW c, cluster'[o] = c,
           \A p \in LabObject \ {o} : cluster'[p] = cluster[p]
    PROVE  Live' = [Live EXCEPT ![o] = c]
BY DEF Live

\* The initial states are initial states of AtomicBackup.
LEMMA InitRefines == Init => Abstract!Init
<1> SUFFICES ASSUME Init PROVE Abstract!Init
    OBVIOUS
<1>1. cluster \in State /\ file = NoFile /\ cycle = NoCycle
    BY InitIInv DEF Init, IInv, TypeOK
<1>2. \A o \in LabObject : cluster[o] \in Content
    BY <1>1, StateContents, LabObjects
<1> QED
    BY <1>1, <1>2 DEF Abstract!Init, Abstract!Content, Content, Usable

\* Every step is one of AtomicBackup or changes nothing that it speaks of.
LEMMA NextRefines ==
    ASSUME Outside = {}
    PROVE  IInv /\ ProgressInv /\ ProgressInv' /\ AloneInv /\ [Next]_vars => [Abstract!Next]_(Abstract!vars)
<1> SUFFICES ASSUME IInv, ProgressInv, ProgressInv', AloneInv, [Next]_vars
             PROVE  [Abstract!Next]_(Abstract!vars)
    OBVIOUS
<1>1. /\ cluster \in State /\ cluster[Infra] \in SUBSET VCenter
      /\ Infra \in LabObject /\ SourceConfig \in LabObject /\ SourceConfig # Infra /\ LabObject \subseteq Object
      /\ cluster[SourceConfig] # Absent /\ cmd.vc \in VCenter
    BY StateContents, LabObjects, DistinctObjects DEF IInv, TypeOK, Command
<1>2. Live = [o \in LabObject |-> cluster[o]] /\ Backup = IF Usable(file) THEN [o \in LabObject |-> file[o]] ELSE file
    BY DEF Live, Backup
<1>2a. PICK v \in VCenter : v = cmd.vc
    BY <1>1
<1>3. ASSUME SaveState PROVE Abstract!Save
    <2>1. /\ file' = draft /\ UNCHANGED <<cluster, cycle>> /\ file = NoFile /\ cycle = NoCycle
          /\ \A o \in LabObject : draft[o] = cluster[o]
        BY <1>3, DraftIsCluster DEF SaveState, IInv, WriteAheadInv, Capturing
    <2>2. Usable(draft) /\ ~Usable(file)
        BY <1>3, <2>1, Sentinels DEF SaveState, IInv, TypeOK, ControlInv, Capturing, State, Usable
    <2> QED
        BY <2>1, <2>2 DEF Abstract!Save, Usable
<1>4. ASSUME SaveInterrupted PROVE Abstract!Save
    <2>1. file' = Torn /\ UNCHANGED <<cluster, cycle>> /\ file = NoFile /\ cycle = NoCycle
        BY <1>4 DEF SaveInterrupted, IInv, WriteAheadInv, Capturing
    <2> QED
        BY <2>1 DEF Abstract!Save, Usable
\* A write of apply is an Add, once the cycle is open after it.
<1>5. ASSUME NEW o \in LabObject, UNCHANGED file, file # NoFile, cluster[o] # Absent, cycle' # NoCycle,
             cluster'[o] = (IF cluster[o] = Unparsable THEN cluster[Infra] ELSE cluster[o]) \cup {v},
             \A p \in LabObject \ {o} : cluster'[p] = cluster[p]
      PROVE  Abstract!Add(o, v)
    <2>1. Live' = [Live EXCEPT ![o] = (IF cluster[o] = Unparsable THEN cluster[Infra] ELSE cluster[o]) \cup {v}]
        BY <1>5, LiveWrite
    <2>2. Live[o] = cluster[o] /\ Live[Infra] = cluster[Infra]
        BY <1>1, <1>5 DEF Live
    <2>3. Backup # NoFile /\ Backup' = Backup
        BY <1>5, BackupUsable DEF Backup, Usable
    <2> QED
        BY <1>5, <2>1, <2>2, <2>3 DEF Abstract!Add, Abstract!Base, Live, Backup
<1>6. ASSUME PutConfig PROVE Abstract!Add(SourceConfig, v)
    <2>1. /\ UNCHANGED file /\ file # NoFile
          /\ cycle' = IF cycle = NoCycle THEN cluster ELSE cycle
        BY <1>6 DEF PutConfig, OpenCycle, IInv, ControlInv, WriteAheadInv, Changing
    <2>2. cycle' # NoCycle
        BY <1>1, <2>1, Sentinels
    <2> QED
        BY <1>2a, <1>1, <1>5, <1>6, <2>1, <2>2, ConfigWritten
<1>7. ASSUME PutSecret PROVE \E o \in LabObject : Abstract!Add(o, v)
    <2>1. UNCHANGED <<file, cycle>> /\ file # NoFile /\ cycle # NoCycle
        BY <1>7 DEF PutSecret, IInv, ControlInv, WriteAheadInv, Changing, ProgressInv, ApplyInv
    <2>2. PICK s \in LabObject : /\ cluster[s] \in SUBSET VCenter
                                 /\ cluster'[s] = cluster[s] \cup {cmd.vc}
                                 /\ \A p \in Object \ {s} : cluster'[p] = cluster[p]
        BY <1>7, SecretWritten, LabObjects
    <2>3. cluster[s] # Absent /\ cluster[s] # Unparsable
        BY <2>2, Sentinels
    <2>4. Abstract!Add(s, v)
        BY <1>2a, <1>1, <1>5, <2>1, <2>2, <2>3
    <2> QED
        BY <2>4
<1>8. ASSUME PatchInfra PROVE Abstract!Add(Infra, v)
    <2>1. UNCHANGED <<file, cycle>> /\ file # NoFile /\ cycle # NoCycle
        BY <1>8 DEF PatchInfra, IInv, WriteAheadInv, Changing, ProgressInv, ApplyInv
    <2>2. cluster[Infra] # Absent /\ cluster[Infra] # Unparsable
        BY <1>1, Sentinels
    <2> QED
        BY <1>2a, <1>1, <1>5, <1>8, <2>1, <2>2, InfraWritten
<1>9. ASSUME NEW o \in LabObject, RestorePut(o) PROVE Abstract!PutBack(o)
    <2>1. /\ UNCHANGED <<file, cmd, quiet>> /\ pc = "restore_put"
          /\ cycle' = IF todo' = {} THEN NoCycle ELSE cycle
          /\ todo' = {} => pc' = "wait_ready"
        BY <1>9 DEF RestorePut, Goto
    <2>2. /\ Usable(file) /\ file[o] # Absent /\ cluster'[o] = file[o]
          /\ \A p \in LabObject \ {o} : cluster'[p] = cluster[p]
        BY <1>1, <1>9, BackupWritten
    <2>3. Live' = [Live EXCEPT ![o] = file[o]]
        BY <2>2, LiveWrite
    <2>4. /\ Backup = [p \in LabObject |-> file[p]] /\ Backup[o] = file[o] /\ Backup' = Backup
          /\ Backup \notin {NoFile, Torn}
        BY <2>1, <2>2, BackupUsable DEF Backup
    <2>5. ASSUME todo' = {} PROVE \A p \in LabObject : Backup[p] # Absent => Live'[p] = Backup[p]
        <3>1. cmd.kind = "restore" /\ quiet
            BY <2>1 DEF ProgressInv, KindInv, Restoring, AloneInv
        <3>2. PutBack(LabObject)'
            BY <2>1, <2>5, <3>1 DEF ProgressInv, RestoreInv
        <3> QED
            BY <2>1, <2>4, <3>2 DEF PutBack, Live
    <2>6. \/ (cycle' # NoCycle) = (cycle # NoCycle)
          \/ (cycle' # NoCycle) = FALSE /\ \A p \in LabObject : Backup[p] # Absent => Live'[p] = Backup[p]
        BY <2>1, <2>5
    <2>7. /\ Backup \notin {NoFile, Torn} /\ Backup[o] # Absent /\ Backup' = Backup
          /\ Live' = [Live EXCEPT ![o] = Backup[o]]
        BY <2>2, <2>3, <2>4
    <2> QED
        BY <2>6, <2>7 DEF Abstract!PutBack, Abstract!Reverted, Live, Backup
<1>10. ~ \E w \in VCenter : OutsideAdd(w) \/ OutsideRemove(w)
    BY DEF OutsideAdd, OutsideRemove
<1>11. ASSUME UNCHANGED <<file, cycle>>, \A o \in LabObject : cluster'[o] = cluster[o]
       PROVE  UNCHANGED Abstract!vars
    BY <1>11 DEF Abstract!vars, Usable
<1>12. ASSUME PutConfig \/ PutSecret \/ PatchInfra PROVE Abstract!Next
    <2>1. \E o \in LabObject : Abstract!Add(o, v)
        BY <1>1, <1>6, <1>7, <1>8, <1>12
    <2>2. \E o \in LabObject, w \in VCenter : Abstract!Add(o, w)
        BY <2>1
    <2> QED
        BY <2>2 DEF Abstract!Next
<1>13. ASSUME NEW o \in LabObject, RestorePut(o) PROVE Abstract!Next
    BY <1>9, <1>13 DEF Abstract!Next
<1>14. ASSUME SaveState \/ SaveInterrupted PROVE Abstract!Next
    BY <1>3, <1>4, <1>14 DEF Abstract!Next
<1> QED
    BY <1>10, <1>11, <1>12, <1>13, <1>14, StepKinds

\* What README.md promises of apply-lab and restore-lab: seen from outside, commands that
\* stop at any call are a backup taken at one instant, vCenters added to single objects
\* and objects put back, the cycle closed only when all of them are.
THEOREM RefinesAtomicBackup ==
    ASSUME Outside = {}
    PROVE  Spec => ImplementsAtomicBackup
<1>1. Init => IInv /\ ProgressInv /\ AloneInv
    BY InitIInv, InitProgress, InitAlone
<1>2. IInv /\ ProgressInv /\ AloneInv /\ [Next]_vars => (IInv /\ ProgressInv /\ AloneInv)'
    BY NextIInv, NextProgress, NextAlone
<1> QED
    BY <1>1, <1>2, InitRefines, NextRefines, PTL DEF Spec, ImplementsAtomicBackup, Abstract!Spec

=============================================================================
