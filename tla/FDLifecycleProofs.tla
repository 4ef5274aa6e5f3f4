-------------------------- MODULE FDLifecycleProofs --------------------------
(***************************************************************************)
(* Proofs about FDLifecycle: for any specs that are Scoped, and any number *)
(* of faults, the specs start from a clean site and the suite cleans up    *)
(* whatever it can.                                                        *)
(***************************************************************************)
EXTENDS MCFDLifecycle, SequenceTheorems, TLAPS

\* A cleanup that is pushed is the first, the others follow it.
LEMMA Push ==
    ASSUME NEW S, NEW s \in Seq(S), NEW e \in S
    PROVE  /\ <<e>> \o s \in Seq(S)
           /\ Len(<<e>> \o s) = Len(s) + 1
           /\ (<<e>> \o s)[1] = e
           /\ \A i \in 1..Len(s) : (<<e>> \o s)[i + 1] = s[i]
           /\ \A i \in 1..(Len(s) + 1) : i # 1 => (<<e>> \o s)[i] = s[i - 1]
  OBVIOUS

\* The others are left when it is popped.
LEMMA Pop ==
    ASSUME NEW S, NEW s \in Seq(S), s # <<>>
    PROVE  /\ s[1] \in S
           /\ Tail(s) \in Seq(S)
           /\ Len(s) \in Nat \ {0}
           /\ Len(Tail(s)) = Len(s) - 1
           /\ \A i \in 1..Len(Tail(s)) : Tail(s)[i] = s[i + 1]
  OBVIOUS

\* The program of the spec that runs.
LEMMA CurrentProgram ==
    ASSUME TypeOK
    PROVE  /\ Current \in SpecNames
           /\ Steps \in Seq(Step)
           /\ Scoped(Steps)
  <1>1. plan \in Seq(SpecNames) /\ at \in 1..Len(plan)
    BY SelectionAssumption DEF TypeOK
  <1>2. Current \in SpecNames
    BY <1>1 DEF Current
  <1> QED
    BY <1>2, ProgramAssumption, ScopeAssumption DEF Steps

\* What is deferred, and what restores.
LEMMA Deferred ==
    ASSUME NEW e \in Step, e.op = "defer"
    PROVE  /\ e.arg \in Undo
           /\ e = Defer(e.arg)
           /\ e.arg \in RestoreUndo <=> e \in Restores
           /\ \A v \in Undo : e.arg = v <=> e = Defer(v)
  <1>1. PICK u \in Undo : e = Defer(u)
    <2>1. e \notin Changes
      <3>1. \A op : Do(op).op = op
        BY DEF Do
      <3> QED
        BY <3>1, ZenonT(30) DEF Changes
    <2>2. \A c : e # Await(c) /\ e # Expect(c)
      BY DEF Await, Expect
    <2> QED
      BY <2>1, <2>2 DEF Step
  <1>2. e.arg = u
    BY <1>1 DEF Defer
  <1>3. \A v \in Undo : e = Defer(v) <=> u = v
    BY <1>1, <1>2 DEF Defer
  <1> QED
    BY <1>1, <1>2, <1>3 DEF Restores, RestoreUndo, Undo

\* A fault is counted and remembered within the bounds.
LEMMA FaultType ==
    ASSUME TypeOK, NEW what \in SUBSET Breakable, Fault(what)
    PROVE  faults' \in 0..MaxFaults /\ broken' \subseteq Breakable
  <1>1. faults' \in 0..MaxFaults
    BY FaultAssumption DEF TypeOK, Fault
  <1> QED
    BY <1>1 DEF TypeOK, Fault

\* The cleanup on top of the stack.
LEMMA TopCleanup ==
    ASSUME TypeOK, cleanups # <<>>
    PROVE  /\ Popped.undo \in Undo
           /\ Popped.backup \subseteq Full
           /\ Tail(cleanups) \in Seq(Cleanup)
  <1>1. cleanups \in Seq(Cleanup)
    BY DEF TypeOK
  <1>2. Popped \in Cleanup /\ Tail(cleanups) \in Seq(Cleanup)
    BY <1>1, Pop DEF Popped
  <1> QED
    BY <1>2 DEF Cleanup

-----------------------------------------------------------------------------
\* What only the type invariant needs to know of a step of the runner.
LEMMA TypeStep ==
    ASSUME TypeOK, [Next]_vars
    PROVE  TypeOK'
  <1> USE DEF TypeOK
  <1>0. Current \in SpecNames /\ Steps \in Seq(Step)
    BY CurrentProgram
  <1>1. CASE ExpectStep
    BY <1>1 DEF ExpectStep, AtStep, Advance, EndAs, cluster, operator, Outcome
  <1>2. CASE AwaitStep
    BY <1>0, <1>2 DEF AwaitStep, AtStep, Advance, cluster, operator
  <1>3. CASE TimeOut
    BY <1>3 DEF TimeOut, EndAs, cluster, operator, Outcome
  <1>4. CASE DeferStep
    <2>1. Arg \in Undo
      BY <1>0, <1>4, Deferred DEF DeferStep, AtStep, Arg
    <2>2. cleanups' \in Seq(Cleanup)
      <3>1. [undo |-> Arg, backup |-> infra] \in Cleanup
        BY <2>1 DEF Cleanup
      <3> QED
        BY <1>4, <3>1, Push DEF DeferStep
    <2> QED
      BY <1>4, <2>2 DEF DeferStep, Advance, cluster, operator
  <1>5. CASE SkipIfDenied
    BY <1>5 DEF SkipIfDenied, EndAs, cluster, operator, Outcome
  <1>6. CASE RemoveFD \/ RemoveVC
    <2>1. PICK op, what : Remove(op, what)
      BY <1>6 DEF RemoveFD, RemoveVC
    <2>2. infra' \subseteq Full /\ synced' \in BOOLEAN /\ pc' \in Nat \ {0}
      <3>1. infra' = infra \ {what} /\ synced' = FALSE /\ pc' = pc + 1
        BY <2>1 DEF Remove, Advance
      <3>2. infra' \subseteq Full
        BY <3>1, infra \subseteq Full, Zenon
      <3>3. synced' \in BOOLEAN
        BY <3>1, Zenon
      <3>4. pc' \in Nat \ {0}
        BY <3>1
      <3> QED
        BY <3>2, <3>3, <3>4
    <2>3. UNCHANGED <<plan, policy, volumes, namespaces, force, tag, orphan, counted, at, phase,
                      verdict, cleanups, results, early, listed, broken, faults>>
      BY <2>1 DEF Remove, Advance
    <2> QED
      BY <2>2, <2>3
  <1>7. CASE CreateVolume \/ DeleteVolume \/ CreateNamespace \/ SmokeTest \/ ForceCleanup
    <2>1. /\ volumes' \subseteq volumes \cup {Current} /\ namespaces' \subseteq namespaces \cup {Current}
          /\ listed' \subseteq listed \cup {Current}
      BY <1>7 DEF CreateVolume, DeleteVolume, CreateNamespace, SmokeTest, Placements, ForceCleanup
    <2>2. force' \in BOOLEAN /\ UNCHANGED <<plan, policy, infra, operator, at, phase, verdict, cleanups,
                                           results, early, broken, faults>> /\ pc' = pc + 1
      BY <1>7 DEF CreateVolume, DeleteVolume, CreateNamespace, SmokeTest, ForceCleanup, Advance
    <2> QED
      BY <1>0, <2>1, <2>2 DEF operator
  <1>8. CASE Scrape
    BY <1>8 DEF Scrape, Advance, cluster
  <1>9. CASE EndOfBody
    BY <1>9 DEF EndOfBody, EndAs, cluster, operator, Outcome
  <1>10. CASE Restore \/ CleanVolume \/ CleanNamespace \/ CleanForce
    <2>1. cleanups # <<>> /\ cleanups' = Tail(cleanups)
      BY <1>10 DEF Restore, CleanVolume, CleanNamespace, CleanForce, Cleaning, Rest
    <2>2. /\ cleanups' \in Seq(Cleanup)
          /\ Popped.backup \subseteq Full
      BY <2>1, TopCleanup
    <2>3. /\ infra' \subseteq Full /\ volumes' \subseteq SpecNames /\ namespaces' \subseteq SpecNames
          /\ force' \in BOOLEAN /\ synced' \in BOOLEAN
      BY <1>10, <2>2 DEF Restore, CleanVolume, CleanNamespace, CleanForce, operator
    <2> QED
      BY <1>10, <2>2, <2>3 DEF Restore, CleanVolume, CleanNamespace, CleanForce, operator
  <1>11. CASE NextSpec
    BY <1>11 DEF NextSpec, cluster, operator, Outcome
  <1>12. CASE AfterAll
    <2>1. /\ volumes' \subseteq volumes /\ namespaces' \subseteq namespaces /\ listed' = {}
          /\ UNCHANGED <<broken, faults>> \/ Fault({"namespace"})
      BY <1>12 DEF AfterAll
    <2>2. broken' \subseteq Breakable /\ faults' \in 0..MaxFaults
      <3>1. CASE UNCHANGED <<broken, faults>>
        BY <3>1
      <3>2. CASE Fault({"namespace"})
        BY <3>2, FaultType DEF Breakable
      <3> QED
        BY <2>1, <3>1, <3>2
    <2> QED
      BY <1>12, <2>1, <2>2 DEF AfterAll, operator
  <1>13. CASE AfterSuite
    <2>1. CASE infra' = Full /\ synced' = (synced /\ infra = Full) /\ UNCHANGED <<broken, faults>>
      BY <1>13, <2>1 DEF AfterSuite
    <2>2. CASE Fault({"suite"}) /\ UNCHANGED <<infra, synced>>
      BY <1>13, <2>2, FaultType DEF AfterSuite, Breakable
    <2> QED
      BY <1>13, <2>1, <2>2 DEF AfterSuite
  <1>14. CASE StepFails
    <2>1. verdict' \in Outcome /\ phase' = "cleanup" /\ pc' = pc
      BY <1>14 DEF StepFails, CreatedInVain, EndAs, Outcome
    <2>3. Fault({}) \/ Fault({"unforce"}) \/ Fault({"namespace"})
      BY <1>14 DEF StepFails, CreatedInVain
    <2>4. faults' \in 0..MaxFaults /\ broken' \subseteq Breakable
      BY <2>3, FaultType DEF Breakable, Undo
    <2>2. infra' \subseteq Full /\ force' \in BOOLEAN /\ synced' \in BOOLEAN
      BY <1>14 DEF StepFails, cluster
    <2>5. volumes' \subseteq SpecNames /\ namespaces' \subseteq SpecNames /\ listed' \subseteq SpecNames
      BY <1>0, <1>14 DEF StepFails, CreatedInVain, Placements, cluster
    <2> QED
      BY <1>14, <2>1, <2>2, <2>4, <2>5 DEF StepFails
  <1>15. CASE CleanupFails
    <2>1. cleanups # <<>> /\ cleanups' = Tail(cleanups)
      BY <1>15 DEF CleanupFails, Cleaning, Rest
    <2>2. /\ cleanups' \in Seq(Cleanup)
          /\ Popped.backup \subseteq Full /\ Popped.undo \in Undo
      BY <2>1, TopCleanup
    <2>3. infra' \subseteq Full /\ synced' \in BOOLEAN /\ verdict' \in Outcome
      BY <1>15, <2>2 DEF CleanupFails, Outcome
    <2>4. Fault({Popped.undo}) \/ Fault({})
      BY <1>15 DEF CleanupFails
    <2>5. faults' \in 0..MaxFaults /\ broken' \subseteq Breakable
      BY <2>2, <2>4, FaultType DEF Breakable
    <2> QED
      BY <1>15, <2>2, <2>3, <2>5 DEF CleanupFails
  <1>16. CASE Reconcile
    BY <1>16 DEF Reconcile, Wanted, Observed, Events, cluster, runner
  <1>17. CASE UNCHANGED vars
    BY <1>17 DEF vars, cluster, operator, runner
  <1> QED
    BY <1>1, <1>2, <1>3, <1>4, <1>5, <1>6, <1>7, <1>8, <1>9, <1>10, <1>11, <1>12, <1>13, <1>14, <1>15, <1>16, <1>17
    DEF Next, Runner, SpecStep, CleanupStep, Failure

-----------------------------------------------------------------------------
\* The next step registers the removal of what the last one has made.
RemovalNext == NextIs(Defer("unforce")) \/ NextIs(Defer("deleteNamespace"))

\* A step of the body that registers no cleanup.  It may take something out of
\* Infrastructure when a restore is registered, and set the annotation or create
\* a namespace when its removal is registered next, or never will be.
LEMMA BodyKeeps ==
    ASSUME TypeOK, Bookkeeping, phase = "run",
           UNCHANGED <<plan, at, cleanups>>,
           broken \subseteq broken', listed \subseteq listed',
           infra' # Full => infra # Full \/ Registered,
           \/ phase' = "run" /\ pc' = pc + 1 /\ pc <= Len(Steps) /\ Steps[pc].op # "defer"
           \/ phase' = "cleanup" /\ pc' = pc /\ ~RemovalNext,
           force' => force \/ "unforce" \in broken' \/ NextIs(Defer("unforce"))',
           \A s \in namespaces' :
              s \in namespaces \/ s \in listed' \/ "namespace" \in broken'
                \/ (s = Current /\ NextIs(Defer("deleteNamespace"))')
    PROVE  Bookkeeping'
  <1>0. Steps' = Steps /\ Steps \in Seq(Step) /\ pc \in Nat \ {0} /\ pc' \in Nat \ {0}
    BY CurrentProgram DEF Steps, Current, TypeOK
  <1>1. \A undo : Pending(undo)' <=> Pending(undo)
    BY DEF Pending
  <1>2. phase' = "run" => (Registered' <=> Registered)
    <2>1. CASE phase' = "run" /\ pc' = pc + 1 /\ pc <= Len(Steps) /\ Steps[pc].op # "defer"
      <3>1. Steps[pc] \notin Restores
        BY <2>1 DEF Restores, Defer
      <3> QED
        BY <1>0, <2>1, <3>1 DEF Registered
    <2> QED
      BY <2>1
  <1>3. BackupsFull'
    BY DEF Bookkeeping, BackupsFull
  <1>4. RestorePending'
    <2>1. infra' # Full => Pending(RestoreUndo)
      BY DEF Bookkeeping, RestorePending
    <2>2. phase' = "run" => (Registered' <=> Pending(RestoreUndo))
      BY <1>2 DEF Bookkeeping, RestorePending
    <2> QED
      BY <1>1, <2>1, <2>2 DEF RestorePending
  <1>5. ~RemovalNext
    BY DEF RemovalNext, NextIs, Defer
  <1>6. UnforcePending'
    BY <1>1, <1>5 DEF Bookkeeping, UnforcePending, RemovalNext
  <1>7. NamespacePending'
    <2> SUFFICES ASSUME NEW s \in namespaces', s \notin listed', broken' \cap {"namespace", "deleteNamespace"} = {}
                 PROVE  s = Current' /\ (Pending({"deleteNamespace"})' \/ NextIs(Defer("deleteNamespace"))')
      BY DEF NamespacePending
    <2>1. Current' = Current
      BY DEF Current
    <2>2. CASE s \in namespaces
      <3>1. s = Current /\ Pending({"deleteNamespace"})
        BY <1>5, <2>2 DEF Bookkeeping, NamespacePending, RemovalNext
      <3> QED
        BY <1>1, <2>1, <3>1
    <2>3. CASE s \notin namespaces
      BY <2>1, <2>3
    <2> QED
      BY <2>2, <2>3
  <1>8. NothingPending'
    BY <1>0 DEF Bookkeeping, NothingPending
  <1> QED
    BY <1>3, <1>4, <1>6, <1>7, <1>8 DEF Bookkeeping

\* A cleanup is popped: a restore leaves Infrastructure full or the spec failed.
LEMMA PopKeeps ==
    ASSUME TypeOK, Bookkeeping, phase = "cleanup", cleanups # <<>>,
           cleanups' = Tail(cleanups), phase' = phase,
           broken \subseteq broken',
           verdict = "failed" => verdict' = "failed",
           infra' # Full => infra # Full /\ (Popped.undo \in RestoreUndo => verdict' = "failed"),
           force' => force /\ (Popped.undo = "unforce" => "unforce" \in broken'),
           listed' = listed, Current' = Current,
           \A s \in namespaces' : s \in namespaces /\
              (s = Current /\ Popped.undo = "deleteNamespace" => "deleteNamespace" \in broken')
    PROVE  Bookkeeping'
  <1>0. cleanups \in Seq(Cleanup)
    BY DEF TypeOK
  <1>1. /\ Len(cleanups) \in Nat \ {0} /\ Len(cleanups') = Len(cleanups) - 1
        /\ \A i \in 1..Len(cleanups') : cleanups'[i] = cleanups[i + 1]
    BY <1>0, Pop
  <1>2. \A undo : Pending(undo) => Popped.undo \in undo \/ Pending(undo)'
    <2> SUFFICES ASSUME NEW undo, NEW i \in 1..Len(cleanups), cleanups[i].undo \in undo, i # 1
                 PROVE  Pending(undo)'
      BY DEF Pending, Popped
    <2>1. i - 1 \in 1..Len(cleanups') /\ cleanups'[i - 1] = cleanups[i]
      BY <1>1
    <2> QED
      BY <2>1 DEF Pending
  <1>3. BackupsFull'
    BY <1>1 DEF Bookkeeping, BackupsFull
  <1>4. RestorePending'
    BY <1>2 DEF Bookkeeping, RestorePending
  <1>5. UnforcePending'
    BY <1>2 DEF Bookkeeping, UnforcePending, NextIs
  <1>6. NamespacePending'
    BY <1>2 DEF Bookkeeping, NamespacePending, NextIs
  <1>7. NothingPending'
    BY DEF NothingPending
  <1> QED
    BY <1>3, <1>4, <1>5, <1>6, <1>7 DEF Bookkeeping

\* DeferStep: what is pending afterwards.
LEMMA DeferPushes ==
    ASSUME TypeOK, DeferStep
    PROVE  \A undo : Pending(undo)' <=> Arg \in undo \/ Pending(undo)
  <1>0. /\ Steps \in Seq(Step) /\ pc \in 1..Len(Steps) /\ Steps[pc].op = "defer"
        /\ cleanups' = <<[undo |-> Arg, backup |-> infra]>> \o cleanups
    BY CurrentProgram DEF DeferStep, AtStep, TypeOK
  <1>1. Arg \in Undo
    BY <1>0, Deferred DEF Arg
  <1>2. cleanups \in Seq(Cleanup) /\ [undo |-> Arg, backup |-> infra] \in Cleanup
    BY <1>1 DEF TypeOK, Cleanup
  <1>3. /\ Len(cleanups) \in Nat /\ Len(cleanups') = Len(cleanups) + 1
        /\ cleanups'[1].undo = Arg
        /\ \A i \in 1..Len(cleanups) : cleanups'[i + 1] = cleanups[i]
        /\ \A i \in 1..Len(cleanups') : i # 1 => cleanups'[i] = cleanups[i - 1]
    BY <1>0, <1>2, Push
  <1> TAKE undo
  <1>4. ASSUME NEW i \in 1..Len(cleanups'), cleanups'[i].undo \in undo, i # 1
        PROVE  Pending(undo)
    <2>1. i - 1 \in 1..Len(cleanups) /\ cleanups[i - 1].undo \in undo
      BY <1>3, <1>4
    <2> QED
      BY <2>1 DEF Pending
  <1>5. ASSUME NEW i \in 1..Len(cleanups), cleanups[i].undo \in undo
        PROVE  Pending(undo)'
    <2>1. i + 1 \in 1..Len(cleanups') /\ cleanups'[i + 1].undo \in undo
      BY <1>3, <1>5
    <2> QED
      BY <2>1 DEF Pending
  <1>6. Arg \in undo => Pending(undo)'
    BY <1>3 DEF Pending
  <1>7. Pending(undo)' => Arg \in undo \/ Pending(undo)
    BY <1>3, <1>4 DEF Pending
  <1>8. Pending(undo) => Pending(undo)'
    BY <1>5 DEF Pending
  <1> QED
    BY <1>6, <1>7, <1>8

\* DeferStep: a spec registers a restore once, while Infrastructure is full.
LEMMA DeferKeeps ==
    ASSUME TypeOK, Bookkeeping, DeferStep
    PROVE  Bookkeeping'
  <1>0. /\ Steps' = Steps /\ Steps \in Seq(Step) /\ Scoped(Steps)
        /\ phase = "run" /\ phase' = "run" /\ pc \in 1..Len(Steps) /\ pc' = pc + 1
        /\ Steps[pc].op = "defer" /\ infra' = infra /\ force' = force /\ broken' = broken
        /\ UNCHANGED <<namespaces, listed>> /\ Current' = Current
        /\ cleanups' = <<[undo |-> Arg, backup |-> infra]>> \o cleanups
    BY CurrentProgram DEF DeferStep, AtStep, Advance, Steps, Current, TypeOK, cluster
  <1>1. /\ Arg \in Undo
        /\ Arg \in RestoreUndo <=> Steps[pc] \in Restores
        /\ \A v \in Undo : Arg = v <=> Steps[pc] = Defer(v)
    BY <1>0, Deferred DEF Arg
  <1>2. cleanups \in Seq(Cleanup) /\ [undo |-> Arg, backup |-> infra] \in Cleanup
    BY <1>1 DEF TypeOK, Cleanup
  <1>3. /\ Len(cleanups) \in Nat /\ Len(cleanups') = Len(cleanups) + 1
        /\ cleanups'[1].undo = Arg /\ cleanups'[1].backup = infra
        /\ \A i \in 1..Len(cleanups) : cleanups'[i + 1] = cleanups[i]
        /\ \A i \in 1..Len(cleanups') : i # 1 => cleanups'[i] = cleanups[i - 1]
    BY <1>0, <1>2, Push
  <1>4. \A undo : Pending(undo)' <=> Arg \in undo \/ Pending(undo)
    BY DeferPushes
  <1>5. Registered' <=> Steps[pc] \in Restores \/ Registered
    BY <1>0 DEF Registered
  <1>6. Arg \in RestoreUndo => infra = Full
    <2>1. Steps[pc] \in Restores => ~Registered
      BY <1>0 DEF Scoped, Registered
    <2> QED
      BY <1>0, <1>1, <2>1 DEF Bookkeeping, RestorePending
  <1>7. BackupsFull'
    <2> SUFFICES ASSUME NEW i \in 1..Len(cleanups'), cleanups'[i].undo \in RestoreUndo
                 PROVE  cleanups'[i].backup = Full
      BY DEF BackupsFull
    <2>1. CASE i = 1
      BY <1>3, <1>6, <2>1
    <2>2. CASE i # 1
      <3>1. i - 1 \in 1..Len(cleanups) /\ cleanups'[i] = cleanups[i - 1]
        BY <1>3, <2>2
      <3> QED
        BY <3>1 DEF Bookkeeping, BackupsFull
    <2> QED
      BY <2>1, <2>2
  <1>8. RestorePending'
    BY <1>0, <1>1, <1>4, <1>5 DEF Bookkeeping, RestorePending
  <1>9. UnforcePending'
    <2>1. NextIs(Defer("unforce")) => Pending({"unforce"})'
      BY <1>1, <1>4 DEF NextIs, Undo
    <2> QED
      BY <1>0, <1>4, <2>1 DEF Bookkeeping, UnforcePending
  <1>10. NamespacePending'
    <2>1. NextIs(Defer("deleteNamespace")) => Pending({"deleteNamespace"})'
      BY <1>1, <1>4 DEF NextIs, Undo
    <2> QED
      BY <1>0, <1>4, <2>1 DEF Bookkeeping, NamespacePending
  <1>11. NothingPending'
    BY <1>0 DEF NothingPending
  <1> QED
    BY <1>7, <1>8, <1>9, <1>10, <1>11 DEF Bookkeeping

\* Where a step takes something out of Infrastructure, a restore is registered.
LEMMA RemovalIsScoped ==
    ASSUME TypeOK, AtStep("removeFD") \/ AtStep("removeVC")
    PROVE  Registered
  <1>1. Scoped(Steps) /\ pc \in 1..Len(Steps) /\ Steps[pc].op \in {"removeFD", "removeVC"}
    BY CurrentProgram DEF TypeOK, AtStep
  <1> QED
    BY <1>1 DEF Scoped, Registered

\* A step of another kind is not the registration of a removal.
LEMMA NotDefer ==
    ASSUME NEW op, op # "defer", AtStep(op)
    PROVE  ~RemovalNext /\ Steps[pc].op # "defer" /\ phase = "run" /\ pc <= Len(Steps)
  BY DEF AtStep, RemovalNext, NextIs, Defer

\* Every step keeps what is changed and the cleanups on the stack together.
LEMMA BookkeepingStep ==
    ASSUME TypeOK, Bookkeeping, [Next]_vars
    PROVE  Bookkeeping'
  <1>1. CASE ExpectStep
    BY <1>1, NotDefer, BodyKeeps DEF ExpectStep, Advance, EndAs, cluster
  <1>2. CASE AwaitStep
    BY <1>2, NotDefer, BodyKeeps DEF AwaitStep, Advance, cluster
  <1>3. CASE TimeOut
    <2>1. ~RemovalNext /\ phase = "run"
      BY <1>3, NotDefer DEF TimeOut, Hopeless
    <2> QED
      BY <1>3, <2>1, BodyKeeps DEF TimeOut, EndAs, cluster
  <1>4. CASE DeferStep
    BY <1>4, DeferKeeps
  <1>5. CASE SkipIfDenied
    BY <1>5, NotDefer, BodyKeeps DEF SkipIfDenied, EndAs, cluster
  <1>6. CASE RemoveFD \/ RemoveVC
    <2>1. PICK op \in {"removeFD", "removeVC"}, what \in Full : Remove(op, what)
      BY <1>6 DEF RemoveFD, RemoveVC, Full
    <2>2. Registered /\ Steps[pc].op # "defer" /\ phase = "run" /\ pc <= Len(Steps)
      BY <2>1, RemovalIsScoped, NotDefer DEF Remove
    <2> QED
      BY <2>1, <2>2, BodyKeeps DEF Remove, Advance
  <1>7. CASE CreateVolume \/ DeleteVolume \/ SmokeTest
    <2>1. phase = "run" /\ pc <= Len(Steps) /\ Steps[pc].op # "defer"
      BY <1>7, NotDefer DEF CreateVolume, DeleteVolume, SmokeTest
    <2>2. /\ phase' = "run" /\ pc' = pc + 1 /\ UNCHANGED <<plan, at, cleanups, broken, infra, force>>
          /\ listed \subseteq listed' /\ \A s \in namespaces' : s \in namespaces \/ s \in listed'
      BY <1>7, <2>1 DEF CreateVolume, DeleteVolume, SmokeTest, Advance
    <2> QED
      BY <2>1, <2>2, BodyKeeps
  <1>8. CASE CreateNamespace
    <2>1. /\ Steps[pc].op = "namespace" /\ phase = "run" /\ pc \in 1..Len(Steps) /\ Scoped(Steps) /\ Steps' = Steps
          /\ phase' = "run" /\ pc' = pc + 1 /\ UNCHANGED <<plan, at, cleanups, broken, infra, force, listed>>
          /\ \A s \in namespaces' : s \in namespaces \/ s = Current
      BY <1>8, CurrentProgram DEF CreateNamespace, AtStep, TypeOK, Steps, Current, Advance
    <2>2. NextIs(Defer("deleteNamespace"))'
      BY <2>1, CurrentProgram DEF NextIs, Scoped, FollowedBy, Defer
    <2> QED
      BY <2>1, <2>2, BodyKeeps
  <1>9. CASE ForceCleanup
    <2>1. Steps[pc].op # "defer" /\ phase = "run" /\ pc \in 1..Len(Steps) /\ Scoped(Steps) /\ Steps' = Steps
      BY <1>9, NotDefer, CurrentProgram DEF ForceCleanup, AtStep, TypeOK, Steps, Current
    <2>2. NextIs(Defer("unforce"))'
      BY <1>9, <2>1, CurrentProgram DEF ForceCleanup, AtStep, Advance, NextIs, Scoped, FollowedBy, Defer
    <2> QED
      BY <1>9, <2>1, <2>2, BodyKeeps DEF ForceCleanup, Advance
  <1>10. CASE Scrape
    BY <1>10, NotDefer, BodyKeeps DEF Scrape, Advance, cluster
  <1>11. CASE EndOfBody
    <2>1. ~RemovalNext
      BY <1>11, CurrentProgram DEF EndOfBody, RemovalNext, NextIs, TypeOK
    <2> QED
      BY <1>11, <2>1, BodyKeeps DEF EndOfBody, EndAs, cluster
  <1>12. CASE StepFails
    <2>1. ~RemovalNext
      BY <1>12 DEF StepFails, RemovalNext, NextIs, AtStep, Arg, Defer, RestoreUndo
    <2>2. infra' # Full => infra # Full \/ Registered
      BY <1>12, RemovalIsScoped DEF StepFails, cluster
    <2>3. force' => force \/ "unforce" \in broken'
      BY <1>12 DEF StepFails, cluster, Fault
    <2>4. broken \subseteq broken'
      BY <1>12 DEF StepFails, CreatedInVain, Fault
    <2>5. phase = "run" /\ phase' = "cleanup" /\ pc' = pc /\ UNCHANGED <<plan, at, cleanups>>
      BY <1>12 DEF StepFails, CreatedInVain, EndAs
    <2>6. /\ listed \subseteq listed'
          /\ \A s \in namespaces' : s \in namespaces \/ s \in listed' \/ "namespace" \in broken'
      BY <1>12 DEF StepFails, CreatedInVain, cluster, Fault
    <2> QED
      BY <2>1, <2>2, <2>3, <2>4, <2>5, <2>6, BodyKeeps
  <1>13. CASE Restore
    <2>1. cleanups # <<>> /\ Popped.undo \in RestoreUndo /\ phase = "cleanup"
      BY <1>13 DEF Restore, Cleaning
    <2>2. infra' = Full
      <3>1. 1 \in 1..Len(cleanups)
        BY <2>1 DEF TypeOK
      <3> QED
        BY <1>13, <2>1, <3>1 DEF Restore, Popped, Bookkeeping, BackupsFull
    <2>3. Popped.undo # "unforce" /\ Popped.undo # "deleteNamespace"
      BY <2>1 DEF RestoreUndo
    <2> QED
      BY <1>13, <2>1, <2>2, <2>3, PopKeeps DEF Restore, Rest, Current
  <1>14. CASE CleanVolume \/ CleanNamespace
    <2>1. /\ Popped.undo \in {"deleteVolume", "deleteNamespace"} /\ cleanups # <<>> /\ phase = "cleanup"
          /\ cleanups' = Tail(cleanups)
      BY <1>14 DEF CleanVolume, CleanNamespace, Cleaning, Rest
    <2>2. /\ \A s \in namespaces' : s \in namespaces /\ (Popped.undo = "deleteNamespace" => s # Current)
          /\ UNCHANGED <<infra, force, listed, broken, verdict, phase>> /\ Current' = Current
      BY <1>14 DEF CleanVolume, CleanNamespace, Cleaning, Current
    <2> QED
      BY <2>1, <2>2, PopKeeps DEF RestoreUndo
  <1>15. CASE CleanForce
    <2>1. Popped.undo = "unforce" /\ cleanups # <<>> /\ phase = "cleanup"
      BY <1>15 DEF CleanForce, Cleaning
    <2> QED
      BY <1>15, <2>1, PopKeeps DEF CleanForce, Rest, RestoreUndo, Current
  <1>16. CASE CleanupFails
    <2>1. cleanups # <<>> /\ phase = "cleanup" /\ cleanups' = Tail(cleanups)
      BY <1>16 DEF CleanupFails, Cleaning, Rest
    <2>2. Popped.undo \in RestoreUndo => verdict' = "failed"
      BY <1>16, <2>1 DEF CleanupFails, Cleaning
    <2>3. infra' # Full => infra # Full
      <3>1. 1 \in 1..Len(cleanups)
        BY <2>1 DEF TypeOK
      <3> QED
        BY <1>16, <3>1 DEF CleanupFails, Cleaning, Popped, RestoreUndo, Bookkeeping, BackupsFull
    <2>4. \A u \in {"unforce", "deleteNamespace"} : Popped.undo = u => u \in broken'
      BY <1>16 DEF CleanupFails, Cleaning, Fault
    <2>5. /\ broken \subseteq broken' /\ force' = force /\ phase' = phase /\ (verdict = "failed" => verdict' = "failed")
          /\ UNCHANGED <<namespaces, listed>> /\ Current' = Current
      BY <1>16 DEF CleanupFails, Fault, Current
    <2> QED
      BY <2>1, <2>2, <2>3, <2>4, <2>5, PopKeeps
  <1>17. CASE NextSpec
    <2>1. /\ phase = "cleanup" /\ cleanups = <<>> /\ cleanups' = <<>>
          /\ UNCHANGED <<infra, force, broken, namespaces, listed>>
          /\ \/ phase' = "afterAll"
             \/ phase' = "run" /\ pc' = 1 /\ verdict # "failed"
      BY <1>17 DEF NextSpec, cluster
    <2>2. \A undo : ~Pending(undo) /\ ~Pending(undo)'
      BY <2>1 DEF Pending
    <2>3. phase' = "run" => ~Registered'
      BY <2>1 DEF Registered
    <2>4. BackupsFull' /\ NothingPending'
      BY <2>1 DEF BackupsFull, NothingPending
    <2>5. RestorePending'
      BY <2>1, <2>2, <2>3 DEF Bookkeeping, RestorePending
    <2>6. UnforcePending'
      BY <2>1, <2>2 DEF Bookkeeping, UnforcePending, NextIs
    <2>7. NamespacePending'
      BY <2>1, <2>2 DEF Bookkeeping, NamespacePending, NextIs
    <2> QED
      BY <2>4, <2>5, <2>6, <2>7 DEF Bookkeeping
  <1>18. CASE AfterAll \/ AfterSuite
    <2>1. /\ cleanups' = cleanups /\ phase \in {"afterAll", "afterSuite"}
          /\ phase' \in {"afterSuite", "done"} /\ force' = force /\ broken \subseteq broken'
      BY <1>18 DEF AfterAll, AfterSuite, Fault
    <2>2. cleanups = <<>> /\ listed' = {}
      BY <1>18, <2>1 DEF Bookkeeping, NothingPending, AfterAll, AfterSuite
    <2>3. BackupsFull' /\ NothingPending' /\ RestorePending'
      BY <2>1, <2>2 DEF BackupsFull, NothingPending, RestorePending
    <2>4. \A undo : ~Pending(undo)
      BY <2>2 DEF Pending
    <2>5. UnforcePending'
      BY <2>1, <2>4 DEF Bookkeeping, UnforcePending, NextIs
    <2>6. NamespacePending'
      <3>1. \A s \in namespaces : s \in listed \/ broken \cap {"namespace", "deleteNamespace"} # {}
        BY <2>1, <2>4 DEF Bookkeeping, NamespacePending, NextIs
      <3>2. \A s \in namespaces' : s \in namespaces /\ (s \in listed => "namespace" \in broken')
        BY <1>18, <2>1 DEF AfterAll, AfterSuite, Fault, Bookkeeping, NothingPending
      <3> QED
        BY <2>1, <3>1, <3>2 DEF NamespacePending
    <2> QED
      BY <2>3, <2>5, <2>6 DEF Bookkeeping
  <1>19. CASE Reconcile \/ UNCHANGED vars
    <2>1. UNCHANGED <<plan, at, pc, phase, verdict, cleanups, infra, force, namespaces, listed, broken>>
      BY <1>19 DEF Reconcile, vars, cluster, runner
    <2> QED
      BY <2>1 DEF Bookkeeping, BackupsFull, RestorePending, UnforcePending, NamespacePending, NextIs, NothingPending,
                  Pending, Registered, Steps, Current
  <1> QED
    BY <1>1, <1>2, <1>3, <1>4, <1>5, <1>6, <1>7, <1>8, <1>9, <1>10, <1>11, <1>12, <1>13, <1>14,
       <1>15, <1>16, <1>17, <1>18, <1>19
    DEF Next, Runner, SpecStep, CleanupStep, Failure

-----------------------------------------------------------------------------
\* A volume that is handled before a step is handled after it, unless the step
\* deletes it.
LEMMA StaysHandled ==
    ASSUME NEW prog \in Seq(Step), NEW k \in 1..Len(prog), VolumeHandled(prog, k),
           prog[k] # Do("deleteVolume")
    PROVE  VolumeHandled(prog, k + 1)
  <1>1. CASE \E j \in 1..Len(prog) : j < k /\ prog[j] = Defer("deleteVolume")
    BY <1>1 DEF VolumeHandled
  <1>2. CASE \E j \in 1..Len(prog) :
                 /\ j >= k /\ prog[j] \in Removals
                 /\ \A i \in 1..Len(prog) : i >= k /\ i <= j => prog[i].op \notin MaySkip
    <2>1. PICK j \in 1..Len(prog) :
                 /\ j >= k /\ prog[j] \in Removals
                 /\ \A i \in 1..Len(prog) : i >= k /\ i <= j => prog[i].op \notin MaySkip
      BY <1>2
    <2>2. CASE j = k
      BY <2>1, <2>2 DEF VolumeHandled, Removals
    <2>3. CASE j # k
      <3>1. j >= k + 1 /\ \A i \in 1..Len(prog) : i >= k + 1 /\ i <= j => prog[i].op \notin MaySkip
        BY <2>1, <2>3
      <3> QED
        BY <2>1, <3>1 DEF VolumeHandled
    <2> QED
      BY <2>2, <2>3
  <1> QED
    BY <1>1, <1>2 DEF VolumeHandled

\* A spec that goes on with its body, registering nothing.
LEMMA VolumeBody ==
    ASSUME TypeOK, VolumeInv, phase = "run", phase' = "run", pc' = pc + 1,
           pc <= Len(Steps), Steps[pc].op # "defer",
           UNCHANGED <<plan, policy, at, cleanups>>, broken \subseteq broken',
           volumes' \subseteq namespaces', namespaces \subseteq namespaces',
           Steps[pc].op = "namespace" => Current \in namespaces',
           volumes' \subseteq volumes \/ (volumes' \subseteq volumes \cup {Current} /\ Steps[pc].op \in Fills),
           Steps[pc] = Do("deleteVolume") => Current \notin volumes',
           policy => infra' = infra /\ Steps[pc].op # "removeFD"
    PROVE  VolumeInv'
  <1>0. /\ Steps' = Steps /\ Steps \in Seq(Step) /\ Scoped(Steps) /\ pc \in 1..Len(Steps)
        /\ Current' = Current
    BY CurrentProgram DEF Steps, Current, TypeOK
  <1>1. Steps[pc] # Defer("deleteVolume")
    BY DEF Defer
  <1>2. VolumePending'
    BY <1>0, <1>1 DEF VolumeInv, VolumePending, Pending
  <1>3. NothingDenied' /\ NamespaceThere'
    BY <1>0 DEF VolumeInv, NothingDenied, NamespaceThere
  <1>4. VolumeOwned'
    <2> SUFFICES ASSUME ~policy, "deleteVolume" \notin broken
                 PROVE  volumes' \subseteq {Current} /\ (volumes' # {} => VolumeHandled(Steps, pc + 1))
      BY <1>0 DEF VolumeOwned
    <2>1. volumes \subseteq {Current} /\ (volumes # {} => VolumeHandled(Steps, pc))
      BY DEF VolumeInv, VolumeOwned
    <2>2. CASE volumes' \subseteq volumes
      BY <1>0, <2>1, <2>2, StaysHandled
    <2>3. CASE volumes' \subseteq volumes \cup {Current} /\ Steps[pc].op \in Fills
      BY <1>0, <2>1, <2>3 DEF Scoped
    <2> QED
      BY <2>2, <2>3
  <1> QED
    BY <1>2, <1>3, <1>4 DEF VolumeInv

\* The body ends: with a failure, with the removal denied, or where it may with
\* the volume's removal registered.
LEMMA VolumeEnds ==
    ASSUME TypeOK, VolumeInv, phase = "run", phase' = "cleanup",
           UNCHANGED <<plan, policy, at, cleanups>>, broken \subseteq broken',
           volumes' \subseteq namespaces', volumes' \subseteq volumes \cup {Current},
           \/ verdict' = "failed"
           \/ policy
           \/ volumes' \subseteq volumes /\ (pc > Len(Steps) \/ Steps[pc].op \in MaySkip)
    PROVE  VolumeInv'
  <1>0. Steps \in Seq(Step) /\ pc \in Nat \ {0} /\ Current' = Current
    BY CurrentProgram DEF Current, TypeOK
  <1>1. VolumePending' /\ NothingDenied' /\ NamespaceThere'
    BY DEF VolumePending, NothingDenied, NamespaceThere
  <1>2. VolumeOwned'
    <2> SUFFICES ASSUME ~policy, "deleteVolume" \notin broken
                 PROVE  /\ volumes' \subseteq {Current}
                        /\ volumes' # {} => verdict' = "failed" \/ Pending({"deleteVolume"})
      BY <1>0 DEF VolumeOwned, Pending
    <2>1. volumes \subseteq {Current} /\ (volumes # {} => VolumeHandled(Steps, pc))
      BY DEF VolumeInv, VolumeOwned
    <2>2. ASSUME VolumeHandled(Steps, pc), pc > Len(Steps) \/ Steps[pc].op \in MaySkip
          PROVE  Pending({"deleteVolume"})
      <3>1. \E j \in 1..Len(Steps) : j < pc /\ Steps[j] = Defer("deleteVolume")
        BY <1>0, <2>2 DEF VolumeHandled
      <3> QED
        BY <3>1 DEF VolumeInv, VolumePending
    <2> QED
      BY <2>1, <2>2
  <1> QED
    BY <1>1, <1>2 DEF VolumeInv

\* A cleanup is popped: the volume's removal removes it or is known to have failed.
LEMMA VolumePop ==
    ASSUME TypeOK, VolumeInv, phase = "cleanup", phase' = "cleanup", cleanups # <<>>,
           cleanups' = Tail(cleanups), UNCHANGED policy, Current' = Current, broken \subseteq broken',
           verdict = "failed" => verdict' = "failed",
           volumes' \subseteq namespaces', volumes' \subseteq volumes,
           Popped.undo = "deleteVolume" => Current \notin volumes' \/ "deleteVolume" \in broken'
    PROVE  VolumeInv'
  <1>0. cleanups \in Seq(Cleanup)
    BY DEF TypeOK
  <1>1. /\ Len(cleanups) \in Nat \ {0} /\ Len(cleanups') = Len(cleanups) - 1
        /\ \A i \in 1..Len(cleanups') : cleanups'[i] = cleanups[i + 1]
    BY <1>0, Pop
  <1>2. Pending({"deleteVolume"}) => Popped.undo = "deleteVolume" \/ Pending({"deleteVolume"})'
    <2> SUFFICES ASSUME NEW i \in 1..Len(cleanups), cleanups[i].undo = "deleteVolume", i # 1
                 PROVE  Pending({"deleteVolume"})'
      BY DEF Pending, Popped
    <2>1. i - 1 \in 1..Len(cleanups') /\ cleanups'[i - 1] = cleanups[i]
      BY <1>1
    <2> QED
      BY <2>1 DEF Pending
  <1>3. VolumePending' /\ NothingDenied' /\ NamespaceThere'
    BY DEF VolumePending, NothingDenied, NamespaceThere
  <1>4. VolumeOwned'
    <2> SUFFICES ASSUME ~policy, "deleteVolume" \notin broken'
                 PROVE  /\ volumes' \subseteq {Current}
                        /\ volumes' # {} => verdict' = "failed" \/ Pending({"deleteVolume"})'
      BY DEF VolumeOwned
    <2>1. volumes \subseteq {Current} /\ (volumes # {} => verdict = "failed" \/ Pending({"deleteVolume"}))
      BY DEF VolumeInv, VolumeOwned
    <2> QED
      BY <1>2, <2>1
  <1> QED
    BY <1>3, <1>4 DEF VolumeInv

\* The smoke test's pod is in the namespace of its spec.
LEMMA SmokeInNamespace ==
    ASSUME TypeOK, VolumeInv, AtStep("smoke")
    PROVE  Current \in namespaces
  <1>1. phase = "run" /\ pc \in 1..Len(Steps) /\ Steps[pc].op = "smoke" /\ Scoped(Steps)
    BY CurrentProgram DEF AtStep, TypeOK
  <1>2. PICK j \in 1..Len(Steps) : j < pc /\ Steps[j].op = "namespace"
    BY <1>1 DEF Scoped
  <1> QED
    BY <1>1, <1>2 DEF VolumeInv, NamespaceThere

\* Every step keeps what is said of the volumes.
LEMMA VolumeStep ==
    ASSUME TypeOK, Bookkeeping, Bookkeeping', VolumeInv, [Next]_vars
    PROVE  VolumeInv'
  <1>0. volumes \subseteq namespaces
    BY DEF VolumeInv
  <1>1. CASE ExpectStep \/ AwaitStep \/ CreateVolume \/ DeleteVolume \/ CreateNamespace
             \/ SmokeTest \/ ForceCleanup \/ Scrape \/ RemoveFD \/ RemoveVC
    <2>1. /\ phase = "run" /\ pc <= Len(Steps) /\ Steps[pc].op # "defer"
          /\ UNCHANGED <<plan, policy, at, cleanups>> /\ broken' = broken
      BY <1>1 DEF ExpectStep, AwaitStep, CreateVolume, DeleteVolume, CreateNamespace, SmokeTest,
         ForceCleanup, Scrape, RemoveFD, RemoveVC, Remove, AtStep
    <2>2. \/ phase' = "run" /\ pc' = pc + 1
          \/ phase' = "cleanup" /\ verdict' = "failed" /\ UNCHANGED <<volumes, namespaces>>
      BY <1>1, <2>1 DEF ExpectStep, AwaitStep, CreateVolume, DeleteVolume, CreateNamespace, SmokeTest,
         ForceCleanup, Scrape, RemoveFD, RemoveVC, Remove, Advance, EndAs, cluster
    <2>3. volumes' \subseteq namespaces'
      <3>1. CASE SmokeTest
        BY <1>0, <3>1, SmokeInNamespace DEF SmokeTest, Placements
      <3>2. CASE ~SmokeTest
        BY <1>0, <1>1, <3>2 DEF ExpectStep, AwaitStep, CreateVolume, DeleteVolume, CreateNamespace,
           ForceCleanup, Scrape, RemoveFD, RemoveVC, Remove, cluster
      <3> QED
        BY <3>1, <3>2
    <2>4. volumes' \subseteq volumes \/ (volumes' \subseteq volumes \cup {Current} /\ Steps[pc].op \in Fills)
      BY <1>1 DEF ExpectStep, AwaitStep, CreateVolume, DeleteVolume, CreateNamespace, SmokeTest, Placements,
         ForceCleanup, Scrape, RemoveFD, RemoveVC, Remove, AtStep, Fills, cluster
    <2>5. Steps[pc] = Do("deleteVolume") => Current \notin volumes'
      <3>1. Do("deleteVolume").op = "deleteVolume"
        BY DEF Do
      <3>2. Steps[pc].op = "deleteVolume" => DeleteVolume
        BY <1>1 DEF ExpectStep, AwaitStep, CreateVolume, CreateNamespace, SmokeTest,
           ForceCleanup, Scrape, RemoveFD, RemoveVC, Remove, AtStep
      <3> QED
        BY <3>1, <3>2 DEF DeleteVolume
    <2>6. policy => infra' = infra /\ Steps[pc].op # "removeFD"
      <3> SUFFICES ASSUME policy PROVE infra' = infra /\ Steps[pc].op # "removeFD"
        OBVIOUS
      <3>1. ~RemoveFD
        BY DEF RemoveFD
      <3>2. ~RemoveVC
        <4> SUFFICES ASSUME RemoveVC PROVE FALSE
          OBVIOUS
        <4>1. Steps[pc].op = "removeVC" /\ pc \in 1..Len(Steps) /\ Scoped(Steps)
          BY <2>1, CurrentProgram DEF RemoveVC, Remove, AtStep, TypeOK
        <4>2. PICK j \in 1..Len(Steps) : j < pc /\ Steps[j].op = "removeFD"
          BY <4>1 DEF Scoped
        <4> QED
          BY <2>1, <4>2 DEF VolumeInv, NothingDenied
      <3> QED
        BY <1>1, <3>1, <3>2 DEF ExpectStep, AwaitStep, CreateVolume, DeleteVolume, CreateNamespace, SmokeTest,
           ForceCleanup, Scrape, AtStep, cluster
    <2>9. namespaces \subseteq namespaces' /\ (Steps[pc].op = "namespace" => Current \in namespaces')
      BY <1>1 DEF ExpectStep, AwaitStep, CreateVolume, DeleteVolume, CreateNamespace, SmokeTest,
         ForceCleanup, Scrape, RemoveFD, RemoveVC, Remove, AtStep, cluster
    <2>7. CASE phase' = "run" /\ pc' = pc + 1
      BY <2>1, <2>3, <2>4, <2>5, <2>6, <2>7, <2>9, VolumeBody
    <2>8. CASE phase' = "cleanup" /\ verdict' = "failed" /\ UNCHANGED <<volumes, namespaces>>
      BY <1>0, <2>1, <2>8, VolumeEnds
    <2> QED
      BY <2>2, <2>7, <2>8
  <1>2. CASE TimeOut \/ SkipIfDenied \/ EndOfBody
    <2>1. /\ phase = "run" /\ phase' = "cleanup"
          /\ UNCHANGED <<plan, policy, at, cleanups, broken, volumes, namespaces>>
          /\ verdict' = "failed" \/ policy \/ pc > Len(Steps)
      BY <1>2 DEF TimeOut, Hopeless, SkipIfDenied, EndOfBody, AtStep, EndAs, cluster
    <2> QED
      BY <1>0, <2>1, VolumeEnds
  <1>3. CASE StepFails
    <2>1. /\ phase = "run" /\ phase' = "cleanup" /\ UNCHANGED <<plan, policy, at, cleanups>> /\ broken \subseteq broken'
      BY <1>3 DEF StepFails, CreatedInVain, EndAs, Fault
    <2>2. volumes' \subseteq volumes \cup {Current}
      BY <1>3 DEF StepFails, CreatedInVain, Placements, cluster
    <2>3. \/ verdict' = "failed"
          \/ volumes' = volumes /\ Steps[pc].op \in MaySkip
      BY <1>3 DEF StepFails, CreatedInVain, EndAs, AtStep, MaySkip, cluster
    <2>4. volumes' \subseteq namespaces'
      <3>1. AtStep("smoke") => Current \in namespaces
        BY SmokeInNamespace
      <3> QED
        BY <1>0, <1>3, <3>1 DEF StepFails, CreatedInVain, Placements, cluster
    <2> QED
      BY <2>1, <2>2, <2>3, <2>4, VolumeEnds
  <1>4. CASE DeferStep
    <2>1. /\ Steps' = Steps /\ Steps \in Seq(Step) /\ pc \in 1..Len(Steps) /\ Steps[pc].op = "defer"
          /\ phase = "run" /\ phase' = "run" /\ pc' = pc + 1
          /\ UNCHANGED <<policy, infra, volumes, namespaces, broken>> /\ Current' = Current
      BY <1>4, CurrentProgram DEF DeferStep, AtStep, Advance, Steps, Current, TypeOK, cluster
    <2>2. \A undo : Pending(undo)' <=> Arg \in undo \/ Pending(undo)
      BY <1>4, DeferPushes
    <2>3. Arg = "deleteVolume" <=> Steps[pc] = Defer("deleteVolume")
      BY <2>1, Deferred DEF Arg, Undo
    <2>4. VolumePending'
      BY <2>1, <2>2, <2>3 DEF VolumeInv, VolumePending
    <2>5. NothingDenied' /\ NamespaceThere'
      BY <2>1 DEF VolumeInv, NothingDenied, NamespaceThere
    <2>6. Steps[pc] # Do("deleteVolume")
      <3>1. Do("deleteVolume").op = "deleteVolume"
        BY DEF Do
      <3> QED
        BY <2>1, <3>1
    <2>7. VolumeHandled(Steps, pc) => VolumeHandled(Steps, pc + 1)
      BY <2>1, <2>6, StaysHandled
    <2>8. VolumeOwned'
      BY <2>1, <2>7 DEF VolumeInv, VolumeOwned
    <2> QED
      BY <1>0, <2>1, <2>4, <2>5, <2>8 DEF VolumeInv
  <1>5. CASE Restore \/ CleanVolume \/ CleanNamespace \/ CleanForce \/ CleanupFails
    <2>1. /\ phase = "cleanup" /\ phase' = "cleanup" /\ cleanups # <<>> /\ cleanups' = Tail(cleanups)
          /\ UNCHANGED policy /\ Current' = Current /\ broken \subseteq broken'
          /\ verdict = "failed" => verdict' = "failed"
      BY <1>5 DEF Restore, CleanVolume, CleanNamespace, CleanForce, CleanupFails, Cleaning, Rest, Current, Fault
    <2>2. volumes' \subseteq volumes /\ volumes' \subseteq namespaces'
      BY <1>0, <1>5 DEF Restore, CleanVolume, CleanNamespace, CleanForce, CleanupFails
    <2>3. Popped.undo = "deleteVolume" => Current \notin volumes' \/ "deleteVolume" \in broken'
      BY <1>5 DEF Restore, CleanVolume, CleanNamespace, CleanForce, CleanupFails, Cleaning, RestoreUndo, Fault
    <2> QED
      BY <2>1, <2>2, <2>3, VolumePop
  <1>6. CASE NextSpec
    <2>1. /\ phase = "cleanup" /\ cleanups = <<>> /\ cleanups' = <<>>
          /\ UNCHANGED <<policy, infra, broken, volumes, namespaces>>
          /\ \/ phase' = "afterAll"
             \/ phase' = "run" /\ pc' = 1 /\ verdict # "failed"
      BY <1>6 DEF NextSpec, cluster
    <2>2. ~Pending({"deleteVolume"}) /\ ~Pending(RestoreUndo)
      BY <2>1 DEF Pending
    <2>3. phase' = "run" => infra = Full
      BY <2>1, <2>2 DEF Bookkeeping, RestorePending
    <2>4. VolumePending' /\ NothingDenied' /\ NamespaceThere'
      BY <2>1, <2>3 DEF VolumePending, NothingDenied, NamespaceThere
    <2>5. phase' = "run" /\ ~policy /\ "deleteVolume" \notin broken => volumes = {}
      BY <2>1, <2>2 DEF VolumeInv, VolumeOwned
    <2>6. VolumeOwned'
      BY <2>1, <2>5 DEF VolumeOwned
    <2> QED
      BY <1>0, <2>1, <2>4, <2>6 DEF VolumeInv
  <1>7. CASE AfterAll \/ AfterSuite
    <2>1. phase' \in {"afterSuite", "done"} /\ volumes' \subseteq namespaces'
      BY <1>0, <1>7 DEF AfterAll, AfterSuite
    <2> QED
      BY <2>1 DEF VolumeInv, NamespaceThere, VolumePending, NothingDenied, VolumeOwned
  <1>8. CASE Reconcile \/ UNCHANGED vars
    <2>1. UNCHANGED <<plan, policy, at, pc, phase, verdict, cleanups, infra, volumes, namespaces, broken>>
      BY <1>8 DEF Reconcile, vars, cluster, runner
    <2> QED
      BY <2>1 DEF VolumeInv, NamespaceThere, VolumePending, NothingDenied, VolumeOwned, Pending, Steps, Current
  <1> QED
    BY <1>1, <1>2, <1>3, <1>4, <1>5, <1>6, <1>7, <1>8 DEF Next, Runner, SpecStep, CleanupStep, Failure

-----------------------------------------------------------------------------
\* IInv is an invariant: whatever a spec takes out of Infrastructure or sets
\* has its cleanup on the stack (withInfrastructureRestore, PV-SAFE-03).
THEOREM InductiveInvariant == Spec => []IInv
  <1>1. Init => IInv
    <2> SUFFICES ASSUME Init PROVE IInv
      OBVIOUS
    <2>1. TypeOK
      <3>1. plan \in Selections /\ plan \in Seq(SpecNames) /\ plan # <<>>
        BY SelectionAssumption DEF Init
      <3>2. at \in 1..Len(plan)
        BY <3>1 DEF Init
      <3>3. faults \in 0..MaxFaults
        BY FaultAssumption DEF Init
      <3>4. cleanups \in Seq(Cleanup) /\ results \in Seq(Outcome) /\ pc \in Nat \ {0}
        BY DEF Init
      <3> QED
        BY <3>1, <3>2, <3>3, <3>4 DEF Init, TypeOK, Outcome
    <2>2. \A undo : ~Pending(undo)
      BY DEF Init, Pending
    <2>3. ~Registered
      BY DEF Init, Registered
    <2> QED
      BY <2>1, <2>2, <2>3 DEF Init, IInv, Bookkeeping, BackupsFull, RestorePending, UnforcePending,
         NamespacePending, NothingPending, VolumeInv, NamespaceThere, VolumePending, NothingDenied, VolumeOwned
  <1>2. IInv /\ [Next]_vars => IInv'
    BY TypeStep, BookkeepingStep, VolumeStep DEF IInv
  <1> QED
    BY <1>1, <1>2, PTL DEF Spec

\* A spec starts from the site as `make apply-lab` has left it
\* (restoreInfrastructureOrFail in an Ordered container).
THEOREM CleanStartHolds == Spec => []CleanStart
  <1>1. IInv => CleanStart
    <2> SUFFICES ASSUME IInv, Starting PROVE infra = Full /\ ("unforce" \notin broken => ~force)
      BY DEF CleanStart
    <2>1. cleanups = <<>> /\ phase = "run" /\ pc = 1
      BY DEF IInv, Bookkeeping, NothingPending, Starting
    <2>2. \A undo : ~Pending(undo)
      BY <2>1 DEF Pending
    <2> QED
      BY <2>1, <2>2 DEF IInv, Bookkeeping, RestorePending, UnforcePending, NextIs
  <1> QED
    BY <1>1, InductiveInvariant, PTL

\* A spec that has removed something meets no volume of another spec, whichever
\* specs were selected before it, and whether they failed or skipped themselves
\* (the cleanups of PV-SAFE-01 and the Ordered container).
THEOREM OnlyItsOwnVolume == Spec => []OwnVolumeOnly
  <1>1. IInv => OwnVolumeOnly
    BY DEF IInv, VolumeInv, NothingDenied, VolumeOwned, OwnVolumeOnly
  <1> QED
    BY <1>1, InductiveInvariant, PTL

\* The end of the suite leaves only what it could not delete, or never knew
\* (createTestNamespaceWithCleanup, csiOpTestNS and AfterAll).
THEOREM NothingIsForgotten == Spec => []NothingForgotten
  <1>1. IInv => NothingForgotten
    <2> SUFFICES ASSUME IInv, phase = "done"
                 PROVE  /\ broken \cap {"namespace", "deleteNamespace"} = {} => namespaces = {} /\ volumes = {}
                        /\ "unforce" \notin broken => ~force
      BY DEF NothingForgotten
    <2>1. cleanups = <<>> /\ listed = {}
      BY DEF IInv, Bookkeeping, NothingPending
    <2>2. \A undo : ~Pending(undo)
      BY <2>1 DEF Pending
    <2>3. broken \cap {"namespace", "deleteNamespace"} = {} => namespaces = {}
      BY <2>1, <2>2 DEF IInv, Bookkeeping, NamespacePending, NextIs
    <2>4. volumes \subseteq namespaces
      BY DEF IInv, VolumeInv
    <2>5. "unforce" \notin broken => ~force
      BY <2>2 DEF IInv, Bookkeeping, UnforcePending, NextIs
    <2> QED
      BY <2>3, <2>4, <2>5
  <1> QED
    BY <1>1, InductiveInvariant, PTL

-----------------------------------------------------------------------------
\* The cleanups of PV-SAFE-01, in the order it registers them.
DeleteLast   == [undo |-> "deleteVolume", backup |-> Full]
RestoreFirst == [undo |-> "restore", backup |-> Full]

Safe == Current = "PV-SAFE-01" /\ phase \in {"run", "cleanup"} /\ broken = {}

\* While PV-SAFE-01 runs, nothing forces the operator; the restore of Infrastructure is
\* on top of the removal of the volume; and as long as it is there, the volume is too.
HeldInv ==
    Safe =>
        /\ ~force
        /\ Len(cleanups) <= 2
        /\ Len(cleanups) = 1 => cleanups[1] = DeleteLast
        /\ Len(cleanups) = 2 => cleanups[1] = RestoreFirst /\ cleanups[2] = DeleteLast
        /\ Len(cleanups) = 2 => Current \in volumes
        /\ Len(cleanups) # 2 => infra = Full
        /\ phase = "run" =>
              /\ pc > 1 => Current \in volumes
              /\ pc <= 2 => Len(cleanups) = 0
              /\ pc = 3 => Len(cleanups) = 1
              /\ pc > 3 => Len(cleanups) = 2

\* The steps of PV-SAFE-01.
LEMMA SafeProgram ==
    ASSUME NEW p, p = Specs!PV_SAFE_01
    PROVE  /\ Len(p) = 7
           /\ p[1].op = "volume"
           /\ p[2].op = "defer" /\ p[2].arg = "deleteVolume"
           /\ p[3].op = "defer" /\ p[3].arg = "restore"
           /\ p[4].op = "removeFD"
           /\ p[5].op = "await" /\ p[6].op = "expect" /\ p[7].op = "await"
  <1>1. /\ Len(p) = 7 /\ p[1] = Specs!Do("volume") /\ p[2] = Specs!Defer("deleteVolume")
        /\ p[3] = Specs!Defer("restore") /\ p[4] = Specs!Do("removeFD")
        /\ p[5] = Specs!Await("orphan") /\ p[6] = Specs!Expect("attached") /\ p[7] = Specs!Await("healthy")
    BY DEF Specs!PV_SAFE_01, Specs!RemoveFD
  <1>2. p[1].op = "volume" /\ p[4].op = "removeFD"
    <2>1. \A op : Specs!Do(op).op = op
      BY DEF Specs!Do
    <2> QED
      BY <1>1, <2>1
  <1>3. p[2].op = "defer" /\ p[2].arg = "deleteVolume"
    BY <1>1 DEF Specs!Defer
  <1>4. p[3].op = "defer" /\ p[3].arg = "restore"
    BY <1>1 DEF Specs!Defer
  <1>5. p[5].op = "await" /\ p[7].op = "await"
    BY <1>1 DEF Specs!Await
  <1>6. p[6].op = "expect"
    BY <1>1 DEF Specs!Expect
  <1> QED
    BY <1>1, <1>2, <1>3, <1>4, <1>5, <1>6

\* Which of its steps is which.
LEMMA SafeSteps ==
    ASSUME IInv, Safe, phase = "run", Program["PV-SAFE-01"] = Specs!PV_SAFE_01
    PROVE  /\ pc \in Nat \ {0} /\ Len(Steps) = 7
           /\ \A op \in {"deleteVolume", "namespace", "smoke", "force", "scrape", "removeVC"} : ~AtStep(op)
           /\ AtStep("volume") => pc = 1
           /\ AtStep("defer") => (pc = 2 /\ Arg = "deleteVolume") \/ (pc = 3 /\ Arg = "restore")
           /\ AtStep("removeFD") => pc = 4
           /\ AtStep("await") \/ AtStep("expect") => pc > 4
  <1>1. Steps = Specs!PV_SAFE_01 /\ pc \in Nat \ {0}
    BY DEF Steps, Safe, IInv, TypeOK
  <1> DEFINE p == Steps
  <1>2. /\ Len(p) = 7
        /\ p[1].op = "volume"
        /\ p[2].op = "defer" /\ p[2].arg = "deleteVolume"
        /\ p[3].op = "defer" /\ p[3].arg = "restore"
        /\ p[4].op = "removeFD"
        /\ p[5].op = "await" /\ p[6].op = "expect" /\ p[7].op = "await"
    BY <1>1, SafeProgram
  <1>3. \A op : AtStep(op) => pc \in 1..7 /\ p[pc].op = op
    BY <1>1, <1>2 DEF AtStep
  <1>4. pc \in 1..7 => pc = 1 \/ pc = 2 \/ pc = 3 \/ pc = 4 \/ pc = 5 \/ pc = 6 \/ pc = 7
    BY <1>1
  <1> HIDE DEF p
  <1>5. \A op \in {"deleteVolume", "namespace", "smoke", "force", "scrape", "removeVC"} : ~AtStep(op)
    BY <1>2, <1>3, <1>4
  <1>6. AtStep("volume") => pc = 1
    BY <1>2, <1>3, <1>4
  <1>7. AtStep("defer") => (pc = 2 /\ p[pc].arg = "deleteVolume") \/ (pc = 3 /\ p[pc].arg = "restore")
    BY <1>2, <1>3, <1>4
  <1>8. AtStep("removeFD") => pc = 4
    BY <1>2, <1>3, <1>4
  <1>9. AtStep("await") \/ AtStep("expect") => pc > 4
    BY <1>2, <1>3, <1>4
  <1> QED
    BY <1>1, <1>2, <1>5, <1>6, <1>7, <1>8, <1>9 DEF Arg, p

\* The lengths the stack can have.
LEMMA UpToTwo ==
    ASSUME NEW k \in Nat, k <= 2
    PROVE  k \in {0, 1, 2}
  OBVIOUS

\* What HeldInv says of the present state, and the shape of the stack.
LEMMA SafeStack ==
    ASSUME IInv, HeldInv, Safe
    PROVE  /\ ~force /\ cleanups \in Seq(Cleanup) /\ Len(cleanups) \in {0, 1, 2}
           /\ Len(cleanups) = 0 <=> cleanups = <<>>
           /\ Len(cleanups) = 1 => Popped.undo = "deleteVolume"
           /\ Len(cleanups) = 2 => Popped.undo = "restore" /\ Popped.backup = Full
           /\ Len(cleanups) = 2 => Current \in volumes
           /\ Len(cleanups) # 2 => infra = Full
  <1>1. cleanups \in Seq(Cleanup)
    BY DEF IInv, TypeOK
  <1>2. Len(cleanups) \in Nat /\ Len(cleanups) <= 2
    BY <1>1 DEF HeldInv
  <1>3. Len(cleanups) = 0 <=> cleanups = <<>>
    BY <1>1
  <1>4. Len(cleanups) = 1 => Popped.undo = "deleteVolume"
    BY DEF HeldInv, DeleteLast, Popped
  <1>5. Len(cleanups) = 2 => Popped.undo = "restore" /\ Popped.backup = Full
    BY DEF HeldInv, RestoreFirst, Popped
  <1>6. Len(cleanups) \in {0, 1, 2}
    BY <1>2, UpToTwo
  <1>7. ~force /\ (Len(cleanups) = 2 => Current \in volumes) /\ (Len(cleanups) # 2 => infra = Full)
    BY DEF HeldInv
  <1> QED
    BY <1>1, <1>3, <1>4, <1>5, <1>6, <1>7, Zenon

\* A step that goes on in the body, or ends it, and leaves the stack and the volume.
LEMMA BodyHeld ==
    ASSUME IInv, HeldInv, Safe, phase = "run",
           cleanups' = cleanups, volumes \subseteq volumes', force' = force,
           Current' = Current, pc \in Nat \ {0},
           infra' = infra \/ pc >= 4,
           \/ phase' = "cleanup" /\ pc' = pc
           \/ phase' = "run" /\ pc' = pc + 1 /\ (pc = 1 \/ pc > 3) /\ (pc = 1 => Current \in volumes')
    PROVE  HeldInv'
  <1>1. /\ ~force' /\ Len(cleanups') <= 2
        /\ Len(cleanups') = 1 => cleanups'[1] = DeleteLast
        /\ Len(cleanups') = 2 => cleanups'[1] = RestoreFirst /\ cleanups'[2] = DeleteLast
        /\ Len(cleanups') = 2 => Current \in volumes'
    BY DEF HeldInv
  <1>2. Len(cleanups') # 2 => infra' = Full
    BY DEF HeldInv
  <1>3. phase' = "run" => 
              /\ pc' > 1 => Current \in volumes'
              /\ pc' <= 2 => Len(cleanups') = 0
              /\ pc' = 3 => Len(cleanups') = 1
              /\ pc' > 3 => Len(cleanups') = 2
    BY DEF HeldInv
  <1>4. /\ DeleteLast' = DeleteLast /\ RestoreFirst' = RestoreFirst /\ Full' = Full
    BY DEF DeleteLast, RestoreFirst, Full
  <1> QED
    BY <1>1, <1>2, <1>3, <1>4 DEF HeldInv

\* A step that pops the stack, with Infrastructure full again or full before.
LEMMA PopHeld ==
    ASSUME IInv, HeldInv, Safe, phase = "cleanup", phase' = "cleanup", cleanups # <<>>,
           cleanups' = Tail(cleanups), force' => force, Current' = Current,
           infra' = Full \/ (infra' = infra /\ Len(cleanups) # 2)
    PROVE  HeldInv'
  <1>1. /\ ~force /\ cleanups \in Seq(Cleanup) /\ Len(cleanups) \in {1, 2}
        /\ Len(cleanups) # 2 => infra = Full
    BY SafeStack
  <1>2. /\ Len(cleanups') = Len(cleanups) - 1
        /\ \A i \in 1..Len(cleanups') : cleanups'[i] = cleanups[i + 1]
    BY <1>1, Pop
  <1>3. Len(cleanups') = 0 \/ (Len(cleanups') = 1 /\ cleanups'[1] = DeleteLast)
    BY <1>1, <1>2 DEF HeldInv
  <1>4. infra' = Full
    BY <1>1
  <1>5. /\ DeleteLast' = DeleteLast /\ RestoreFirst' = RestoreFirst /\ Full' = Full
    BY DEF DeleteLast, RestoreFirst, Full
  <1> QED
    BY <1>1, <1>3, <1>4, <1>5 DEF HeldInv

\* PV-SAFE-01 registers the removal of its volume first and the restore on top of it.
LEMMA DeferHeld ==
    ASSUME IInv, HeldInv, Safe, DeferStep, Program["PV-SAFE-01"] = Specs!PV_SAFE_01
    PROVE  HeldInv'
  <1>1. /\ phase = "run" /\ phase' = "run" /\ pc' = pc + 1 /\ AtStep("defer")
        /\ cleanups' = <<[undo |-> Arg, backup |-> infra]>> \o cleanups
        /\ UNCHANGED <<infra, volumes, force>> /\ Current' = Current
    BY DEF DeferStep, AtStep, Advance, cluster, Current
  <1>2. (pc = 2 /\ Arg = "deleteVolume") \/ (pc = 3 /\ Arg = "restore")
    BY <1>1, SafeSteps
  <1> DEFINE e == [undo |-> Arg, backup |-> infra]
  <1>3. cleanups \in Seq(Cleanup) /\ ~force /\ Current \in volumes
        /\ (pc = 2 => Len(cleanups) = 0) /\ (pc = 3 => Len(cleanups) = 1 /\ cleanups[1] = DeleteLast)
    BY <1>1, <1>2, SafeStack DEF HeldInv
  <1>4. infra = Full
    BY <1>2, <1>3, SafeStack
  <1>5. e \in Cleanup
    BY <1>2, <1>4 DEF Cleanup, Undo, Full
  <1>6. /\ pc = 2 => e = DeleteLast
        /\ pc = 3 => e = RestoreFirst
    BY <1>2, <1>4 DEF DeleteLast, RestoreFirst
  <1> HIDE DEF e
  <1>7. /\ Len(cleanups') = Len(cleanups) + 1 /\ cleanups'[1] = e
        /\ \A i \in 1..Len(cleanups) : cleanups'[i + 1] = cleanups[i]
    <2>1. cleanups' = <<e>> \o cleanups
      BY <1>1 DEF e
    <2> QED
      BY <1>3, <1>5, <2>1, Push
  <1>8. /\ pc = 2 => Len(cleanups') = 1 /\ cleanups'[1] = DeleteLast
        /\ pc = 3 => Len(cleanups') = 2 /\ cleanups'[1] = RestoreFirst /\ cleanups'[2] = DeleteLast
    BY <1>3, <1>6, <1>7
  <1>9. /\ DeleteLast' = DeleteLast /\ RestoreFirst' = RestoreFirst /\ Full' = Full
    BY DEF DeleteLast, RestoreFirst, Full
  <1> QED
    BY <1>1, <1>2, <1>3, <1>4, <1>8, <1>9 DEF HeldInv

\* CleanStart, of the state after a step.
LEMMA StartsClean ==
    ASSUME IInv', phase' = "run", pc' = 1, broken' = {}
    PROVE  ~force' /\ infra' = Full
  <1>1. cleanups' = <<>>
    BY DEF IInv, Bookkeeping, NothingPending
  <1>2. \A undo : ~Pending(undo)'
    BY <1>1 DEF Pending
  <1> QED
    BY <1>2 DEF IInv, Bookkeeping, RestorePending, UnforcePending, NextIs

\* Every step of the runner and the operator keeps HeldInv.
LEMMA HeldStep ==
    ASSUME IInv, HeldInv, IInv', Next, Program["PV-SAFE-01"] = Specs!PV_SAFE_01
    PROVE  HeldInv'
  <1> SUFFICES ASSUME Safe' PROVE HeldInv'
    BY DEF HeldInv
  <1>0. /\ pc \in Nat \ {0} /\ broken' = {} /\ phase' \in {"run", "cleanup"} /\ Current' = "PV-SAFE-01"
    BY DEF Safe, IInv, TypeOK
  <1>1. CASE ExpectStep \/ AwaitStep \/ TimeOut \/ SkipIfDenied \/ EndOfBody
    <2>1. /\ phase = "run" /\ UNCHANGED <<broken, cleanups, volumes, force, infra>> /\ Current' = Current
          /\ \/ phase' = "cleanup" /\ pc' = pc
             \/ phase' = "run" /\ pc' = pc + 1 /\ (AtStep("await") \/ AtStep("expect"))
      BY <1>1 DEF ExpectStep, AwaitStep, TimeOut, Hopeless, SkipIfDenied, EndOfBody, AtStep, Advance, EndAs, cluster, Current
    <2>2. Safe
      BY <1>0, <2>1 DEF Safe
    <2>3. AtStep("await") \/ AtStep("expect") => pc > 4
      BY <2>1, <2>2, SafeSteps
    <2> QED
      BY <1>0, <2>1, <2>2, <2>3, BodyHeld
  <1>2. CASE DeferStep
    <2>1. Safe
      BY <1>0, <1>2 DEF DeferStep, AtStep, Safe, Current
    <2> QED
      BY <1>2, <2>1, DeferHeld
  <1>3. CASE RemoveFD \/ RemoveVC \/ DeleteVolume \/ CreateNamespace \/ SmokeTest \/ ForceCleanup \/ Scrape
    <2>1. Safe /\ phase = "run"
      BY <1>0, <1>3 DEF RemoveFD, RemoveVC, Remove, DeleteVolume, CreateNamespace, SmokeTest, ForceCleanup, Scrape,
         AtStep, Safe, Current
    <2>2. RemoveFD
      BY <1>3, <2>1, SafeSteps DEF RemoveVC, Remove, DeleteVolume, CreateNamespace, SmokeTest, ForceCleanup, Scrape
    <2>3. pc = 4
      BY <2>1, <2>2, SafeSteps DEF RemoveFD, Remove
    <2>4. /\ UNCHANGED <<cleanups, volumes, force>> /\ Current' = Current
          /\ phase' = "run" /\ pc' = pc + 1
      BY <2>1, <2>2 DEF RemoveFD, Remove, Advance, Current
    <2> QED
      BY <1>0, <2>1, <2>3, <2>4, BodyHeld
  <1>4. CASE CreateVolume
    <2>1. Safe /\ phase = "run"
      BY <1>0, <1>4 DEF CreateVolume, AtStep, Safe, Current
    <2>2. pc = 1
      BY <1>4, <2>1, SafeSteps DEF CreateVolume
    <2>3. /\ UNCHANGED <<cleanups, infra, force>> /\ Current' = Current
          /\ volumes \subseteq volumes' /\ Current \in volumes'
          /\ phase' = "run" /\ pc' = pc + 1
      BY <1>4, <2>1 DEF CreateVolume, Advance, Current
    <2> QED
      BY <1>0, <2>1, <2>2, <2>3, BodyHeld
  <1>5. CASE StepFails
    <2>1. /\ phase = "run" /\ phase' = "cleanup" /\ pc' = pc /\ Current' = Current /\ cleanups' = cleanups
          /\ broken \subseteq broken'
      BY <1>5 DEF StepFails, CreatedInVain, EndAs, Current, Fault
    <2>2. Safe
      BY <1>0, <2>1 DEF Safe
    <2>3. /\ ~AtStep("force") /\ ~AtStep("removeVC") /\ (AtStep("removeFD") => pc = 4)
      BY <2>1, <2>2, SafeSteps
    <2>4. force' = force
      BY <1>5, <2>3 DEF StepFails, cluster
    <2>5. volumes \subseteq volumes'
      BY <1>5, <2>3 DEF StepFails, CreatedInVain, Placements, cluster
    <2>6. infra' = infra \/ AtStep("removeFD")
      BY <1>5, <2>3 DEF StepFails, cluster
    <2>7. infra' = infra \/ pc >= 4
      BY <2>3, <2>6
    <2> QED
      BY <1>0, <2>1, <2>2, <2>4, <2>5, <2>7, BodyHeld
  <1>6. CASE Restore \/ CleanVolume \/ CleanNamespace \/ CleanForce \/ CleanupFails
    <2>1. /\ phase = "cleanup" /\ phase' = "cleanup" /\ cleanups # <<>> /\ cleanups' = Tail(cleanups)
          /\ Current' = Current /\ broken \subseteq broken' /\ (force' => force)
      BY <1>6 DEF Restore, CleanVolume, CleanNamespace, CleanForce, CleanupFails, Cleaning, Rest, Current, Fault
    <2>2. Safe
      BY <1>0, <2>1 DEF Safe
    <2>3. /\ Len(cleanups) \in {1, 2} /\ (Len(cleanups) = 1 => Popped.undo = "deleteVolume")
          /\ (Len(cleanups) = 2 => Popped.undo = "restore" /\ Popped.backup = Full)
      BY <2>1, <2>2, SafeStack
    <2>4. CASE Restore
      <3>1. infra' = Popped.backup /\ Popped.undo \in RestoreUndo
        BY <2>4 DEF Restore, Cleaning
      <3>2. infra' = Full
        BY <2>3, <3>1 DEF RestoreUndo
      <3> QED
        BY <2>1, <2>2, <3>2, PopHeld
    <2>5. CASE CleanVolume \/ CleanNamespace \/ CleanForce
      <3>1. infra' = infra /\ Popped.undo \in {"deleteVolume", "deleteNamespace", "unforce"}
        BY <2>5 DEF CleanVolume, CleanNamespace, CleanForce, Cleaning
      <3>2. Len(cleanups) # 2
        BY <2>3, <3>1
      <3> QED
        BY <2>1, <2>2, <3>1, <3>2, PopHeld
    <2>6. CASE CleanupFails
      <3>1. Popped.undo \notin {"restoreHealthy"}
        BY <2>3
      <3>2. broken' = broken \cup {Popped.undo}
        BY <2>6, <3>1 DEF CleanupFails, Cleaning, Fault
      <3> QED
        BY <1>0, <3>2
    <2> QED
      BY <1>6, <2>4, <2>5, <2>6
  <1>7. CASE NextSpec
    <2>1. phase' = "run" /\ pc' = 1 /\ cleanups' = cleanups /\ cleanups = <<>>
      BY <1>0, <1>7 DEF NextSpec
    <2>2. Len(cleanups') = 0
      BY <2>1
    <2>3. ~force' /\ infra' = Full
      BY <1>0, <2>1, StartsClean
    <2> QED
      BY <2>1, <2>2, <2>3 DEF HeldInv
  <1>8. CASE AfterAll \/ AfterSuite
    BY <1>0, <1>8 DEF AfterAll, AfterSuite
  <1>9. CASE Reconcile
    <2>1. UNCHANGED <<infra, volumes, force, cleanups, pc, phase, broken>> /\ Current' = Current
      BY <1>9 DEF Reconcile, cluster, runner, Current
    <2>2. Safe
      BY <1>0, <2>1 DEF Safe
    <2> QED
      BY <2>1, <2>2 DEF HeldInv, DeleteLast, RestoreFirst, Full
  <1> QED
    BY <1>1, <1>2, <1>3, <1>4, <1>5, <1>6, <1>7, <1>8, <1>9
       DEF Next, Runner, SpecStep, CleanupStep, Failure

\* While PV-SAFE-01 runs, the operator does not take the tag off the datastore,
\* whatever specs have run before it and whichever calls fail, as long as no cleanup
\* does: without the FD there is the volume, and with the volume gone there is the FD.
THEOREM TagIsHeld ==
    ASSUME Program["PV-SAFE-01"] = Specs!PV_SAFE_01
    PROVE  Spec => TagHeld
  <1>1. Init => HeldInv
    <2> SUFFICES ASSUME Init PROVE HeldInv
      OBVIOUS
    <2>1. Len(cleanups) = 0 /\ pc = 1 /\ infra = Full /\ ~force
      BY DEF Init
    <2> QED
      BY <2>1 DEF HeldInv
  <1>2. IInv /\ IInv' /\ HeldInv /\ [Next]_vars => HeldInv'
    <2>1. ASSUME IInv, IInv', HeldInv, Next PROVE HeldInv'
      BY <2>1, HeldStep
    <2>2. ASSUME HeldInv, UNCHANGED vars PROVE HeldInv'
      BY <2>2 DEF vars, cluster, runner, HeldInv, Safe, Current, DeleteLast, RestoreFirst, Full
    <2> QED
      BY <2>1, <2>2
  <1>3. ASSUME IInv, HeldInv, [Next]_vars, Current = "PV-SAFE-01", phase \in {"run", "cleanup"}, tag, broken = {}
        PROVE  tag'
    <2>1. CASE tag' = tag
      BY <1>3, <2>1
    <2>2. CASE Reconcile
      <3>1. tag' = Wanted.tag /\ Safe
        BY <1>3, <2>2 DEF Reconcile, Safe
      <3>2. CASE infra = Full
        <4>1. "fd" \in infra
          BY <3>2 DEF Full
        <4> QED
          BY <3>1, <4>1 DEF Wanted
      <3>3. CASE infra # Full
        <4>1. Blocked
          BY <1>3, <3>1, <3>3, SafeStack DEF Blocked
        <4> QED
          BY <1>3, <3>1, <4>1 DEF Wanted
      <3> QED
        BY <3>2, <3>3
    <2>3. Runner \/ Failure \/ UNCHANGED vars => tag' = tag
      BY DEF Runner, SpecStep, CleanupStep, Failure, ExpectStep, AwaitStep, TimeOut, DeferStep, SkipIfDenied,
         RemoveFD, RemoveVC, Remove, CreateVolume, DeleteVolume, CreateNamespace, SmokeTest, ForceCleanup, Scrape,
         EndOfBody, Restore, CleanVolume, CleanNamespace, CleanForce, NextSpec, StepFails, CleanupFails,
         AfterAll, AfterSuite, operator, vars
    <2> QED
      BY <1>3, <2>1, <2>2, <2>3 DEF Next
  <1>4. IInv /\ HeldInv /\ [Next]_vars =>
          [Current = "PV-SAFE-01" /\ phase \in {"run", "cleanup"} /\ tag /\ broken = {} => tag']_vars
    BY <1>3
  <1> QED
    BY <1>1, <1>2, <1>4, InductiveInvariant, PTL DEF Spec, TagHeld

=============================================================================
