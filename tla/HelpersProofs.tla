--------------------------- MODULE HelpersProofs ---------------------------
(***************************************************************************)
(* Theorems about DHCPRelease, for any finite number of Nodes and any      *)
(* capacity of the semaphore, and about StableWatch, for any window,       *)
(* interval and delay of the answers.                                      *)
(***************************************************************************)
EXTENDS MCHelpers, FiniteSetTheorems, TLAPS

\* The sets the counters count are finite.
LEMMA FiniteSets ==
    ASSUME TypeOK
    PROVE  /\ IsFiniteSet(Started) /\ IsFiniteSet(Within) /\ IsFiniteSet(Counted) /\ IsFiniteSet(succeeded)
<1>1. Started \in SUBSET Node /\ Within \in SUBSET Node /\ Counted \in SUBSET Node /\ succeeded \in SUBSET Node
  BY DEF TypeOK, Started, Within, Counted
<1> QED
  BY <1>1, FS_Subset, NodeAssumption

\* One goroutine that enters a finite set makes it one larger.
LEMMA OneMore ==
    ASSUME NEW S, IsFiniteSet(S), NEW n, n \notin S
    PROVE  Cardinality(S \union {n}) = Cardinality(S) + 1
BY FS_AddElement

\* One goroutine that leaves a finite set makes it one smaller.
LEMMA OneLess ==
    ASSUME NEW S, IsFiniteSet(S), NEW n \in S
    PROVE  Cardinality(S) \in Nat \ {0} /\ Cardinality(S \ {n}) = Cardinality(S) - 1
<1>1. Cardinality(S) \in Nat /\ Cardinality(S) # 0
  BY FS_CardinalityType, FS_EmptySet
<1> QED
  BY <1>1, FS_RemoveElement

\* What the steps of a goroutine do to the three sets.
LEMMA SetsMove ==
    ASSUME TypeOK, CountInv, NEW n \in Node
    PROVE
     /\ Acquire(n) => Within' = Within \union {n} /\ n \notin Within /\ UNCHANGED <<Started, Counted>>
     /\ ReleaseDHCPOnNode(n) => UNCHANGED <<Started, Within, Counted>>
     /\ Lock(n) => UNCHANGED <<Started, Within, Counted>>
     /\ Load(n) => UNCHANGED <<Started, Within, Counted>>
     /\ Store(n) => Counted' = Counted \union {n} /\ n \notin Counted /\ UNCHANGED <<Started, Within>>
     /\ Unlock(n) => UNCHANGED <<Started, Within, Counted>>
     /\ FreeSlot(n) => Within' = Within \ {n} /\ n \in Within /\ UNCHANGED <<Started, Counted>>
     /\ WgDone(n) => Started' = Started \ {n} /\ n \in Started /\ UNCHANGED <<Within, Counted>>
<1> USE DEF TypeOK, CountInv, Started, Within, Counted, Inside, Critical, Going
<1>1. Acquire(n) => Within' = Within \union {n} /\ n \notin Within /\ UNCHANGED <<Started, Counted>>
  BY DEF Acquire
<1>2. ReleaseDHCPOnNode(n) => UNCHANGED <<Started, Within, Counted>>
  BY DEF ReleaseDHCPOnNode
<1>3. Lock(n) => UNCHANGED <<Started, Within, Counted>>
  BY DEF Lock
<1>4. Load(n) => UNCHANGED <<Started, Within, Counted>>
  BY DEF Load
<1>5. Store(n) => Counted' = Counted \union {n} /\ n \notin Counted /\ UNCHANGED <<Started, Within>>
  BY DEF Store
<1>6. Unlock(n) => UNCHANGED <<Started, Within, Counted>>
  BY DEF Unlock
<1>7. FreeSlot(n) => Within' = Within \ {n} /\ n \in Within /\ UNCHANGED <<Started, Counted>>
  BY DEF FreeSlot
<1>8. WgDone(n) => Started' = Started \ {n} /\ n \in Started /\ UNCHANGED <<Within, Counted>>
  BY DEF WgDone
<1> QED
  BY <1>1, <1>2, <1>3, <1>4, <1>5, <1>6, <1>7, <1>8

\* Every step keeps the counts: a slot, a place in the WaitGroup and an increment belong
\* to one goroutine each, and the mutex to at most one.
LEMMA CountStep ==
    ASSUME TypeOK, CountInv, CallerInv, Next
    PROVE  CountInv' /\ wg' \in Nat /\ sem' \in Nat /\ released' \in Nat
<1>0. /\ IsFiniteSet(Started) /\ IsFiniteSet(Within) /\ IsFiniteSet(Counted)
      /\ wg \in Nat /\ sem \in Nat /\ released \in Nat
  BY FiniteSets DEF TypeOK
<1> USE DEF TypeOK, CountInv
<1>1. ASSUME NEW n \in Node, Acquire(n) PROVE CountInv' /\ wg' \in Nat /\ sem' \in Nat /\ released' \in Nat
  <2>1. Within' = Within \union {n} /\ n \notin Within /\ UNCHANGED <<Started, Counted>>
    BY <1>1, SetsMove
  <2>2. Cardinality(Within') = sem + 1
    BY <1>0, <2>1, OneMore
  <2>3. sem' = sem + 1 /\ sem' <= Slots /\ wg' = wg /\ released' = released
    BY <1>1, NodeAssumption DEF Acquire
  <2> QED
    BY <1>0, <1>1, <2>1, <2>2, <2>3 DEF Acquire, Going, Critical
<1>2. ASSUME NEW n \in Node, ReleaseDHCPOnNode(n) PROVE CountInv' /\ wg' \in Nat /\ sem' \in Nat /\ released' \in Nat
  <2>1. UNCHANGED <<Started, Within, Counted>>
    BY <1>2, SetsMove
  <2> QED
    BY <1>0, <1>2, <2>1 DEF ReleaseDHCPOnNode, Going, Critical
<1>3. ASSUME NEW n \in Node, Lock(n) PROVE CountInv' /\ wg' \in Nat /\ sem' \in Nat /\ released' \in Nat
  <2>1. UNCHANGED <<Started, Within, Counted>>
    BY <1>3, SetsMove
  <2>2. \A m \in Node : pc[m] \notin Critical
    BY <1>3, NodeAssumption DEF Lock
  <2> QED
    BY <1>0, <1>3, <2>1, <2>2 DEF Lock, Going, Critical
<1>4. ASSUME NEW n \in Node, Load(n) PROVE CountInv' /\ wg' \in Nat /\ sem' \in Nat /\ released' \in Nat
  <2>1. UNCHANGED <<Started, Within, Counted>>
    BY <1>4, SetsMove
  <2> QED
    BY <1>0, <1>4, <2>1 DEF Load, Going, Critical
<1>5. ASSUME NEW n \in Node, Store(n) PROVE CountInv' /\ wg' \in Nat /\ sem' \in Nat /\ released' \in Nat
  <2>1. Counted' = Counted \union {n} /\ n \notin Counted /\ UNCHANGED <<Started, Within>>
    BY <1>5, SetsMove
  <2>2. Cardinality(Counted') = released + 1
    BY <1>0, <2>1, OneMore
  <2>3. released' = released + 1
    BY <1>5 DEF Store, Going
  <2>4. \A m \in Node : pc'[m] # "store"
    BY <1>5 DEF Store, Going, Critical
  <2> QED
    BY <1>0, <1>5, <2>1, <2>2, <2>3, <2>4 DEF Store, Going, Critical
<1>6. ASSUME NEW n \in Node, Unlock(n) PROVE CountInv' /\ wg' \in Nat /\ sem' \in Nat /\ released' \in Nat
  <2>1. UNCHANGED <<Started, Within, Counted>>
    BY <1>6, SetsMove
  <2>2. \A m \in Node : pc[m] \in Critical => m = n
    BY <1>6 DEF Unlock, Going, Critical
  <2> QED
    BY <1>0, <1>6, <2>1, <2>2, NodeAssumption DEF Unlock, Going, Critical
<1>7. ASSUME NEW n \in Node, FreeSlot(n) PROVE CountInv' /\ wg' \in Nat /\ sem' \in Nat /\ released' \in Nat
  <2>1. Within' = Within \ {n} /\ n \in Within /\ UNCHANGED <<Started, Counted>>
    BY <1>7, SetsMove
  <2>2. Cardinality(Within') = sem - 1 /\ sem # 0
    BY <1>0, <2>1, OneLess
  <2>3. sem' = sem - 1 /\ wg' = wg /\ released' = released
    BY <1>7 DEF FreeSlot
  <2> QED
    BY <1>0, <1>7, <2>1, <2>2, <2>3, NodeAssumption DEF FreeSlot, Going, Critical
<1>8. ASSUME NEW n \in Node, WgDone(n) PROVE CountInv' /\ wg' \in Nat /\ sem' \in Nat /\ released' \in Nat
  <2>1. Started' = Started \ {n} /\ n \in Started /\ UNCHANGED <<Within, Counted>>
    BY <1>8, SetsMove
  <2>2. Cardinality(Started') = wg - 1 /\ wg # 0
    BY <1>0, <2>1, OneLess
  <2>3. wg' = wg - 1 /\ sem' = sem /\ released' = released
    BY <1>8 DEF WgDone
  <2> QED
    BY <1>0, <1>8, <2>1, <2>2, <2>3 DEF WgDone, Going, Critical
<1>9. ASSUME NEW n \in Node, Spawn(n) PROVE CountInv' /\ wg' \in Nat /\ sem' \in Nat /\ released' \in Nat
  <2>1. Started' = Started \union {n} /\ n \notin Started /\ UNCHANGED <<Within, Counted>>
    BY <1>9 DEF Spawn, CallerInv, Started, Within, Counted, Inside, Critical
  <2>2. Cardinality(Started') = wg + 1
    BY <1>0, <2>1, OneMore
  <2>3. wg' = wg + 1 /\ sem' = sem /\ released' = released
    BY <1>9 DEF Spawn
  <2> QED
    BY <1>0, <1>9, <2>1, <2>2, <2>3 DEF Spawn, Critical, CallerInv
<1>10. CASE List \/ SpawnedAll \/ Wait \/ Cancel
  <2>1. UNCHANGED <<pc, wg, sem, mu, reg, released, succeeded>>
    BY <1>10 DEF List, SpawnedAll, Wait, Cancel
  <2> QED
    BY <1>0, <2>1 DEF Started, Within, Counted
<1> QED
  BY <1>1, <1>2, <1>3, <1>4, <1>5, <1>6, <1>7, <1>8, <1>9, <1>10 DEF Next, Caller, Goroutine

\* Every step keeps the types that are not counts.
LEMMA TypeStep ==
    ASSUME TypeOK, CountInv, CallerInv, Next
    PROVE  TypeOK'
<1>1. wg' \in Nat /\ sem' \in Nat /\ released' \in Nat
  BY CountStep
<1> USE DEF TypeOK, Inside, Critical, Going
<1>2. ASSUME NEW n \in Node, Goroutine(n) PROVE TypeOK'
  BY <1>1, <1>2 DEF Goroutine, Acquire, ReleaseDHCPOnNode, Lock, Load, Store, Unlock, FreeSlot, WgDone
<1>3. ASSUME NEW n \in Node, Spawn(n) PROVE TypeOK'
  BY <1>1, <1>3 DEF Spawn
<1>4. CASE List
  BY <1>1, <1>4 DEF List, Return
<1>5. CASE SpawnedAll \/ Wait \/ Cancel
  BY <1>1, <1>5 DEF SpawnedAll, Wait, Cancel, Return
<1> QED
  BY <1>2, <1>3, <1>4, <1>5 DEF Next, Caller

\* The caller waits for every goroutine it has started, and returns when none is left.
LEMMA CallerStep ==
    ASSUME TypeOK, CountInv, CallerInv, Next
    PROVE  CallerInv'
<1> USE DEF TypeOK, CallerInv, CountedWhenReturned
<1>1. ASSUME NEW n \in Node, Goroutine(n) PROVE CallerInv'
  <2>1. /\ UNCHANGED <<caller, nodes, failed>> /\ pc[n] \notin {"none", "done"}
        /\ pc' = [pc EXCEPT ![n] = pc'[n]]
    BY <1>1 DEF Goroutine, Acquire, ReleaseDHCPOnNode, Lock, Load, Store, Unlock, FreeSlot, WgDone, Going
  <2>2. caller \notin {"list", "returned"}
    BY <2>1
  <2> QED
    BY <2>1, <2>2
<1>2. ASSUME NEW n \in Node, Spawn(n) PROVE CallerInv'
  BY <1>2 DEF Spawn
<1>3. CASE List
  <2>1. Counted = {} /\ succeeded = {}
    BY <1>3 DEF List, CountInv, Counted
  <2>2. released = 0 /\ Cardinality(succeeded) = 0
    BY <2>1, FS_EmptySet DEF CountInv
  <2> QED
    BY <1>3, <2>1, <2>2 DEF List, Return
<1>4. CASE SpawnedAll \/ Cancel
  BY <1>4 DEF SpawnedAll, Cancel
<1>5. CASE Wait
  <2>1. Started = {}
    BY <1>5, FiniteSets, FS_EmptySet DEF Wait, CountInv
  <2>2. \A n \in Node : pc[n] \in {"none", "done"}
    BY <2>1 DEF Started
  <2>3. Counted = succeeded
    BY <2>2 DEF Counted
  <2>4. released = 0 <=> succeeded = {}
    BY <2>3, FiniteSets, FS_EmptySet DEF CountInv
  <2> QED
    BY <1>5, <2>2, <2>3, <2>4 DEF Wait, Return, CountInv
<1> QED
  BY <1>1, <1>2, <1>3, <1>4, <1>5 DEF Next, Caller

\* Before the goroutines start the counters are zero.
LEMMA InitInv == Init => IInv
<1> SUFFICES ASSUME Init PROVE IInv
  OBVIOUS
<1>1. Started = {} /\ Within = {} /\ Counted = {}
  BY DEF Init, Started, Within, Counted, Inside, Critical
<1>2. TypeOK
  BY NodeAssumption DEF Init, TypeOK
<1>3. CountInv
  BY <1>1, FS_EmptySet, NodeAssumption DEF Init, CountInv, Critical
<1>4. CallerInv
  BY DEF Init, CallerInv, CountedWhenReturned
<1> QED
  BY <1>2, <1>3, <1>4 DEF IInv

\* Every step of the caller and of a goroutine keeps the counters exact.
LEMMA NextInv == IInv /\ [Next]_vars => IInv'
<1>1. CASE Next
  BY <1>1, CountStep, TypeStep, CallerStep DEF IInv
<1>2. CASE UNCHANGED vars
  BY <1>2 DEF vars, IInv, TypeOK, CountInv, CallerInv, CountedWhenReturned, Started, Within, Counted
<1> QED
  BY <1>1, <1>2

\* What the semaphore, the mutex, the counter and the WaitGroup stand for at every moment.
THEOREM InductiveInvariant == Spec => []IInv
BY InitInv, NextInv, PTL DEF Spec

\* The semaphore holds: at most Slots Nodes are worked on at a time.
THEOREM SlotsRespectedHolds == Spec => []SlotsRespected
<1>1. IInv => SlotsRespected
  BY DEF IInv, CountInv, Within, SlotsRespected
<1> QED
  BY <1>1, InductiveInvariant, PTL

\* No increment is lost and nobody is missed: the count at the return is exact.
THEOREM CountedWhenReturnedHolds == Spec => []CountedWhenReturned
<1>1. IInv => CountedWhenReturned
  BY DEF IInv, CallerInv
<1> QED
  BY <1>1, InductiveInvariant, PTL

(***************************************************************************)
(* WaitForConfigMapStable.                                                 *)
(***************************************************************************)
\* No answer is on its way.
Idle == got = Stable!NoAnswer

\* An answer on its way was read before now, and takes no longer than Delay.
AnswerInv ==
    /\ now \in 0..Stable!Deadline /\ writtenAt \in 0..now /\ stableSince \in 0..now
    /\ resourceVersion \in Nat \ {0} /\ lastVersion \in 0..resourceVersion
    /\ pollAt \in Nat /\ quiet \in Int
    /\ got \in [version : Nat, at : Nat]
    /\ result \in {"none", "stable", "timeout", "error"}
    /\ ~Idle => /\ got.version \in 1..resourceVersion
                /\ got.at <= now /\ now <= got.at + Delay

\* The version that was compared last has been there since before stableSince, as
\* far as the reads can tell.
SinceInv ==
    /\ resourceVersion = lastVersion => writtenAt <= stableSince
    /\ ~Idle /\ got.version = lastVersion => got.at - quiet <= stableSince

\* The next tick is at most one Interval away.
DueInv ==
    result = "none" => /\ Idle => pollAt <= now + Interval
                       /\ ~Idle => pollAt <= got.at + Interval

\* A version that was not yet compared is read within a Gap.
NewInv ==
    result = "none" =>
        /\ lastVersion = resourceVersion => stableSince <= writtenAt + Stable!Gap + Delay
        /\ lastVersion # resourceVersion /\ Idle =>
              pollAt <= writtenAt + Stable!Gap /\ now <= writtenAt + Stable!Gap
        /\ ~Idle /\ got.version # resourceVersion => got.at <= writtenAt
        /\ ~Idle /\ lastVersion # resourceVersion => got.at <= writtenAt + Stable!Gap

\* The reads do not go on for longer than a Gap after the window.
EndInv ==
    result = "none" /\ lastVersion # 0 =>
        /\ Idle => /\ pollAt < stableSince + Window + Stable!Gap
                   /\ now < stableSince + Window + Stable!Gap
        /\ ~Idle => got.at < stableSince + Window + Stable!Gap

QuietInv == AnswerInv /\ SinceInv /\ StableMeansQuiet
LateInv  == DueInv /\ NewInv /\ EndInv /\ TimeoutMeansWritten

\* Nothing of the watch changes.
StableStutter == UNCHANGED stableVars

\* One step of the watch, or of the other helper.
StableStep == Stable!Next \/ StableStutter

\* The value for no answer, and the deadline, in their domains.
LEMMA NoAnswerFacts ==
    /\ Stable!NoAnswer \in [version : Nat, at : Nat] /\ Stable!NoAnswer.version = 0
    /\ Stable!Deadline = Window + Grace /\ Stable!Deadline \in Nat
BY TimeAssumption DEF Stable!NoAnswer, Stable!Deadline

\* The gap between two reads covers the interval and the answer.
LEMMA GapFacts == Stable!Gap \in Nat /\ Interval <= Stable!Gap /\ Delay <= Stable!Gap
BY TimeAssumption DEF Stable!Gap

\* The next tick comes after now, by one Interval at most.
LEMMA TickFacts ==
    ASSUME now \in Nat
    PROVE  Stable!NextTick \in Nat /\ now < Stable!NextTick /\ Stable!NextTick <= now + Interval
<1>1. now = Interval * (now \div Interval) + (now % Interval) /\ now % Interval \in 0..(Interval - 1)
  BY TimeAssumption
<1> QED
  BY <1>1, TimeAssumption DEF Stable!NextTick

\* Before the first read nothing has been seen.
LEMMA WatchInit == Stable!Init => QuietInv /\ LateInv
<1> SUFFICES ASSUME Stable!Init PROVE QuietInv /\ LateInv
  OBVIOUS
<1>1. /\ now = 0 /\ resourceVersion = 1 /\ writtenAt = 0 /\ Idle /\ got \in [version : Nat, at : Nat]
      /\ lastVersion = 0 /\ stableSince = 0 /\ pollAt = 0 /\ quiet = 0 /\ result = "none"
  BY NoAnswerFacts DEF Stable!Init, Idle
<1>2. AnswerInv /\ SinceInv
  BY <1>1, NoAnswerFacts DEF AnswerInv, SinceInv
<1>3. DueInv /\ NewInv /\ EndInv
  BY <1>1, TimeAssumption, GapFacts DEF DueInv, NewInv, EndInv
<1>4. StableMeansQuiet /\ TimeoutMeansWritten
  BY <1>1 DEF StableMeansQuiet, TimeoutMeansWritten, Stable!StableMeansQuiet, Stable!TimeoutMeansWritten
<1> QED
  BY <1>2, <1>3, <1>4 DEF QuietInv, LateInv

\* Writes, ticks, reads and answers keep stableSince on the safe side.
LEMMA QuietStep ==
    ASSUME QuietInv, StableStep
    PROVE  QuietInv'
<1> USE DEF QuietInv
<1>t. /\ now \in 0..Stable!Deadline /\ writtenAt \in 0..now /\ stableSince \in 0..now
      /\ resourceVersion \in Nat \ {0} /\ lastVersion \in 0..resourceVersion
      /\ pollAt \in Nat /\ quiet \in Int /\ got \in [version : Nat, at : Nat]
      /\ got.version \in Nat /\ got.at \in Nat
      /\ result \in {"none", "stable", "timeout", "error"}
      /\ Window \in Nat /\ Delay \in Nat /\ Interval \in Nat /\ Stable!Deadline \in Nat
  BY NoAnswerFacts, TimeAssumption DEF AnswerInv
<1>a. ~Idle => got.version \in 1..resourceVersion /\ got.at <= now /\ now <= got.at + Delay
  BY DEF AnswerInv
<1>s. /\ resourceVersion = lastVersion => writtenAt <= stableSince
      /\ ~Idle /\ got.version = lastVersion => got.at - quiet <= stableSince
      /\ result = "stable" => quiet >= Window - Delay
  BY DEF SinceInv, StableMeansQuiet, Stable!StableMeansQuiet
<1>q. AnswerInv' /\ SinceInv' /\ (result' = "stable" => quiet' >= Window - Delay) => QuietInv'
  BY DEF StableMeansQuiet, Stable!StableMeansQuiet
<1>1. ASSUME Stable!Write PROVE QuietInv'
  <2>1. /\ resourceVersion' = resourceVersion + 1 /\ writtenAt' = now
        /\ UNCHANGED <<now, got, lastVersion, stableSince, pollAt, quiet, result>> /\ Idle' = Idle
    BY <1>1 DEF Stable!Write, Idle
  <2>2. AnswerInv'
    BY <1>t, <1>a, <2>1 DEF AnswerInv
  <2>3. SinceInv'
    BY <1>t, <1>a, <1>s, <2>1 DEF SinceInv
  <2> QED
    BY <1>s, <1>q, <2>1, <2>2, <2>3
<1>2. ASSUME Stable!Tick PROVE QuietInv'
  <2>1. /\ now' = now + 1 /\ now < Stable!Deadline /\ (~Idle => now < got.at + Delay)
        /\ UNCHANGED <<resourceVersion, writtenAt, got, lastVersion, stableSince, pollAt, quiet, result>> /\ Idle' = Idle
    BY <1>2 DEF Stable!Tick, Idle
  <2>2. AnswerInv'
    BY <1>t, <1>a, <2>1 DEF AnswerInv
  <2>3. SinceInv'
    BY <1>s, <2>1 DEF SinceInv
  <2> QED
    BY <1>s, <1>q, <2>1, <2>2, <2>3
<1>3. ASSUME Stable!GetConfigMap PROVE QuietInv'
  <2>1. /\ got' = [version |-> resourceVersion, at |-> now] /\ quiet' = now - writtenAt /\ pollAt' \in Nat
        /\ UNCHANGED <<now, resourceVersion, writtenAt, lastVersion, stableSince, result>> /\ result = "none"
    BY <1>t, <1>3, TickFacts DEF Stable!GetConfigMap
  <2>2. got'.version = resourceVersion /\ got'.at = now /\ got' \in [version : Nat, at : Nat]
    BY <1>t, <2>1
  <2>3. AnswerInv'
    BY <1>t, <2>1, <2>2 DEF AnswerInv
  <2>4. SinceInv'
    BY <1>t, <1>s, <2>1, <2>2 DEF SinceInv
  <2> QED
    BY <1>q, <2>1, <2>3, <2>4
<1>4. ASSUME Stable!Compare PROVE QuietInv'
  <2>1. /\ result = "none" /\ ~Idle /\ Idle' /\ got' = Stable!NoAnswer
        /\ UNCHANGED <<now, resourceVersion, writtenAt, pollAt, quiet>>
    BY <1>4 DEF Stable!Compare, Idle, Stable!NoAnswer
  <2>2. CASE got.version # lastVersion
    <3>1. lastVersion' = got.version /\ stableSince' = now /\ result' = result
      BY <1>4, <2>2 DEF Stable!Compare
    <3>2. AnswerInv'
      BY <1>t, <1>a, <2>1, <3>1, NoAnswerFacts DEF AnswerInv
    <3>3. SinceInv'
      BY <1>t, <2>1, <3>1 DEF SinceInv
    <3> QED
      BY <1>q, <2>1, <3>1, <3>2, <3>3
  <2>3. CASE got.version = lastVersion
    <3>1. /\ lastVersion' = lastVersion /\ stableSince' = stableSince
          /\ result' = IF now - stableSince >= Window THEN "stable" ELSE "none"
      BY <1>4, <2>3 DEF Stable!Compare
    <3>2. AnswerInv'
      BY <1>t, <2>1, <3>1, NoAnswerFacts DEF AnswerInv
    <3>3. SinceInv'
      BY <1>s, <2>1, <3>1 DEF SinceInv
    <3>4. result' = "stable" => quiet' >= Window - Delay
      BY <1>t, <1>a, <1>s, <2>1, <2>3, <3>1
    <3> QED
      BY <1>q, <3>2, <3>3, <3>4
  <2> QED
    BY <2>2, <2>3
<1>5. ASSUME Stable!ReadFails \/ Stable!TimesOut \/ StableStutter PROVE QuietInv'
  <2>1. /\ UNCHANGED <<now, resourceVersion, writtenAt, got, lastVersion, stableSince, pollAt, quiet>>
        /\ result' \in {result, "error", "timeout"} /\ Idle' = Idle
    BY <1>5 DEF Stable!ReadFails, Stable!TimesOut, StableStutter, stableVars, Idle
  <2>2. AnswerInv'
    BY <1>t, <1>a, <2>1 DEF AnswerInv
  <2>3. SinceInv'
    BY <1>s, <2>1 DEF SinceInv
  <2> QED
    BY <1>s, <1>q, <2>1, <2>2, <2>3
<1> QED
  BY <1>1, <1>2, <1>3, <1>4, <1>5 DEF StableStep, Stable!Next, Stable!Clock

\* Writes, ticks, reads and answers keep the reads close to the last write.
LEMMA LateStep ==
    ASSUME QuietInv, LateInv, StableStep
    PROVE  LateInv'
<1> USE DEF LateInv
<1>t. /\ now \in 0..Stable!Deadline /\ writtenAt \in 0..now /\ stableSince \in 0..now
      /\ resourceVersion \in Nat \ {0} /\ lastVersion \in 0..resourceVersion
      /\ pollAt \in Nat /\ got.version \in Nat /\ got.at \in Nat
      /\ Window \in Nat \ {0} /\ Delay \in Nat /\ Interval \in Nat /\ Grace \in Nat
      /\ Stable!Deadline = Window + Grace
      /\ Stable!Gap \in Nat /\ Interval <= Stable!Gap /\ Delay <= Stable!Gap /\ Stable!Gap' = Stable!Gap
  BY NoAnswerFacts, TimeAssumption, GapFacts DEF QuietInv, AnswerInv, Stable!Gap
<1>a. ~Idle => got.version \in 1..resourceVersion /\ got.at <= now /\ now <= got.at + Delay
  BY DEF QuietInv, AnswerInv
<1>d. result = "none" =>
        /\ Idle => pollAt <= now + Interval
        /\ ~Idle => pollAt <= got.at + Interval
  BY DEF DueInv
<1>n. result = "none" =>
        /\ lastVersion = resourceVersion => stableSince <= writtenAt + Stable!Gap + Delay
        /\ lastVersion # resourceVersion /\ Idle =>
              pollAt <= writtenAt + Stable!Gap /\ now <= writtenAt + Stable!Gap
        /\ ~Idle /\ got.version # resourceVersion => got.at <= writtenAt
        /\ ~Idle /\ lastVersion # resourceVersion => got.at <= writtenAt + Stable!Gap
  BY DEF NewInv
<1>e. result = "none" /\ lastVersion # 0 =>
        /\ Idle => /\ pollAt < stableSince + Window + Stable!Gap
                   /\ now < stableSince + Window + Stable!Gap
        /\ ~Idle => got.at < stableSince + Window + Stable!Gap
  BY DEF EndInv
<1>w. result = "timeout" => writtenAt > Grace - 2 * (Stable!Gap + Delay)
  BY DEF TimeoutMeansWritten, Stable!TimeoutMeansWritten
<1>q. DueInv' /\ NewInv' /\ EndInv' /\ (result' = "timeout" => writtenAt' > Grace - 2 * (Stable!Gap + Delay)) => LateInv'
  BY <1>t DEF TimeoutMeansWritten, Stable!TimeoutMeansWritten
<1>1. ASSUME Stable!Write PROVE LateInv'
  <2>1. /\ result = "none" /\ resourceVersion' = resourceVersion + 1 /\ writtenAt' = now
        /\ UNCHANGED <<now, got, lastVersion, stableSince, pollAt, quiet, result>> /\ Idle' = Idle
    BY <1>1 DEF Stable!Write, Idle
  <2>2. DueInv' /\ EndInv'
    BY <1>t, <1>d, <1>e, <2>1 DEF DueInv, EndInv
  <2>3. NewInv'
    BY <1>t, <1>a, <1>d, <2>1 DEF NewInv
  <2> QED
    BY <1>q, <2>1, <2>2, <2>3
<1>2. ASSUME Stable!Tick PROVE LateInv'
  <2>1. /\ result = "none" /\ now' = now + 1 /\ (Idle => now < pollAt) /\ (~Idle => now < got.at + Delay)
        /\ UNCHANGED <<resourceVersion, writtenAt, got, lastVersion, stableSince, pollAt, quiet, result>> /\ Idle' = Idle
    BY <1>2 DEF Stable!Tick, Idle
  <2>2. DueInv'
    BY <1>t, <1>d, <2>1 DEF DueInv
  <2>3. NewInv' /\ EndInv'
    BY <1>t, <1>n, <1>e, <2>1 DEF NewInv, EndInv
  <2> QED
    BY <1>q, <2>1, <2>2, <2>3
<1>3. ASSUME Stable!GetConfigMap PROVE LateInv'
  <2>1. /\ result = "none" /\ Idle /\ now >= pollAt
        /\ got' = [version |-> resourceVersion, at |-> now] /\ pollAt' <= now + Interval
        /\ UNCHANGED <<now, resourceVersion, writtenAt, lastVersion, stableSince, result>>
    BY <1>t, <1>3, TickFacts DEF Stable!GetConfigMap, Idle
  <2>2. got'.version = resourceVersion /\ got'.at = now /\ ~Idle'
    <3>1. got'.version = resourceVersion /\ got'.at = now
      BY <2>1
    <3>2. got'.version # 0
      BY <1>t, <3>1
    <3>3. Stable!NoAnswer' = Stable!NoAnswer
      BY DEF Stable!NoAnswer
    <3> QED
      BY <3>1, <3>2, <3>3, NoAnswerFacts DEF Idle
  <2>3. DueInv'
    BY <1>t, <2>1, <2>2 DEF DueInv
  <2>4. NewInv'
    BY <1>t, <1>d, <1>n, <2>1, <2>2 DEF NewInv
  <2>5. EndInv'
    BY <1>t, <1>d, <1>e, <2>1, <2>2 DEF EndInv
  <2> QED
    BY <1>q, <2>1, <2>3, <2>4, <2>5
<1>4. ASSUME Stable!Compare PROVE LateInv'
  <2>1. /\ result = "none" /\ ~Idle /\ Idle'
        /\ UNCHANGED <<now, resourceVersion, writtenAt, pollAt, quiet>>
    BY <1>4 DEF Stable!Compare, Idle, Stable!NoAnswer
  <2>2. CASE got.version # lastVersion
    <3>1. lastVersion' = got.version /\ stableSince' = now /\ result' = "none"
      BY <1>4, <2>1, <2>2 DEF Stable!Compare
    <3>2. DueInv'
      BY <1>t, <1>a, <1>d, <2>1, <3>1 DEF DueInv
    <3>3. NewInv'
      BY <1>t, <1>a, <1>d, <1>n, <2>1, <2>2, <3>1 DEF NewInv
    <3>4. EndInv'
      BY <1>t, <1>a, <1>d, <2>1, <3>1 DEF EndInv
    <3> QED
      BY <1>q, <3>1, <3>2, <3>3, <3>4
  <2>3. CASE got.version = lastVersion
    <3>1. /\ lastVersion' = lastVersion /\ stableSince' = stableSince
          /\ result' = IF now - stableSince >= Window THEN "stable" ELSE "none"
      BY <1>4, <2>3 DEF Stable!Compare
    <3>2. DueInv'
      BY <1>t, <1>a, <1>d, <2>1, <3>1 DEF DueInv
    <3>3. NewInv'
      BY <1>t, <1>a, <1>d, <1>n, <2>1, <2>3, <3>1 DEF NewInv
    <3>4. EndInv'
      BY <1>t, <1>a, <1>d, <2>1, <3>1 DEF EndInv
    <3>5. result' # "timeout"
      BY <3>1
    <3> QED
      BY <1>q, <3>2, <3>3, <3>4, <3>5
  <2> QED
    BY <2>2, <2>3
<1>5. ASSUME Stable!ReadFails PROVE LateInv'
  <2>1. result' = "error"
    BY <1>5 DEF Stable!ReadFails
  <2> QED
    BY <1>q, <2>1 DEF DueInv, NewInv, EndInv
<1>6. ASSUME Stable!TimesOut PROVE LateInv'
  <2>1. result = "none" /\ result' = "timeout" /\ now = Window + Grace /\ writtenAt' = writtenAt
    BY <1>6, <1>t DEF Stable!TimesOut
  <2>2. CASE lastVersion # resourceVersion
    <3>1. now <= writtenAt + Stable!Gap + Delay
      BY <1>t, <1>a, <1>d, <1>n, <2>1, <2>2
    <3> QED
      BY <1>t, <1>q, <2>1, <3>1 DEF DueInv, NewInv, EndInv
  <2>3. CASE lastVersion = resourceVersion
    <3>1. now < stableSince + Window + Stable!Gap + Delay
      BY <1>t, <1>a, <1>d, <1>e, <2>1, <2>3
    <3>2. stableSince <= writtenAt + Stable!Gap + Delay
      BY <1>n, <2>1, <2>3
    <3> QED
      BY <1>t, <1>q, <2>1, <3>1, <3>2 DEF DueInv, NewInv, EndInv
  <2> QED
    BY <2>2, <2>3
<1>7. ASSUME StableStutter PROVE LateInv'
  <2>1. /\ UNCHANGED <<now, resourceVersion, writtenAt, got, lastVersion, stableSince, pollAt, quiet, result>>
        /\ Idle' = Idle
    BY <1>7 DEF StableStutter, stableVars, Idle
  <2>2. DueInv' /\ NewInv' /\ EndInv'
    BY <1>t, <1>d, <1>n, <1>e, <2>1 DEF DueInv, NewInv, EndInv
  <2> QED
    BY <1>q, <1>w, <2>1, <2>2
<1> QED
  BY <1>1, <1>2, <1>3, <1>4, <1>5, <1>6, <1>7 DEF StableStep, Stable!Next, Stable!Clock

(***************************************************************************)
(* Theorems about the helpers together.                                    *)
(***************************************************************************)
\* A step of the composition is one of the watch or leaves it alone, and likewise
\* for the release.
LEMMA EitherStep ==
    ASSUME [HelpersNext]_<<helper, vars, stableVars>>
    PROVE  StableStep /\ [Next]_vars
BY DEF HelpersNext, Dhcp, Watch, StableStep, StableStutter

\* Whenever ReleaseDHCPLeases has returned its count is exact, also beside the watch.
THEOREM HelpersCount == HelpersSpec => []CountedWhenReturned
<1>1. HelpersInit => IInv
  BY InitInv DEF HelpersInit
<1>2. IInv /\ [HelpersNext]_<<helper, vars, stableVars>> => IInv'
  BY EitherStep, NextInv
<1>3. IInv => CountedWhenReturned
  BY DEF IInv, CallerInv
<1> QED
  BY <1>1, <1>2, <1>3, PTL DEF HelpersSpec

\* A ConfigMap that WaitForConfigMapStable calls stable was not written for the
\* window before the last read, less the time an answer takes.
THEOREM StableIsQuiet == HelpersSpec => []StableMeansQuiet
<1>1. HelpersInit => QuietInv
  BY WatchInit DEF HelpersInit
<1>2. QuietInv /\ [HelpersNext]_<<helper, vars, stableVars>> => QuietInv'
  BY EitherStep, QuietStep
<1>3. QuietInv => StableMeansQuiet
  BY DEF QuietInv
<1> QED
  BY <1>1, <1>2, <1>3, PTL DEF HelpersSpec

\* WaitForConfigMapStable times out only because of a late write, however long an answer
\* takes.
THEOREM TimeoutIsLateWrite == HelpersSpec => []TimeoutMeansWritten
<1>1. HelpersInit => QuietInv /\ LateInv
  BY WatchInit DEF HelpersInit
<1>2. QuietInv /\ LateInv /\ [HelpersNext]_<<helper, vars, stableVars>> => QuietInv' /\ LateInv'
  BY EitherStep, QuietStep, LateStep
<1>3. LateInv => TimeoutMeansWritten
  BY DEF LateInv
<1> QED
  BY <1>1, <1>2, <1>3, PTL DEF HelpersSpec

=============================================================================
