---------------------------- MODULE OVACacheProofs ----------------------------
(***************************************************************************)
(* What OVACache guarantees to any number of processes.                    *)
(***************************************************************************)
EXTENDS OVACache, TLAPS

\* The inductive invariant holds when DownloadOVAToDir has not been called yet.
LEMMA InitInv == Init => IInv
  BY FreeAssumption DEF Init, IInv, TypeOK, Label, Content, Critical, Cached

\* No step of any process breaks the inductive invariant: with the lock held by
\* one process, only this one's step can change the file.
LEMMA StepInv == IInv /\ [Next]_vars => IInv'
<1> SUFFICES ASSUME IInv, [Next]_vars PROVE IInv'
  OBVIOUS
<1> USE FreeAssumption DEF IInv, TypeOK, Label, Content, Critical, Cached, Goto
<1>1. ASSUME NEW p \in Process, Start(p) PROVE IInv'
  BY <1>1 DEF Start
<1>2. ASSUME NEW p \in Process, Acquire(p) PROVE IInv'
  BY <1>2 DEF Acquire
<1>3. ASSUME NEW p \in Process, CheckCache(p) PROVE IInv'
  BY <1>3 DEF CheckCache
<1>4. ASSUME NEW p \in Process, FetchFails(p) PROVE IInv'
  BY <1>4 DEF FetchFails
<1>5. ASSUME NEW p \in Process, CreateTemp(p) PROVE IInv'
  BY <1>5 DEF CreateTemp
<1>6. ASSUME NEW p \in Process, Copy(p) PROVE IInv'
  BY <1>6 DEF Copy
<1>7. ASSUME NEW p \in Process, CopyFails(p) PROVE IInv'
  BY <1>7 DEF CopyFails
<1>8. ASSUME NEW p \in Process, Verify(p) PROVE IInv'
  BY <1>8 DEF Verify
<1>9. ASSUME NEW p \in Process, Rename(p) PROVE IInv'
  BY <1>9 DEF Rename
<1>10. ASSUME NEW p \in Process, Return(p) PROVE IInv'
  BY <1>10 DEF Return
<1>11. ASSUME NEW p \in Process, Use(p) PROVE IInv'
  BY <1>11 DEF Use
<1>12. ASSUME NEW p \in Process, Die(p) PROVE IInv'
  BY <1>12 DEF Die
<1>13. CASE UNCHANGED vars
  BY <1>13 DEF vars
<1> QED
  BY <1>1, <1>2, <1>3, <1>4, <1>5, <1>6, <1>7, <1>8, <1>9, <1>10, <1>11, <1>12, <1>13
     DEF Next, Step

\* In every reachable state the holder of the flock is the process between
\* lock and unlock of DownloadOVAToDir, and the image is complete.
THEOREM InductiveInvariant == Spec => []IInv
<1>1. Init => IInv
  BY InitInv
<1>2. IInv /\ [Next]_vars => IInv'
  BY StepInv
<1> QED
  BY <1>1, <1>2, PTL DEF Spec

\* A process that gave DownloadOVAToDir a SHA256 imports the image with this
\* SHA256, though it opens the file when the lock is released.
THEOREM VerifiedUseHolds == Spec => []VerifiedUse
<1>1. IInv => VerifiedUse
  BY DEF IInv, VerifiedUse
<1> QED
  BY <1>1, InductiveInvariant, PTL

\* The path DownloadOVAToDir returns never leads to a missing or a half
\* written file.
THEOREM CompleteUseHolds == Spec => []CompleteUse
<1>1. IInv => CompleteUse
  BY DEF IInv, TypeOK, Content, CompleteUse, Cached
<1> QED
  BY <1>1, InductiveInvariant, PTL

\* Only a process that died leaves a temporary file.
THEOREM NoStrayFilesHolds == Spec => []NoStrayFiles
<1>1. IInv => NoStrayFiles
  BY DEF IInv, NoStrayFiles, Critical
<1> QED
  BY <1>1, InductiveInvariant, PTL

\* The rename of DownloadOVAToDir never replaces an image that was right: a
\* process that renames has found the file wrong under the lock it still holds.
THEOREM GoodStaysHolds == Spec => GoodStays
<1>1. IInv /\ [Next]_vars => (cache = "good" => cache' = "good")
  <2> SUFFICES ASSUME IInv, [Next]_vars, cache = "good" PROVE cache' = "good"
    OBVIOUS
  <2>1. ASSUME NEW p \in Process, Rename(p) PROVE cache' = "good"
    BY <2>1 DEF IInv, TypeOK, Cached, Rename
  <2>2. ASSUME NEW p \in Process, Step(p), ~Rename(p) PROVE cache' = cache
    BY <2>2 DEF Step, Start, Acquire, CheckCache, FetchFails, CreateTemp, Copy,
                CopyFails, Verify, Return, Use
  <2>3. ASSUME NEW p \in Process, Die(p) PROVE cache' = cache
    BY <2>3 DEF Die
  <2>4. CASE UNCHANGED vars
    BY <2>4 DEF vars
  <2> QED
    BY <2>1, <2>2, <2>3, <2>4 DEF Next
<1> QED
  BY <1>1, InductiveInvariant, PTL DEF Spec, GoodStays
=============================================================================
