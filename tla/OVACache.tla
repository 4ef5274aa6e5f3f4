------------------------------- MODULE OVACache -------------------------------
(***************************************************************************)
(* DownloadOVAToDir (pkg/vsphere/image.go): processes of the test suite    *)
(* share a directory of downloaded RHCOS images.  The file of an image is  *)
(* named after the last element of its URL, is guarded by an flock on a    *)
(* file beside it and is put in place by a rename; a process that dies     *)
(* loses its lock to the kernel and leaves its temporary file behind.      *)
(*                                                                         *)
(* One image name is modelled.  Its content is Good when it has the SHA256 *)
(* of the release that goes by this name.                                  *)
(***************************************************************************)
EXTENDS Naturals, FiniteSets

CONSTANTS
    Process,    \* the processes that need the image
    Free        \* holder of the lock nobody holds

ASSUME FreeAssumption == Free \notin Process

\* Content of a file; "partial" while it is being written.
Content == {"none", "partial", "bad", "good"}

VARIABLES
    pc,        \* where each process is
    checked,   \* whether the process expects a SHA256
    lock,      \* the process that holds the flock
    cache,     \* content of the image's file
    temp,      \* content of the temporary file of each process
    used       \* what a process found in the file it was given the path of

vars == <<pc, checked, lock, cache, temp, used>>

Label == {"start", "lock", "check", "fetch", "temp", "verify", "rename",
          "ok", "error", "use", "done", "failed", "dead"}

\* The directory may hold any complete file; nothing else is ever renamed there.
Init ==
    /\ pc = [p \in Process |-> "start"]
    /\ checked \in [Process -> BOOLEAN]
    /\ lock = Free
    /\ cache \in {"none", "bad", "good"}
    /\ temp = [p \in Process |-> "none"]
    /\ used = [p \in Process |-> "none"]

Goto(p, label) == pc' = [pc EXCEPT ![p] = label]

\* The directory or the lock file cannot be created: the call returns at once.
Start(p) ==
    /\ pc[p] = "start"
    /\ Goto(p, "lock") \/ Goto(p, "failed")
    /\ UNCHANGED <<checked, lock, cache, temp, used>>

\* Mutant: the lock is opened but not taken.
AcquireNothing(p) ==
    /\ pc[p] = "lock"
    /\ Goto(p, "check")
    /\ UNCHANGED <<checked, lock, cache, temp, used>>
Acquire(p) ==
    /\ pc[p] = "lock" /\ lock = Free
    /\ lock' = p
    /\ Goto(p, "check")
    /\ UNCHANGED <<checked, cache, temp, used>>

\* A file is as good as cached when its hash is the expected one, or when no
\* hash is expected.
\* Mutant: any file is good enough.
CachedAnyFile(p) == cache # "none"
Cached(p) == IF checked[p] THEN cache = "good" ELSE cache # "none"

\* A file whose hash cannot be read is downloaded again.
CheckCache(p) ==
    /\ pc[p] = "check"
    /\ \/ Cached(p) /\ Goto(p, "ok")
       \/ (checked[p] \/ ~Cached(p)) /\ Goto(p, "fetch")
    /\ UNCHANGED <<checked, lock, cache, temp, used>>

\* The request fails, or the server answers something else than 200.
FetchFails(p) ==
    /\ pc[p] = "fetch"
    /\ Goto(p, "error")
    /\ UNCHANGED <<checked, lock, cache, temp, used>>

CreateTemp(p) ==
    /\ pc[p] = "fetch"
    /\ temp' = [temp EXCEPT ![p] = "partial"]
    /\ Goto(p, "temp")
    /\ UNCHANGED <<checked, lock, cache, used>>

\* The server may send something else than the release.
Copy(p) ==
    /\ pc[p] = "temp"
    /\ \E content \in {"bad", "good"} : temp' = [temp EXCEPT ![p] = content]
    /\ Goto(p, "verify")
    /\ UNCHANGED <<checked, lock, cache, used>>

CopyFails(p) ==
    /\ pc[p] = "temp"
    /\ Goto(p, "error")
    /\ UNCHANGED <<checked, lock, cache, temp, used>>

Verify(p) ==
    /\ pc[p] = "verify"
    /\ Goto(p, IF checked[p] /\ temp[p] # "good" THEN "error" ELSE "rename")
    /\ UNCHANGED <<checked, lock, cache, temp, used>>

Rename(p) ==
    /\ pc[p] = "rename"
    /\ \/ /\ cache' = temp[p]
          /\ temp' = [temp EXCEPT ![p] = "none"]
          /\ Goto(p, "ok")
       \/ Goto(p, "error") /\ UNCHANGED <<cache, temp>>
    /\ UNCHANGED <<checked, lock, used>>

\* The deferred calls: remove the temporary file, if any, and unlock.
Return(p) ==
    /\ pc[p] \in {"ok", "error"}
    /\ temp' = [temp EXCEPT ![p] = "none"]
    /\ lock' = Free
    /\ Goto(p, IF pc[p] = "ok" THEN "use" ELSE "failed")
    /\ UNCHANGED <<checked, cache, used>>

\* ImportOVA opens the path it was given, without the lock.
Use(p) ==
    /\ pc[p] = "use"
    /\ used' = [used EXCEPT ![p] = cache]
    /\ Goto(p, "done")
    /\ UNCHANGED <<checked, lock, cache, temp>>

\* Mutant: a lock that outlives its process, as a lock file would.
DieHoldingLock(p) ==
    /\ pc[p] \notin {"start", "done", "failed", "dead"}
    /\ Goto(p, "dead")
    /\ UNCHANGED <<checked, lock, cache, temp, used>>
Die(p) ==
    /\ pc[p] \notin {"start", "done", "failed", "dead"}
    /\ lock' = IF lock = p THEN Free ELSE lock
    /\ Goto(p, "dead")
    /\ UNCHANGED <<checked, cache, temp, used>>

Step(p) ==
    \/ Start(p) \/ Acquire(p) \/ CheckCache(p) \/ FetchFails(p) \/ CreateTemp(p)
    \/ Copy(p) \/ CopyFails(p) \/ Verify(p) \/ Rename(p) \/ Return(p) \/ Use(p)

Next == \E p \in Process : Step(p) \/ Die(p)
Spec == Init /\ [][Next]_vars

\* A process that does not die goes on; a process asks for the lock only once,
\* so that weak fairness is enough for flock.
LiveSpec == Spec /\ \A p \in Process : WF_vars(Step(p))

-----------------------------------------------------------------------------
(***************************************************************************)
(* Properties.                                                             *)
(***************************************************************************)
TypeOK ==
    /\ pc \in [Process -> Label]
    /\ checked \in [Process -> BOOLEAN]
    /\ lock \in Process \cup {Free}
    /\ cache \in Content
    /\ temp \in [Process -> Content]
    /\ used \in [Process -> Content]

Critical == {"check", "fetch", "temp", "verify", "rename", "ok", "error"}

\* The inductive invariant: who is between lock and unlock holds the lock; the
\* file is complete; what is known of it there, and after a checked return,
\* stays true, although other processes go on.
IInv ==
    /\ TypeOK
    /\ cache # "partial"
    /\ \A p \in Process :
          /\ pc[p] \in Critical <=> lock = p
          /\ pc[p] \in {"fetch", "temp", "verify", "rename"} /\ ~checked[p] => cache = "none"
          /\ pc[p] \in {"verify", "rename"} => temp[p] \in {"bad", "good"}
          /\ pc[p] = "rename" /\ checked[p] => temp[p] = "good"
          /\ pc[p] \in {"ok", "use"} => Cached(p)
          /\ pc[p] = "done" => used[p] \in {"bad", "good"} /\ (checked[p] => used[p] = "good")
          /\ temp[p] # "none" => pc[p] \in Critical \cup {"dead"}

\* A process that asked for a SHA256 reads an image with this SHA256, although
\* it opens the file after the lock is gone and others come and go meanwhile.
VerifiedUse == \A p \in Process : pc[p] = "done" /\ checked[p] => used[p] = "good"

\* Nobody, not even one who opens the file without the lock or after a crash,
\* sees a file that is not there or is still being written.
CompleteUse == \A p \in Process : pc[p] = "done" => used[p] \in {"bad", "good"}

\* An image that was right is never replaced, whoever else is downloading.
GoodStays == [][cache = "good" => cache' = "good"]_vars

\* Temporary files are left behind only by processes that died.
NoStrayFiles == \A p \in Process : temp[p] # "none" => pc[p] \notin {"use", "done", "failed"}

\* Nobody waits for ever for a lock, even one whose holder died.
EveryoneReturns == \A p \in Process : pc[p] = "lock" ~> pc[p] \in {"use", "failed", "dead"}
=============================================================================
