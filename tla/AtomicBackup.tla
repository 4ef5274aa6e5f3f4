---------------------------- MODULE AtomicBackup ----------------------------
(***************************************************************************)
(* What README.md promises of apply-lab and restore-lab, call by call left *)
(* out: the objects are backed up at one instant, before any of them is    *)
(* changed; each change adds a vCenter to one object; restore puts objects *)
(* back to the backup, and the changes are reverted when all are.          *)
(***************************************************************************)
CONSTANTS VCenter, LabObject, Infra, SourceConfig, Absent, Unparsable, NoFile, Torn

VARIABLES
    live,    \* content of every object apply may change
    backup,  \* NoFile, Torn, or what was saved
    open     \* whether a change of apply waits to be reverted

vars == <<live, backup, open>>

Content == {Absent, Unparsable} \cup SUBSET VCenter

Init ==
    /\ live \in [LabObject -> Content]
    /\ backup = NoFile
    /\ open = FALSE

\* The backup is one snapshot of the live objects, or an unusable file.
Save ==
    /\ backup = NoFile /\ ~open
    /\ backup' \in {live, Torn}
    /\ UNCHANGED <<live, open>>

\* An unreadable config is first rebuilt from the Infrastructure.
Base(o) == IF live[o] = Unparsable THEN live[Infra] ELSE live[o]

Add(o, v) ==
    /\ backup # NoFile
    /\ live[o] # Absent
    /\ live' = [live EXCEPT ![o] = Base(o) \cup {v}]
    /\ open' = TRUE
    /\ UNCHANGED backup

Reverted == \A o \in LabObject : backup[o] # Absent => live'[o] = backup[o]

PutBack(o) ==
    /\ backup \notin {NoFile, Torn} /\ backup[o] # Absent
    /\ live' = [live EXCEPT ![o] = backup[o]]
    /\ \/ open' = open
       \/ open' = FALSE /\ Reverted
    /\ UNCHANGED backup

Next ==
    \/ Save
    \/ \E o \in LabObject, v \in VCenter : Add(o, v)
    \/ \E o \in LabObject : PutBack(o)

Spec == Init /\ [][Next]_vars
=============================================================================
