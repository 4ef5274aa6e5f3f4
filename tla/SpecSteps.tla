------------------------------ MODULE SpecSteps ------------------------------
(***************************************************************************)
(* The steps that the programs of FDLifecycle's specs are made of.         *)
(***************************************************************************)
EXTENDS Naturals, Sequences

\* The steps that programs are made of.
Do(op)         == [op |-> op, arg |-> ""]
Expect(cond)   == [op |-> "expect", arg |-> cond]
Await(cond)    == [op |-> "await", arg |-> cond]
Defer(cleanup) == [op |-> "defer", arg |-> cleanup]

Changes    == {Do(op) : op \in {"removeFD", "removeVC", "volume", "deleteVolume", "namespace", "smoke",
                               "force", "scrape"}}
Conditions == {"detached", "attached", "noOrphan", "orphan", "healthy"}
Events     == {"detect", "detach", "skip"}
Undo       == {"restore", "restoreHealthy", "deleteVolume", "deleteNamespace", "unforce"}
Step       == Changes \cup {Await(c) : c \in Conditions} \cup {Expect(c) : c \in Conditions \cup Events}
                      \cup {Defer(u) : u \in Undo}

\* The steps a spec may skip itself at with any policy, and those that create a volume.
MaySkip == {"volume", "namespace", "scrape"}
Fills   == {"volume", "smoke"}

\* Before step k of prog: the volume's removal is registered; or a later step
\* registers it, or removes the volume, and the spec gets there unless it fails
\* or its removal of the FD is denied.
Removals == {Defer("deleteVolume"), Do("deleteVolume")}
VolumeHandled(prog, k) ==
    \/ \E j \in 1..Len(prog) : j < k /\ prog[j] = Defer("deleteVolume")
    \/ \E j \in 1..Len(prog) :
          /\ j >= k /\ prog[j] \in Removals
          /\ \A i \in 1..Len(prog) : i >= k /\ i <= j => prog[i].op \notin MaySkip

\* A spec registers the restore of Infrastructure once, before it changes it;
\* it removes the vCenter after its FD; the removal of the annotation, and of a
\* namespace of its own, is registered as soon as it has made them; and its
\* volume is in its namespace, and is handled.
RestoreUndo == {"restore", "restoreHealthy"}
Restores    == {Defer(u) : u \in RestoreUndo}
FollowedBy(prog, op, step) ==
    \A i \in 1..Len(prog) : prog[i].op = op => i < Len(prog) /\ prog[i + 1] = step
Scoped(prog) ==
    /\ \A i, j \in 1..Len(prog) : prog[i] \in Restores /\ prog[j] \in Restores => i = j
    /\ \A i \in 1..Len(prog) : prog[i].op \in {"removeFD", "removeVC"} =>
          \E j \in 1..Len(prog) : j < i /\ prog[j] \in Restores
    /\ \A i \in 1..Len(prog) : prog[i].op = "removeVC" =>
          \E j \in 1..Len(prog) : j < i /\ prog[j].op = "removeFD"
    /\ FollowedBy(prog, "force", Defer("unforce"))
    /\ FollowedBy(prog, "namespace", Defer("deleteNamespace"))
    /\ \A i \in 1..Len(prog) : prog[i].op = "smoke" =>
          \E j \in 1..Len(prog) : j < i /\ prog[j].op = "namespace"
    /\ \A i \in 1..Len(prog) : prog[i].op \in Fills => VolumeHandled(prog, i + 1)
=============================================================================
