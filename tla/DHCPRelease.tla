---------------------------- MODULE DHCPRelease ----------------------------
(***************************************************************************)
(* ReleaseDHCPLeases: one goroutine for each Node of a MachineSet, of      *)
(* which Slots at a time run `oc debug' on their Node; the ones that       *)
(* succeed count themselves under a mutex, and the caller waits for all.   *)
(*                                                                         *)
(* A command that is ended by its timeout, or by the caller's context,     *)
(* counts as a success: usually the Node has lost its network by then.     *)
(***************************************************************************)
EXTENDS Integers, FiniteSets

CONSTANTS
    Node,       \* Nodes of the Machines of the set
    Slots       \* capacity of the semaphore

NoNode == "none"

ASSUME NodeAssumption == IsFiniteSet(Node) /\ NoNode \notin Node /\ Slots \in Nat

VARIABLES
    caller,     \* what the caller does: "list", "spawn", "wait" or "returned"
    nodes,      \* Nodes that are still to get a goroutine
    pc,         \* of the goroutines
    wg, sem,    \* the WaitGroup's counter and the filled slots of the channel
    mu,         \* who holds the mutex
    reg,        \* what a goroutine has read of released
    released,
    failed,     \* whether the caller returned an error
    cancelled,  \* whether the caller's context has ended
    succeeded   \* history: Nodes on which releaseDHCPOnNode returned no error

vars == <<caller, nodes, pc, wg, sem, mu, reg, released, failed, cancelled, succeeded>>

Init ==
    /\ caller = "list" /\ nodes = {} /\ pc = [n \in Node |-> "none"]
    /\ wg = 0 /\ sem = 0 /\ mu = NoNode /\ reg = [n \in Node |-> 0] /\ released = 0
    /\ failed = FALSE /\ cancelled = FALSE /\ succeeded = {}

Going(n, from, to) == pc[n] = from /\ pc' = [pc EXCEPT ![n] = to]

Return(err) == caller' = "returned" /\ failed' = err

\* The Machines with a Node and without a deletion timestamp; with none there is
\* nothing to do.
List ==
    /\ caller = "list"
    /\ \/ Return(TRUE) /\ UNCHANGED nodes
       \/ \E listed \in SUBSET Node :
            /\ nodes' = listed
            /\ IF listed = {} THEN Return(FALSE) ELSE caller' = "spawn" /\ UNCHANGED failed
    /\ UNCHANGED <<pc, wg, sem, mu, reg, released, cancelled, succeeded>>

Spawn(n) ==
    /\ caller = "spawn" /\ n \in nodes /\ nodes' = nodes \ {n}
    /\ wg' = wg + 1 /\ pc' = [pc EXCEPT ![n] = "start"]
    /\ UNCHANGED <<caller, sem, mu, reg, released, failed, cancelled, succeeded>>

SpawnedAll ==
    /\ caller = "spawn" /\ nodes = {} /\ caller' = "wait"
    /\ UNCHANGED <<nodes, pc, wg, sem, mu, reg, released, failed, cancelled, succeeded>>

Acquire(n) ==
    /\ Going(n, "start", "run") /\ sem < Slots /\ sem' = sem + 1
    /\ UNCHANGED <<caller, nodes, wg, mu, reg, released, failed, cancelled, succeeded>>

\* oc debug ends by itself, by its timeout or with the context; only the first can be
\* an error.
ReleaseDHCPOnNode(n) ==
    /\ \/ Going(n, "run", "lock") /\ succeeded' = succeeded \union {n}
       \/ Going(n, "run", "leave") /\ ~cancelled /\ UNCHANGED succeeded
    /\ UNCHANGED <<caller, nodes, wg, sem, mu, reg, released, failed, cancelled>>

\* Mutant: released is counted without the mutex.
LockNothing(n) ==
    /\ Going(n, "lock", "load")
    /\ UNCHANGED <<caller, nodes, wg, sem, mu, reg, released, failed, cancelled, succeeded>>

Lock(n) ==
    /\ Going(n, "lock", "load") /\ mu = NoNode /\ mu' = n
    /\ UNCHANGED <<caller, nodes, wg, sem, reg, released, failed, cancelled, succeeded>>

Load(n) ==
    /\ Going(n, "load", "store") /\ reg' = [reg EXCEPT ![n] = released]
    /\ UNCHANGED <<caller, nodes, wg, sem, mu, released, failed, cancelled, succeeded>>

Store(n) ==
    /\ Going(n, "store", "unlock") /\ released' = reg[n] + 1
    /\ UNCHANGED <<caller, nodes, wg, sem, mu, reg, failed, cancelled, succeeded>>

Unlock(n) ==
    /\ Going(n, "unlock", "leave") /\ mu' = NoNode
    /\ UNCHANGED <<caller, nodes, wg, sem, reg, released, failed, cancelled, succeeded>>

\* Mutant: the slot is freed only after a success.
FreeSlotAfterSuccess(n) ==
    /\ Going(n, "leave", "finish") /\ sem' = (IF n \in succeeded THEN sem - 1 ELSE sem)
    /\ UNCHANGED <<caller, nodes, wg, mu, reg, released, failed, cancelled, succeeded>>

\* The deferred calls: first the slot, then the WaitGroup.
FreeSlot(n) ==
    /\ Going(n, "leave", "finish") /\ sem' = sem - 1
    /\ UNCHANGED <<caller, nodes, wg, mu, reg, released, failed, cancelled, succeeded>>

WgDone(n) ==
    /\ Going(n, "finish", "done") /\ wg' = wg - 1
    /\ UNCHANGED <<caller, nodes, sem, mu, reg, released, failed, cancelled, succeeded>>

Wait ==
    /\ caller = "wait" /\ wg = 0 /\ Return(released = 0)
    /\ UNCHANGED <<nodes, pc, wg, sem, mu, reg, released, cancelled, succeeded>>

Cancel ==
    /\ ~cancelled /\ cancelled' = TRUE
    /\ UNCHANGED <<caller, nodes, pc, wg, sem, mu, reg, released, failed, succeeded>>

Goroutine(n) ==
    Acquire(n) \/ ReleaseDHCPOnNode(n) \/ Lock(n) \/ Load(n) \/ Store(n) \/ Unlock(n)
    \/ FreeSlot(n) \/ WgDone(n)

Caller == List \/ SpawnedAll \/ Wait \/ \E n \in Node : Spawn(n)

Next == Caller \/ Cancel \/ \E n \in Node : Goroutine(n)

Spec == Init /\ [][Next]_vars

(***************************************************************************)
(* Properties.                                                             *)
(***************************************************************************)
Critical == {"load", "store", "unlock"}
Inside   == {"run", "lock", "leave"} \union Critical

TypeOK ==
    /\ caller \in {"list", "spawn", "wait", "returned"} /\ nodes \subseteq Node
    /\ pc \in [Node -> {"none", "start", "finish", "done"} \union Inside]
    /\ wg \in Nat /\ sem \in Nat /\ released \in Nat /\ reg \in [Node -> Nat]
    /\ mu \in Node \union {NoNode}
    /\ failed \in BOOLEAN /\ cancelled \in BOOLEAN /\ succeeded \subseteq Node

\* At most Slots Nodes are worked on at a time (node.go:50-57).
SlotsRespected == Cardinality({n \in Node : pc[n] \in Inside}) <= Slots

\* When ReleaseDHCPLeases returns no goroutine is left, every one that succeeded has
\* been counted once, and the error says that none has (node.go:45-75; "Returns an
\* error only if zero nodes could be processed").
CountedWhenReturned ==
    caller = "returned" =>
        /\ \A n \in Node : pc[n] \in {"none", "done"}
        /\ released = Cardinality(succeeded)
        /\ (\E n \in Node : pc[n] = "done") => (failed <=> succeeded = {})

\* What the counters count, who holds the mutex, and who has succeeded.
Started == {n \in Node : pc[n] \notin {"none", "done"}}
Within  == {n \in Node : pc[n] \in Inside}
Counted == {n \in succeeded : pc[n] \notin {"lock", "load", "store"}}
CountInv ==
    /\ wg = Cardinality(Started) /\ sem = Cardinality(Within) /\ sem <= Slots
    /\ released = Cardinality(Counted)
    /\ \A n \in Node : pc[n] \in Critical <=> mu = n
    /\ \A n \in Node : pc[n] = "store" => reg[n] = released
    /\ \A n \in Node : pc[n] \in {"lock", "load", "store", "unlock"} => n \in succeeded
    /\ \A n \in Node : pc[n] \in {"none", "start", "run"} => n \notin succeeded

\* A goroutine is started once, and all of them before the caller waits.
CallerInv ==
    /\ \A n \in nodes : pc[n] = "none"
    /\ caller = "list" => nodes = {} /\ \A n \in Node : pc[n] = "none"
    /\ caller = "wait" => nodes = {}
    /\ CountedWhenReturned

\* The inductive invariant.
IInv == TypeOK /\ CountInv /\ CallerInv
=============================================================================
