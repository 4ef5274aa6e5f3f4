----------------------------- MODULE MCHelpers -----------------------------
(***************************************************************************)
(* The two small concurrent helpers of pkg/framework, each by itself: a    *)
(* behaviour is one of DHCPRelease or one of StableWatch.                  *)
(***************************************************************************)
EXTENDS DHCPRelease

CONSTANTS Window, Grace, Interval, Delay, MaxWrites

ASSUME TimeAssumption ==
    /\ Window \in Nat \ {0} /\ Interval \in Nat \ {0}
    /\ Grace \in Nat /\ Delay \in Nat /\ MaxWrites \in Nat

VARIABLES
    helper,
    now, resourceVersion, writtenAt, got, lastVersion, stableSince, pollAt, quiet, result

Stable == INSTANCE StableWatch

stableVars == <<now, resourceVersion, writtenAt, got, lastVersion, stableSince, pollAt, quiet, result>>

Dhcp(A)  == helper = "dhcp" /\ A /\ UNCHANGED <<helper, stableVars>>
Watch(A) == helper = "stable" /\ A /\ UNCHANGED <<helper, vars>>

HelpersInit == helper \in {"dhcp", "stable"} /\ Init /\ Stable!Init
HelpersNext == Dhcp(Next) \/ Watch(Stable!Next)

\* The Go scheduler runs every goroutine, channels and mutexes serve their waiters in
\* turn, every command ends by its timeout, and the clock goes on.
HelpersFair ==
    /\ WF_<<helper, vars, stableVars>>(Dhcp(Caller))
    /\ \A n \in Node : SF_<<helper, vars, stableVars>>(Dhcp(Goroutine(n)))
    /\ WF_<<helper, vars, stableVars>>(Watch(Stable!Clock))

HelpersSpec == HelpersInit /\ [][HelpersNext]_<<helper, vars, stableVars>> /\ HelpersFair

\* A ConfigMap that is called stable was not written for the window.
StableMeansQuiet == Stable!StableMeansQuiet

\* WaitForConfigMapStable times out only because of a late write.
TimeoutMeansWritten == Stable!TimeoutMeansWritten

\* ReleaseDHCPLeases and WaitForConfigMapStable return, whatever the Nodes and the
\* writers do.
HelpersReturn == <>(caller = "returned" \/ result # "none")
=============================================================================
