---------------------------- MODULE StableWatch ----------------------------
(***************************************************************************)
(* WaitForConfigMapStable: reads a ConfigMap every Interval until its      *)
(* resourceVersion has been the same for Window, or until Window + Grace   *)
(* is over.  Its writers write when they like, also between two reads.  A  *)
(* change that is seen does not fail the wait, as docs/tests/N-CM-02.md:14 *)
(* has it: it starts the window again.                                     *)
(*                                                                         *)
(* Time is counted in units; an answer takes up to Delay of them, so that  *)
(* the clock is read later than the ConfigMap.  A ticker says when to      *)
(* read; a tick that falls into an earlier read is kept, a second one is   *)
(* dropped.                                                                *)
(***************************************************************************)
EXTENDS Integers

CONSTANTS
    Window, Grace, Interval,    \* window, 30 s and 2 s in the code
    Delay,                      \* bound: how long an answer takes
    MaxWrites                   \* bound: writes of the ConfigMap

VARIABLES
    now,
    resourceVersion,            \* of the ConfigMap
    writtenAt,                  \* history: when it was written last
    got,                        \* an answer on its way: what was read and when; or none
    lastVersion, stableSince,
    pollAt,                     \* when the next read is due
    quiet,                      \* history: how long before its last read it was last written
    result

vars == <<now, resourceVersion, writtenAt, got, lastVersion, stableSince, pollAt, quiet, result>>

NoAnswer == [version |-> 0, at |-> 0]
Deadline == Window + Grace
NextTick == (now \div Interval + 1) * Interval

Init ==
    /\ now = 0 /\ resourceVersion = 1 /\ writtenAt = 0
    /\ got = NoAnswer /\ lastVersion = 0 /\ stableSince = 0 /\ pollAt = 0 /\ quiet = 0
    /\ result = "none"

Write ==
    /\ result = "none" /\ resourceVersion <= MaxWrites
    /\ resourceVersion' = resourceVersion + 1 /\ writtenAt' = now
    /\ UNCHANGED <<now, got, lastVersion, stableSince, pollAt, quiet, result>>

\* Time does not pass a read that is due, nor an answer for longer than Delay.
Tick ==
    /\ result = "none" /\ now < Deadline
    /\ IF got = NoAnswer THEN now < pollAt ELSE now < got.at + Delay
    /\ now' = now + 1
    /\ UNCHANGED <<resourceVersion, writtenAt, got, lastVersion, stableSince, pollAt, quiet, result>>

\* The read that is due.  The ticker does not wait for the answer.
GetConfigMap ==
    /\ result = "none" /\ now < Deadline /\ got = NoAnswer /\ now >= pollAt
    /\ got' = [version |-> resourceVersion, at |-> now]
    /\ quiet' = now - writtenAt /\ pollAt' = NextTick
    /\ UNCHANGED <<now, resourceVersion, writtenAt, lastVersion, stableSince, result>>

ReadFails ==
    /\ result = "none" /\ got # NoAnswer /\ result' = "error"
    /\ UNCHANGED <<now, resourceVersion, writtenAt, got, lastVersion, stableSince, pollAt, quiet>>

\* Mutant: the window is not started again.
KeepsStableSince ==
    /\ result = "none" /\ got # NoAnswer /\ got' = NoAnswer
    /\ IF got.version # lastVersion
       THEN lastVersion' = got.version /\ UNCHANGED <<stableSince, result>>
       ELSE /\ result' = (IF now - stableSince >= Window THEN "stable" ELSE "none")
            /\ UNCHANGED <<lastVersion, stableSince>>
    /\ UNCHANGED <<now, resourceVersion, writtenAt, pollAt, quiet>>

\* Mutant: it is stable only after more than the window and the grace.
LateCompare ==
    /\ result = "none" /\ got # NoAnswer /\ got' = NoAnswer
    /\ IF got.version # lastVersion
       THEN lastVersion' = got.version /\ stableSince' = now /\ UNCHANGED result
       ELSE /\ result' = (IF now - stableSince >= Deadline THEN "stable" ELSE "none")
            /\ UNCHANGED <<lastVersion, stableSince>>
    /\ UNCHANGED <<now, resourceVersion, writtenAt, pollAt, quiet>>

Compare ==
    /\ result = "none" /\ got # NoAnswer /\ got' = NoAnswer
    /\ IF got.version # lastVersion
       THEN lastVersion' = got.version /\ stableSince' = now /\ UNCHANGED result
       ELSE /\ result' = (IF now - stableSince >= Window THEN "stable" ELSE "none")
            /\ UNCHANGED <<lastVersion, stableSince>>
    /\ UNCHANGED <<now, resourceVersion, writtenAt, pollAt, quiet>>

TimesOut ==
    /\ result = "none" /\ now = Deadline /\ result' = "timeout"
    /\ UNCHANGED <<now, resourceVersion, writtenAt, got, lastVersion, stableSince, pollAt, quiet>>

\* Time passes, reads that are due are made and answered: this goes on by itself.
Clock == Tick \/ GetConfigMap \/ Compare \/ TimesOut

Next == Write \/ ReadFails \/ Clock

(***************************************************************************)
(* Properties.                                                             *)
(***************************************************************************)
\* Success means that nobody had written the ConfigMap for the window before the last
\* read, up to the time an answer takes (configmap.go:137-143).
StableMeansQuiet == result = "stable" => quiet >= Window - Delay

\* Two reads are no further apart: the next tick, or the end of a slow answer.
Gap == IF Delay > Interval THEN Delay ELSE Interval

\* The wait times out only if there was a write, and a late one: with the grace period
\* there is time for a whole window after the last, but for the two reads it takes to see
\* the write and the end of the window (configmap.go:131).
TimeoutMeansWritten == result = "timeout" => writtenAt > Grace - 2 * (Gap + Delay)
=============================================================================
