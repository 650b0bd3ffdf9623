------------------------------ MODULE LagGate -------------------------------
(***************************************************************************)
(* The gate of a promotion, in time: the readiness check, the scale-down   *)
(* and the wait for zero lag, over the points Cloud Monitoring shows.      *)
(* Migrator abstracts all this to a count of zero points and the fault     *)
(* "staleLag"; here the unit of time is the minute, in which one point of  *)
(* the lag is measured (the alignment period) and the program polls at     *)
(* least once (every 30 seconds).  Times are ages, counted from now.       *)
(***************************************************************************)
EXTENDS Naturals, FiniteSets

CONSTANTS
    MaxLag,     \* bound: rows the source can be ahead
    Acceptable, \* acceptableLagBytesForPromotion, in rows
    MaxDelay,   \* a point can be read at most so many minutes after it was measured
    Grace,      \* pods that are told to stop are gone after so many minutes
    NoPoint     \* there is no point for a minute

\* numberOfZeroPointsForLagToBeConsideredZero, the minutes a request looks back,
\* and the maximum duration of the retry loop
ZeroPoints == 3
Window     == 5
Deadline   == 10

ASSUME LagBounds == MaxLag \in Nat /\ Acceptable \in Nat /\ NoPoint \notin Nat
ASSUME TimeBounds == Grace \in Nat /\ MaxDelay \in Nat /\ MaxDelay + ZeroPoints <= Window

Minutes == 0 .. Window - 1

VARIABLES
    behind,   \* rows committed on the source that the target does not have
    oldest,   \* the age of the oldest of them, Window standing for any greater one
    samples,  \* the lag that was measured so many minutes ago
    pods,     \* "up", "stopping" or "down"
    stopping, \* minutes since the scale-down
    pc,       \* "ready", "scale" or "lag", then "promoted" or "failed"
    waited,   \* minutes in the retry loop
    polled    \* the loop has looked at the points of this minute

source == <<behind, oldest>>
gate   == <<pc, waited, polled>>
vars   == <<source, samples, pods, stopping, gate>>

TypeOK ==
    /\ behind \in 0..MaxLag /\ oldest \in 0..Window
    /\ samples \in [Minutes -> (0..MaxLag) \cup {NoPoint}]
    /\ pods \in {"up", "stopping", "down"} /\ stopping \in 0..Grace
    /\ pc \in {"ready", "scale", "lag", "promoted", "failed"}
    /\ waited \in 0..Deadline /\ polled \in BOOLEAN

Init ==
    /\ behind = 0 /\ oldest = 0
    /\ samples = [age \in Minutes |-> NoPoint]
    /\ pods = "up" /\ stopping = 0
    /\ pc = "ready" /\ waited = 0 /\ polled = FALSE

Waiting == pc \in {"ready", "lag"}

-----------------------------------------------------------------------------
(* The points of a request, when those of the last delay minutes cannot be *)
(* read yet.  Of two points the newer one comes first.                     *)

Points(delay) == {age \in Minutes : age >= delay /\ samples[age] # NoPoint}

\* points[0 : n]
Newest(n, points) == {age \in points : Cardinality({p \in points : p < age}) < n}

LagAcceptablyLow(delay) ==
    \E age \in Newest(1, Points(delay)) : samples[age] <= Acceptable

\* Mutant: one point more has to be there than is looked at.
MorePointsThanNeeded(delay) ==
    /\ Cardinality(Points(delay)) > ZeroPoints
    /\ \A age \in Newest(ZeroPoints, Points(delay)) : samples[age] = 0

LagReachedZero(delay) ==
    /\ Cardinality(Points(delay)) >= ZeroPoints
    /\ \A age \in Newest(ZeroPoints, Points(delay)) : samples[age] = 0

-----------------------------------------------------------------------------
(* The program *)

\* Mutant: the loop goes on at its deadline.
WaitPastDeadline(step, satisfied, next) ==
    /\ pc = step /\ ~polled
    /\ pc' = IF satisfied THEN next ELSE IF waited > Deadline THEN "failed" ELSE step
    /\ waited' = IF pc' = step THEN waited ELSE 0
    /\ polled' = (pc' = step)
    /\ UNCHANGED <<source, samples, pods, stopping>>

\* One round of the retry loop with its predicate; the loop gives up at the deadline.
Poll(step, satisfied, next) ==
    /\ pc = step /\ ~polled
    /\ pc' = IF satisfied THEN next ELSE IF waited = Deadline THEN "failed" ELSE step
    /\ waited' = IF pc' = step THEN waited ELSE 0
    /\ polled' = (pc' = step)
    /\ UNCHANGED <<source, samples, pods, stopping>>

CheckReady(delay) == Poll("ready", LagAcceptablyLow(delay), "scale")

Scale ==
    /\ pc = "scale"
    /\ pods' = IF pods = "up" THEN "stopping" ELSE pods
    /\ stopping' = IF pods = "up" THEN 0 ELSE stopping
    /\ pc' = "lag"
    /\ UNCHANGED <<source, samples, waited, polled>>

AwaitZeroLag(delay) == Poll("lag", LagReachedZero(delay), "promoted")

\* The operator runs promote again; the application is as the failed run left it.
RunAgain ==
    /\ pc = "failed"
    /\ pc' = "ready"
    /\ UNCHANGED <<source, samples, pods, stopping, waited, polled>>

-----------------------------------------------------------------------------
(* The world *)

Write ==
    /\ pods # "down" /\ behind < MaxLag
    /\ behind' = behind + 1
    /\ oldest' = IF behind = 0 THEN 0 ELSE oldest
    /\ UNCHANGED <<samples, pods, stopping, gate>>

\* Rows arrive on the target in the order they were committed in.
Replicate ==
    /\ pc # "promoted" /\ behind > 0
    /\ behind' \in 0 .. behind - 1
    /\ oldest' \in 0..oldest
    /\ behind' = 0 => oldest' = 0
    /\ UNCHANGED <<samples, pods, stopping, gate>>

PodsStop ==
    /\ pods = "stopping"
    /\ pods' = "down"
    /\ UNCHANGED <<source, samples, stopping, gate>>

\* A minute passes, and its point is measured, or missed.
Minute ==
    /\ Waiting => polled
    /\ pods = "stopping" => stopping < Grace
    /\ \E point \in {behind, NoPoint} :
        samples' = [age \in Minutes |-> IF age = 0 THEN point ELSE samples[age - 1]]
    /\ oldest' = IF behind = 0 THEN 0 ELSE IF oldest < Window THEN oldest + 1 ELSE oldest
    /\ stopping' = IF pods = "stopping" THEN stopping + 1 ELSE stopping
    /\ waited' = IF Waiting THEN waited + 1 ELSE waited
    /\ polled' = FALSE
    /\ UNCHANGED <<behind, pods, pc>>

Next ==
    \/ \E delay \in 0..MaxDelay : CheckReady(delay) \/ AwaitZeroLag(delay)
    \/ Scale \/ RunAgain
    \/ Write \/ Replicate \/ PodsStop \/ Minute

Spec == Init /\ [][Next]_vars

\* The program goes on, the operator repeats a promote that gave up, time passes, pods
\* are gone after their grace period, and replication makes progress.  Nothing is assumed of writes.
Fairness ==
    /\ WF_vars(Scale) /\ WF_vars(RunAgain)
    /\ WF_vars(Minute) /\ WF_vars(PodsStop) /\ WF_vars(Replicate)
    /\ WF_vars(\E delay \in 0..MaxDelay : CheckReady(delay) \/ AwaitZeroLag(delay))

FairSpec == Spec /\ Fairness

-----------------------------------------------------------------------------
(* Properties *)

\* A loop that goes on has not reached its deadline.
PolledInTime == polled => waited < Deadline

\* What a zero point says: rows the target lacks were committed after it was measured.
ZeroMeansComplete ==
    \A age \in Minutes : samples[age] = 0 /\ behind > 0 => oldest <= age

\* However long points take to be read, and however many are missed, what a promotion
\* leaves behind was committed in the minutes the request looks back less the points it
\* asks for: pods that are gone for longer have lost nothing.
MissingIsRecent ==
    [][pc = "lag" /\ pc' = "promoted" => behind = 0 \/ oldest <= Window - ZeroPoints]_vars

\* The wait gives up, leaving the application scaled down, only when the source was
\* ahead, or a point missing, in the last minutes a request can see.
GivesUpForCause ==
    [][pc = "lag" /\ pc' = "failed" =>
        \E age \in 0 .. MaxDelay + ZeroPoints - 1 : samples[age] # 0]_vars

Missed == Minute /\ samples'[0] = NoPoint

\* Unless points are missed for ever, an application that was scaled down for its
\* promotion gets it, if need be in a later run.
Promoted == <>[][~Missed]_vars => (pc = "lag" ~> pc = "promoted")

\* README, promotion phase: "the replication lag is zero (i.e. we know that the
\* databases are synchronized)".
PromotesSynchronised == [][pc = "lag" /\ pc' = "promoted" => behind = 0]_vars
=============================================================================
