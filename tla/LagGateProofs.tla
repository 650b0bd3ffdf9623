--------------------------- MODULE LagGateProofs ---------------------------
(***************************************************************************)
(* What the gate guarantees for every lag, delay and grace period.         *)
(***************************************************************************)
EXTENDS LagGate, FiniteSetTheorems, TLAPS

TypesInv == TypeOK /\ PolledInTime

LEMMA InitTypes == Init => TypesInv
<1> SUFFICES ASSUME Init PROVE TypesInv
  OBVIOUS
<1>1. samples \in [Minutes -> (0..MaxLag) \cup {NoPoint}]
  BY DEF Init
<1>2. behind = 0 /\ oldest = 0 /\ stopping = 0 /\ waited = 0 /\ polled = FALSE
  BY DEF Init
<1>3. pods = "up" /\ pc = "ready"
  BY DEF Init
<1>4. 0 \in 0..MaxLag /\ 0 \in 0..Window /\ 0 \in 0..Grace /\ 0 \in 0..Deadline
  BY LagBounds, TimeBounds DEF Window, Deadline
<1> QED
  BY <1>1, <1>2, <1>3, <1>4 DEF TypesInv, TypeOK, PolledInTime

LEMMA PollTypes ==
  ASSUME TypesInv, NEW step \in {"ready", "lag"}, NEW satisfied \in BOOLEAN,
         NEW next \in {"scale", "promoted"}, Poll(step, satisfied, next)
  PROVE  TypesInv'
<1>1. pc' \in {next, "failed", step} /\ (pc' = step => waited # Deadline)
  BY DEF Poll
<1>2. waited' \in 0..Deadline /\ polled' \in BOOLEAN /\ (polled' => waited' < Deadline)
  BY <1>1 DEF TypesInv, TypeOK, Poll, Deadline
<1> QED
  BY <1>1, <1>2 DEF TypesInv, TypeOK, PolledInTime, Poll, source

LEMMA MinuteTypes == TypesInv /\ Minute => TypesInv'
<1> SUFFICES ASSUME TypesInv, Minute PROVE TypesInv'
  OBVIOUS
<1>1. samples' \in [Minutes -> (0..MaxLag) \cup {NoPoint}]
  <2>1. PICK point \in {behind, NoPoint} :
          samples' = [age \in Minutes |-> IF age = 0 THEN point ELSE samples[age - 1]]
    BY DEF Minute
  <2>2. \A age \in Minutes : age # 0 => age - 1 \in Minutes
    BY DEF Minutes, Window
  <2> QED
    BY <2>1, <2>2 DEF TypesInv, TypeOK
<1>2. waited' \in 0..Deadline
  BY DEF Minute, TypesInv, TypeOK, PolledInTime, Deadline
<1>3. oldest' \in 0..Window
  BY DEF Minute, TypesInv, TypeOK, Window
<1>4. stopping' \in 0..Grace
  BY TimeBounds DEF Minute, TypesInv, TypeOK
<1>5. polled' = FALSE /\ UNCHANGED <<behind, pods, pc>>
  BY DEF Minute
<1> QED
  BY <1>1, <1>2, <1>3, <1>4, <1>5 DEF TypesInv, TypeOK, PolledInTime

LEMMA NextTypes == TypesInv /\ [Next]_vars => TypesInv'
<1> SUFFICES ASSUME TypesInv, [Next]_vars PROVE TypesInv'
  OBVIOUS
<1> USE LagBounds, TimeBounds DEF TypesInv, PolledInTime
<1>1. ASSUME NEW delay \in 0..MaxDelay, CheckReady(delay) PROVE TypesInv'
  BY <1>1, PollTypes DEF CheckReady, LagAcceptablyLow
<1>2. ASSUME NEW delay \in 0..MaxDelay, AwaitZeroLag(delay) PROVE TypesInv'
  BY <1>2, PollTypes DEF AwaitZeroLag, LagReachedZero
<1>3. CASE Scale
  BY <1>3 DEF Scale, TypeOK, source
<1>4. CASE RunAgain
  BY <1>4 DEF RunAgain, TypeOK, source
<1>5. CASE Write
  BY <1>5 DEF Write, TypeOK, Window, gate
<1>6. CASE Replicate
  BY <1>6 DEF Replicate, TypeOK, Window, gate
<1>7. CASE PodsStop
  BY <1>7 DEF PodsStop, TypeOK, source, gate
<1>8. CASE Minute
  BY <1>8, MinuteTypes
<1>9. CASE UNCHANGED vars
  BY <1>9 DEF vars, source, gate, TypeOK
<1> QED
  BY <1>1, <1>2, <1>3, <1>4, <1>5, <1>6, <1>7, <1>8, <1>9 DEF Next

LEMMA TypesHold == Spec => []TypesInv
  BY InitTypes, NextTypes, PTL DEF Spec

\* For every window, delay and grace period: the points, the rows that lag and the clock of the
\* retry loop stay within what a poll and a request of the gate can meet.
THEOREM GateTypes == Spec => []TypeOK
  BY TypesHold, PTL DEF TypesInv

-----------------------------------------------------------------------------
(* What a zero point says *)

LEMMA MinuteZero == TypesInv /\ ZeroMeansComplete /\ Minute => ZeroMeansComplete'
<1> SUFFICES ASSUME TypesInv, ZeroMeansComplete, Minute,
                    NEW age \in Minutes, samples'[age] = 0, behind' > 0
             PROVE  oldest' <= age
  BY DEF ZeroMeansComplete
<1>1. PICK point \in {behind, NoPoint} :
        samples' = [a \in Minutes |-> IF a = 0 THEN point ELSE samples[a - 1]]
  BY DEF Minute
<1>2. behind \in Nat /\ behind > 0 /\ oldest \in Nat
  BY LagBounds DEF Minute, TypesInv, TypeOK, Window
<1>3. age # 0
  BY <1>1, <1>2, LagBounds
<1>4. age - 1 \in Minutes /\ samples[age - 1] = 0
  BY <1>1, <1>3 DEF Minutes, Window
<1>5. oldest <= age - 1
  BY <1>2, <1>4 DEF ZeroMeansComplete
<1>6. oldest' <= oldest + 1
  BY <1>2 DEF Minute, TypesInv, TypeOK, Window
<1>7. oldest' \in Nat
  BY MinuteTypes DEF TypesInv, TypeOK, Window
<1> QED
  BY <1>2, <1>5, <1>6, <1>7 DEF Minutes, Window

LEMMA NextZero == TypesInv /\ ZeroMeansComplete /\ [Next]_vars => ZeroMeansComplete'
<1> SUFFICES ASSUME TypesInv, ZeroMeansComplete, [Next]_vars PROVE ZeroMeansComplete'
  OBVIOUS
<1> USE DEF ZeroMeansComplete
<1>1. ASSUME UNCHANGED <<source, samples>> PROVE ZeroMeansComplete'
  BY <1>1 DEF source
<1>2. CASE Write
  BY <1>2, LagBounds DEF Write, TypesInv, TypeOK, Minutes, Window
<1>3. CASE Replicate
  <2>1. behind' \in Nat /\ (behind' > 0 => behind > 0) /\ oldest' <= oldest
    BY <1>3, LagBounds DEF Replicate, TypesInv, TypeOK, Window
  <2>2. oldest \in Nat /\ oldest' \in Nat /\ samples' = samples
    BY <1>3 DEF Replicate, TypesInv, TypeOK, Window
  <2> QED
    BY <2>1, <2>2 DEF Minutes, Window
<1>4. CASE Minute
  BY <1>4, MinuteZero
<1>5. CASE \E delay \in 0..MaxDelay : CheckReady(delay) \/ AwaitZeroLag(delay)
  BY <1>1, <1>5 DEF CheckReady, AwaitZeroLag, Poll
<1>6. CASE Scale \/ RunAgain \/ PodsStop
  BY <1>1, <1>6 DEF Scale, RunAgain, PodsStop
<1>7. CASE UNCHANGED vars
  BY <1>1, <1>7 DEF vars
<1> QED
  BY <1>2, <1>3, <1>4, <1>5, <1>6, <1>7 DEF Next

\* At any time, also in a run in which points are missed or late: rows that are missing
\* after a zero point are younger than the point.  It is what a request of the gate
\* (promote.go, lagReachedZero) can conclude from a point of the lag.
THEOREM ZeroPointsTell == Spec => []ZeroMeansComplete
<1>1. Init => ZeroMeansComplete
  BY LagBounds DEF Init, ZeroMeansComplete
<1> QED
  BY <1>1, NextZero, TypesHold, PTL DEF Spec

-----------------------------------------------------------------------------
(* The points of a request *)

LEMMA SmallIntervals ==
  /\ IsFiniteSet(0..4)
  /\ IsFiniteSet(0..1) /\ Cardinality(0..1) = 2
  /\ IsFiniteSet(3..4) /\ Cardinality(3..4) = 2
<1>1. \A a, b \in Int : IsFiniteSet(a..b) /\ (a <= b => Cardinality(a..b) = b - a + 1)
  BY FS_Interval
<1>2. ASSUME NEW a \in Int, NEW b \in Int, b = a + 1
      PROVE  IsFiniteSet(a..b) /\ Cardinality(a..b) = 2
  BY <1>1, <1>2
<1>3. 0 \in Int /\ 1 \in Int /\ 3 \in Int /\ 4 \in Int /\ 1 = 0 + 1 /\ 4 = 3 + 1
  OBVIOUS
<1>4. IsFiniteSet(0..4)
  BY <1>1, <1>3, Zenon
<1>5. IsFiniteSet(0..1) /\ Cardinality(0..1) = 2
  BY <1>2, <1>3, Zenon
<1>6. IsFiniteSet(3..4) /\ Cardinality(3..4) = 2
  BY <1>2, <1>3, Zenon
<1> QED
  BY <1>4, <1>5, <1>6

\* Three points of a window of five: one of them is in its last three minutes, and it is
\* among the newest three.
LEMMA RecentZero ==
  ASSUME TypesInv, NEW delay \in 0..MaxDelay, LagReachedZero(delay)
  PROVE  \E age \in Minutes : age <= Window - ZeroPoints /\ samples[age] = 0
<1> DEFINE P == Points(delay)
<1>1. P \subseteq 0..4 /\ Cardinality(P) >= 3
  BY DEF Points, LagReachedZero, Minutes, Window, ZeroPoints
<1>2. IsFiniteSet(P) /\ Cardinality(P) \in Nat
  <2>1. IsFiniteSet(0..4)
    BY SmallIntervals
  <2> QED
    BY <1>1, <2>1, FS_Subset, FS_CardinalityType
<1>3. PICK age \in P : age <= 2
  <2>1. SUFFICES ASSUME \A age \in P : ~(age <= 2) PROVE FALSE
    OBVIOUS
  <2>2. P \subseteq 3..4
    BY <1>1, <2>1
  <2>3. IsFiniteSet(3..4) /\ Cardinality(3..4) = 2
    BY SmallIntervals
  <2>4. Cardinality(P) <= 2
    BY <2>2, <2>3, FS_Subset
  <2> QED
    BY <1>1, <1>2, <2>4
<1> DEFINE before == {p \in P : p < age}
<1>4. Cardinality(before) < 3
  <2>1. before \subseteq 0..1
    BY <1>1, <1>3
  <2>2. IsFiniteSet(0..1) /\ Cardinality(0..1) = 2
    BY SmallIntervals
  <2>3. IsFiniteSet(before) /\ Cardinality(before) <= 2
    BY <2>1, <2>2, FS_Subset
  <2>4. Cardinality(before) \in Nat
    BY <2>3, FS_CardinalityType
  <2> QED
    BY <2>3, <2>4
<1>5. age \in Newest(ZeroPoints, Points(delay))
  BY <1>3, <1>4 DEF Newest, ZeroPoints
<1>6. samples[age] = 0
  BY <1>5 DEF LagReachedZero
<1> QED
  BY <1>1, <1>3, <1>6 DEF Minutes, Window, ZeroPoints

\* Zero points in the last minutes, as many as are asked for and as can be late, satisfy
\* the gate.
LEMMA ZerosSuffice ==
  ASSUME TypesInv, NEW delay \in 0..MaxDelay,
         \A age \in 0 .. MaxDelay + ZeroPoints - 1 : samples[age] = 0
  PROVE  LagReachedZero(delay)
<1> DEFINE P == Points(delay)
           last == delay .. delay + 2
<1>1. delay \in Nat /\ delay + 2 <= 4
  BY TimeBounds DEF Window, ZeroPoints
<1>2. \A age \in last : age \in Minutes /\ samples[age] = 0
  BY <1>1, TimeBounds DEF Minutes, Window, ZeroPoints
<1>3. last \subseteq P
  BY <1>1, <1>2, LagBounds DEF Points
<1>4. Cardinality(last) = 3
  BY <1>1, FS_Interval
<1>5. IsFiniteSet(P)
  <2>1. IsFiniteSet(0..4) /\ P \subseteq 0..4
    BY SmallIntervals DEF Points, Minutes, Window
  <2> QED
    BY <2>1, FS_Subset
<1>6. Cardinality(P) >= ZeroPoints
  BY <1>3, <1>4, <1>5, FS_Subset DEF ZeroPoints
<1>7. ASSUME NEW age \in Newest(ZeroPoints, P) PROVE samples[age] = 0
  <2> DEFINE before == {p \in P : p < age}
  <2>1. age \in P /\ Cardinality(before) < 3
    BY <1>7 DEF Newest, ZeroPoints
  <2>2. age \in Nat /\ age >= delay
    BY <2>1 DEF Points, Minutes, Window
  <2>3. ~(last \subseteq before)
    <3>1. SUFFICES ASSUME last \subseteq before PROVE FALSE
      OBVIOUS
    <3>2. before \subseteq P
      OBVIOUS
    <3>3. IsFiniteSet(before)
      BY <1>5, <3>2, FS_Subset
    <3>4. 3 <= Cardinality(before) /\ Cardinality(before) \in Nat
      BY <1>4, <3>1, <3>3, FS_Subset, FS_CardinalityType
    <3> QED
      BY <2>1, <3>4
  <2>4. age \in last
    BY <1>1, <1>3, <2>2, <2>3
  <2> QED
    BY <1>2, <2>4
<1> QED
  BY <1>6, <1>7 DEF LagReachedZero

-----------------------------------------------------------------------------
(* The outcome of the wait *)

\* The wait of the gate ends, one way or the other, only in AwaitZeroLag.
LEMMA OnlyTheWait ==
  ASSUME Next, pc = "lag", pc' \in {"promoted", "failed"}
  PROVE  \E delay \in 0..MaxDelay : AwaitZeroLag(delay)
<1>1. ASSUME NEW delay \in 0..MaxDelay, CheckReady(delay) PROVE FALSE
  BY <1>1 DEF CheckReady, Poll
<1>2. ~(Scale \/ RunAgain \/ Write \/ Replicate \/ PodsStop \/ Minute)
  BY DEF Scale, RunAgain, Write, Replicate, PodsStop, Minute, gate
<1> QED
  BY <1>1, <1>2 DEF Next

\* For every delay, grace period and pattern of missed points: a promotion that
\* lagReachedZero let through leaves behind only rows of the last two minutes.
THEOREM OnlyRecentRowsMissing == Spec => MissingIsRecent
<1>1. TypesInv /\ ZeroMeansComplete /\ [Next]_vars =>
        [pc = "lag" /\ pc' = "promoted" => behind = 0 \/ oldest <= Window - ZeroPoints]_vars
  <2> SUFFICES ASSUME TypesInv, ZeroMeansComplete, Next, pc = "lag", pc' = "promoted",
                      behind # 0
               PROVE  oldest <= Window - ZeroPoints
    BY DEF vars, gate
  <2>1. PICK delay \in 0..MaxDelay : AwaitZeroLag(delay)
    BY OnlyTheWait
  <2>2. LagReachedZero(delay)
    BY <2>1 DEF AwaitZeroLag, Poll
  <2>3. PICK age \in Minutes : age <= Window - ZeroPoints /\ samples[age] = 0
    BY <2>2, RecentZero
  <2>4. behind > 0 /\ oldest \in Nat
    BY LagBounds DEF TypesInv, TypeOK, Window
  <2>5. oldest <= age
    BY <2>3, <2>4 DEF ZeroMeansComplete
  <2> QED
    BY <2>3, <2>4, <2>5 DEF Minutes, Window, ZeroPoints
<1> QED
  BY <1>1, TypesHold, ZeroPointsTell, PTL DEF Spec, MissingIsRecent

\* For every delay within TimeBounds: the wait for zero lag gives up only if the source was
\* ahead or a point missing in the last minutes.
THEOREM GivesUpOnlyForCause == Spec => GivesUpForCause
<1>1. TypesInv /\ [Next]_vars =>
        [pc = "lag" /\ pc' = "failed" =>
            \E age \in 0 .. MaxDelay + ZeroPoints - 1 : samples[age] # 0]_vars
  <2> SUFFICES ASSUME TypesInv, Next, pc = "lag", pc' = "failed",
                      \A age \in 0 .. MaxDelay + ZeroPoints - 1 : samples[age] = 0
               PROVE  FALSE
    BY DEF vars, gate
  <2>1. PICK delay \in 0..MaxDelay : AwaitZeroLag(delay)
    BY OnlyTheWait
  <2>2. LagReachedZero(delay)
    BY ZerosSuffice
  <2> QED
    BY <2>1, <2>2 DEF AwaitZeroLag, Poll
<1> QED
  BY <1>1, TypesHold, PTL DEF Spec, GivesUpForCause
=============================================================================
