----------------------------- MODULE LinkScorer -----------------------------
(***************************************************************************)
(* The Android companion's scores: scoring/JitterLossAggregator.kt and     *)
(* scoring/LinkScorer.kt as operators.                                     *)
(*                                                                         *)
(* A sample is the total time of a successful probe, or Failed.  A link's  *)
(* health is its window of samples, from which every aggregate follows.  A *)
(* component of a score is a pair <<points, maximum>>, <<0, 0>> where the  *)
(* code has null.                                                          *)
(***************************************************************************)
EXTENDS Collections

CONSTANTS
    WindowSize   \* ProbeConfig.windowSize

ASSUME ScorerAssumption == WindowSize \in Nat \ {0}

Failed == -1
Sample == {Failed} \cup Nat

\* What a snapshot says of a network: nothing yet, that it offers Internet
\* access, or that the platform has validated it.
Snapshot == {"bare", "plain", "valid"}

\* Mutant: the oldest sample is dropped one too late.
AddSampleLate(window, sample) ==
    IF Len(window) <= WindowSize THEN Append(window, sample)
    ELSE Append(Tail(window), sample)

\* addSample().
AddSample(window, sample) ==
    IF Len(window) < WindowSize THEN Append(window, sample)
    ELSE Append(Tail(window), sample)

\* roundToInt() of num / den.
Rounded(num, den) == (2 * num + den) \div (2 * den)

\* rampDown() of the mean of n values with the given sum.
RampDown(sum, n, good, bad, points) ==
    IF sum <= good * n THEN points
    ELSE IF sum >= bad * n THEN 0
    ELSE Rounded(points * (bad * n - sum), (bad - good) * n)

Successful(window) == Filtered(window, Nat)

NotKnown == <<0, 0>>

Connectivity(snapshot) ==
    <<CASE snapshot = "valid" -> 40 [] snapshot = "plain" -> 15 [] snapshot = "bare" -> 0, 40>>

\* The share of probes that succeeded, once there are any.
Reliability(window) ==
    IF window = <<>> THEN NotKnown
    ELSE <<Rounded(30 * Len(Successful(window)), Len(window)), 30>>

\* The mean time of the successful probes, once there are any.
Latency(window) ==
    LET ok == Successful(window)
    IN  IF ok = <<>> THEN NotKnown ELSE <<RampDown(SumOf(ok), Len(ok), 80, 1500, 20), 20>>

\* The mean difference of consecutive successful probes.
Jitter(window) ==
    LET ok == Successful(window)
        distance(a, b) == IF a < b THEN b - a ELSE a - b
        steps == [k \in 1..(Len(ok) - 1) |-> distance(ok[k], ok[k + 1])]
    IN  IF Len(ok) < 2 THEN NotKnown ELSE <<RampDown(SumOf(steps), Len(steps), 0, 400, 10), 10>>

\* score(): the components of a link's score.
LinkScore(snapshot, window) ==
    <<Connectivity(snapshot), Reliability(window), Latency(window), Jitter(window)>>

\* LinkScore.total: the points of the components that are known, in percent
\* of what these components could give.
Percent(score) ==
    Rounded(100 * SumOf([k \in 1..4 |-> score[k][1]]), SumOf([k \in 1..4 |-> score[k][2]]))
=============================================================================
