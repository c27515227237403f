------------------------------- MODULE Scoring -------------------------------
(***************************************************************************)
(* scoring/scorer.py and scoring/aggregation.py: how the probe results of  *)
(* one interface become the health that steering acts on.                  *)
(*                                                                         *)
(* A measured quantity is a fraction <<sum, n>> over n known values; n = 0 *)
(* is Python's None.  Scores are counted in sixtieths of a point, so that  *)
(* the mean of up to six values stays a whole number.                      *)
(***************************************************************************)
EXTENDS Integers, FiniteSets, Collections

CONSTANTS
    Kind         \* the kind of each target: "gateway", "icmp" or "https"

Point == 60
Unscored == -1       \* ScoreResult.score is None

Reachability == {"yes", "no", "unknown"}

\* The fields of ProbeResult that are scored.
Quantity == {q \in Nat \X Nat : q[2] = 0 => q[1] = 0}
ProbeResult == [reach : Reachability, loss : Quantity, rtt : Quantity, jitter : Quantity]

NotMeasured == <<0, 0>>
IsKnown(q) == q[2] > 0
AtMost(q, bound) == q[1] <= bound * q[2]

-----------------------------------------------------------------------------
\* Loss costs two points per percent, up to 60.
LossPenalty(loss) ==
    IF ~IsKnown(loss) THEN 0
    ELSE IF AtMost(loss, 30) THEN (2 * Point * loss[1]) \div loss[2]
    ELSE 60 * Point

LatencyPenalty(rtt) ==
    Point * (CASE ~IsKnown(rtt) \/ AtMost(rtt, 20) -> 0
               [] IsKnown(rtt) /\ ~AtMost(rtt, 20) /\ AtMost(rtt, 50) -> 5
               [] IsKnown(rtt) /\ ~AtMost(rtt, 50) /\ AtMost(rtt, 100) -> 15
               [] IsKnown(rtt) /\ ~AtMost(rtt, 100) /\ AtMost(rtt, 200) -> 30
               [] OTHER -> 45)

JitterPenalty(jitter) ==
    Point * (CASE ~IsKnown(jitter) \/ AtMost(jitter, 5) -> 0
               [] IsKnown(jitter) /\ ~AtMost(jitter, 5) /\ AtMost(jitter, 15) -> 5
               [] IsKnown(jitter) /\ ~AtMost(jitter, 15) /\ AtMost(jitter, 30) -> 10
               [] OTHER -> 20)

Penalties(p) == LossPenalty(p.loss) + LatencyPenalty(p.rtt) + JitterPenalty(p.jitter)

Health == [score : {Unscored} \cup 0..(100 * Point), reachable : Reachability]

\* Mutant: the sum of the penalties is not capped.
ComputeScoreUncapped(p) ==
    [reachable |-> p.reach,
     score |-> CASE p.reach = "unknown" -> Unscored
                 [] p.reach = "no" -> 0
                 [] p.reach = "yes" -> 100 * Point - Penalties(p)]

\* compute_score().
ComputeScore(p) ==
    [reachable |-> p.reach,
     score |-> CASE p.reach = "unknown" -> Unscored
                 [] p.reach = "no" -> 0
                 [] p.reach = "yes" -> IF Penalties(p) > 100 * Point THEN 0
                                       ELSE 100 * Point - Penalties(p)]

-----------------------------------------------------------------------------
(* Results are functions from the targets probed to ProbeResult. *)

OfKind(r, kinds) == {t \in DOMAIN r : Kind[t] \in kinds}
Internet(r) == OfKind(r, {"icmp", "https"})
Gateways(r) == OfKind(r, {"gateway"})
Reached(r) == {t \in Internet(r) : r[t].reach = "yes"}

\* _mean_known(): the mean over the known ones of the quantities q[t].
MeanKnown(q) ==
    LET known == {t \in DOMAIN q : IsKnown(q[t])}
    IN  IF known = {} THEN NotMeasured
        ELSE <<SumOf([t \in known |-> q[t][1]]), Cardinality(known)>>

\* Mutant: unreachable targets drag the loss down with them.
QualityOfAll(r) == Internet(r)

\* The probes whose loss counts.
QualityProbes(r) == IF Reached(r) # {} THEN Reached(r) ELSE Internet(r)

\* ICMP timings, or HTTPS timings when no ICMP target was reached.
TimingProbes(r) ==
    IF \E t \in Reached(r) : Kind[t] = "icmp"
    THEN {t \in Reached(r) : Kind[t] = "icmp"}
    ELSE Reached(r)

\* aggregate_internet_probes(), for results with an Internet probe.
Aggregate(r) ==
    [reach |-> IF Reached(r) # {} THEN "yes"
               ELSE IF \A t \in Internet(r) : r[t].reach = "unknown" THEN "unknown"
               ELSE "no",
     loss   |-> MeanKnown([t \in QualityProbes(r) |-> r[t].loss]),
     rtt    |-> MeanKnown([t \in TimingProbes(r) |-> r[t].rtt]),
     jitter |-> MeanKnown([t \in TimingProbes(r) |-> r[t].jitter])]

\* Mutant: any gateway that answers vouches for the interface.
PrimaryBlended(r) ==
    IF \E t \in Gateways(r) : r[t].reach = "yes" THEN Gateways(r)
    ELSE IF Internet(r) # {} THEN Internet(r) ELSE Gateways(r)

\* The results the worker judges an interface by: its Internet probes, or
\* its gateway's when there are none.
Primary(r) == IF Internet(r) # {} THEN Internet(r) ELSE Gateways(r)

\* The score of an interface, if it has any result.  An interface has one
\* gateway.
HealthOf(r) ==
    IF Primary(r) \subseteq Gateways(r)
    THEN ComputeScore(r[CHOOSE t \in Primary(r) : TRUE])
    ELSE ComputeScore(Aggregate(r))
=============================================================================
