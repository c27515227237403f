-------------------------- MODULE LinkHealthProofs --------------------------
(***************************************************************************)
(* Theorems about LinkHealth, for any interfaces, targets and answers and  *)
(* any interleaving of the user, the worker, the prober and Windows.       *)
(***************************************************************************)
EXTENDS LinkHealth, FoldLemmas

\* The results of an interface: of some of the targets, with what was found.
Known(r) ==
    /\ DOMAIN r \subseteq Target /\ DOMAIN r # {}
    /\ \A t \in DOMAIN r : r[t] \in ProbeResult

ResultsInv == \A i \in DOMAIN results : i \in Iface /\ Known(results[i])

\* Probes of some interfaces, in any order.
JobsOf(D) == Seq(D \X Target)

\* What is still to be probed is on the list that the round began with.
TodoInv == todo \in JobsOf(batch)

IInv == TypeOK /\ ResultsInv /\ TodoInv /\ NoGhosts

\* The jobs of some interfaces are jobs of more of them.
LEMMA JobsOfMore ==
    ASSUME NEW A, NEW B, A \subseteq B
    PROVE  JobsOf(A) \subseteq JobsOf(B)
<1>1. A \X Target \subseteq B \X Target
  OBVIOUS
<1>2. QED
  BY <1>1 DEF JobsOf

USE HealthAssumption

-----------------------------------------------------------------------------
(* Scores. *)

LEMMA TargetsAreFinite == IsFiniteSet(Target)
<1> DEFINE f == [k \in 1..Len(TargetOrder) |-> TargetOrder[k]]
<1>1. Len(TargetOrder) \in Nat
  BY LenProperties
<1>2. f \in Surjection(1..Len(TargetOrder), Target)
  BY DEF Surjection, Target
<1>3. QED
  BY <1>1, <1>2, FS_Interval, FS_Surjection

LEMMA DivideNat ==
    ASSUME NEW a \in Nat, NEW b \in Nat \ {0}
    PROVE  a \div b \in Nat
  OBVIOUS

LEMMA PenaltiesNat ==
    ASSUME NEW p, p.loss \in Quantity, p.rtt \in Quantity, p.jitter \in Quantity
    PROVE  Penalties(p) \in Nat
<1>1. LossPenalty(p.loss) \in Nat
  <2>1. CASE IsKnown(p.loss) /\ AtMost(p.loss, 30)
    <3> DEFINE a == 2 * Point * p.loss[1]
    <3>1. a \in Nat /\ p.loss[2] \in Nat \ {0}
      BY <2>1 DEF IsKnown, Quantity, Point
    <3>2. LossPenalty(p.loss) = a \div p.loss[2]
      BY <2>1 DEF LossPenalty
    <3> HIDE DEF a
    <3>3. QED
      BY <3>1, <3>2, DivideNat
  <2>2. CASE ~(IsKnown(p.loss) /\ AtMost(p.loss, 30))
    BY <2>2 DEF LossPenalty, Point
  <2>3. QED
    BY <2>1, <2>2
<1>2. LatencyPenalty(p.rtt) \in Nat
  BY DEF LatencyPenalty, Point
<1>3. JitterPenalty(p.jitter) \in Nat
  BY DEF JitterPenalty, Point
<1>4. QED
  BY <1>1, <1>2, <1>3 DEF Penalties

\* A score is within bounds, whatever the penalties.
LEMMA ScoreInBounds ==
    ASSUME NEW p, p.reach \in Reachability,
           p.loss \in Quantity, p.rtt \in Quantity, p.jitter \in Quantity
    PROVE  ComputeScore(p) \in Health
<1> DEFINE n == Penalties(p)
<1>1. n \in Nat
  BY PenaltiesNat
<1>2. ComputeScore(p) =
        [reachable |-> p.reach,
         score |-> CASE p.reach = "unknown" -> Unscored
                     [] p.reach = "no" -> 0
                     [] p.reach = "yes" -> IF n > 100 * Point THEN 0 ELSE 100 * Point - n]
  BY DEF ComputeScore
<1> HIDE DEF n
<1>3. CASE p.reach = "unknown"
  BY <1>2, <1>3 DEF Health, Reachability
<1>4. CASE p.reach = "no"
  BY <1>2, <1>4 DEF Health, Reachability, Point
<1>5. CASE p.reach = "yes"
  <2> DEFINE score == IF n > 100 * Point THEN 0 ELSE 100 * Point - n
  <2>1. score \in 0..(100 * Point)
    BY <1>1 DEF Point
  <2>2. ComputeScore(p) = [reachable |-> "yes", score |-> score]
    BY <1>2, <1>5
  <2> HIDE DEF score
  <2>3. QED
    BY <2>1, <2>2 DEF Health, Reachability
<1>6. QED
  BY <1>3, <1>4, <1>5 DEF Reachability

\* A mean of quantities is a quantity.
LEMMA MeanType ==
    ASSUME NEW q, DOMAIN q \subseteq Target, \A t \in DOMAIN q : q[t] \in Quantity
    PROVE  MeanKnown(q) \in Quantity
<1> DEFINE known == {t \in DOMAIN q : IsKnown(q[t])}
           first == [t \in known |-> q[t][1]]
<1>1. IsFiniteSet(known)
  BY TargetsAreFinite, FS_Subset
<1>2. CASE known = {}
  BY <1>2 DEF MeanKnown, NotMeasured, Quantity
<1>3. CASE known # {}
  <2>1. MeanKnown(q) = <<SumOf(first), Cardinality(known)>>
    BY <1>3 DEF MeanKnown
  <2>2. Cardinality(known) \in Nat /\ Cardinality(known) # 0
    BY <1>1, <1>3, FS_CardinalityType, FS_EmptySet
  <2>3. \A t \in known : first[t] \in Nat
    BY DEF Quantity
  <2>4. Restrict(first, known) = first
    BY DEF Restrict
  <2>5. SumOf(Restrict(first, known)) \in Nat
    <3> HIDE DEF known, first
    <3>1. QED
      BY <1>1, <2>3, SumType
  <2> HIDE DEF known, first
  <2>6. QED
    BY <2>1, <2>2, <2>4, <2>5 DEF Quantity
<1>4. QED
  BY <1>2, <1>3

\* Every target is the gateway or an Internet target.
LEMMA KindsOfTargets ==
    ASSUME NEW r, Known(r)
    PROVE  /\ DOMAIN r = Internet(r) \cup Gateways(r)
           /\ Internet(r) \cap Gateways(r) = {}
           /\ Reached(r) \subseteq Internet(r)
  BY DEF Known, Internet, Gateways, OfKind, Reached

\* With an Internet probe the interface is judged by them all.
LEMMA JudgedByInternet ==
    ASSUME NEW r, Known(r), Internet(r) # {}
    PROVE  HealthOf(r) = ComputeScore(Aggregate(r))
  BY KindsOfTargets DEF HealthOf, Primary

LEMMA AggregateType ==
    ASSUME NEW r, Known(r)
    PROVE  /\ Aggregate(r).reach \in Reachability
           /\ Aggregate(r).loss \in Quantity
           /\ Aggregate(r).rtt \in Quantity
           /\ Aggregate(r).jitter \in Quantity
<1>1. /\ QualityProbes(r) \subseteq DOMAIN r /\ QualityProbes(r) \subseteq Target
      /\ TimingProbes(r) \subseteq DOMAIN r /\ TimingProbes(r) \subseteq Target
  BY KindsOfTargets DEF QualityProbes, TimingProbes, Known
<1>2. \A t \in DOMAIN r : /\ r[t].loss \in Quantity /\ r[t].rtt \in Quantity
                          /\ r[t].jitter \in Quantity
  BY DEF Known, ProbeResult
<1>3. MeanKnown([t \in QualityProbes(r) |-> r[t].loss]) \in Quantity
  BY <1>1, <1>2, MeanType
<1>4. MeanKnown([t \in TimingProbes(r) |-> r[t].rtt]) \in Quantity
  BY <1>1, <1>2, MeanType
<1>5. MeanKnown([t \in TimingProbes(r) |-> r[t].jitter]) \in Quantity
  BY <1>1, <1>2, MeanType
<1>6. QED
  BY <1>3, <1>4, <1>5 DEF Aggregate, Reachability

LEMMA HealthType ==
    ASSUME NEW r, Known(r)
    PROVE  HealthOf(r) \in Health
<1>1. CASE Internet(r) # {}
  BY <1>1, AggregateType, JudgedByInternet, ScoreInBounds
<1>2. CASE Internet(r) = {}
  <2> DEFINE t == CHOOSE g \in Primary(r) : TRUE
  <2>1. Primary(r) = DOMAIN r /\ Primary(r) \subseteq Gateways(r) /\ Primary(r) # {}
    BY <1>2, KindsOfTargets DEF Primary, Known
  <2>2. r[t] \in ProbeResult
    BY <2>1 DEF Known
  <2>3. HealthOf(r) = ComputeScore(r[t])
    BY <2>1 DEF HealthOf
  <2> HIDE DEF t
  <2>4. QED
    BY <2>2, <2>3, ScoreInBounds DEF ProbeResult
<1>3. QED
  BY <1>1, <1>2

\* The gateway does not vouch for an interface that has Internet targets.
LEMMA InternetDecidesOf ==
    ASSUME NEW r, Known(r), Internet(r) # {}
    PROVE  HealthOf(r).reachable = "yes" <=> Reached(r) # {}
<1>1. HealthOf(r).reachable = Aggregate(r).reach
  BY JudgedByInternet DEF ComputeScore
<1>2. QED
  BY <1>1 DEF Aggregate

\* Only the targets that answer count, if there are any.
LEMMA OutageIsHarmlessTo ==
    ASSUME NEW r, Known(r), Reached(r) # {}
    PROVE  HealthOf(r) = HealthOf([t \in Reached(r) |-> r[t]])
<1> DEFINE s == [t \in Reached(r) |-> r[t]]
<1>1. Known(s)
  BY KindsOfTargets DEF Known
<1>2. Internet(s) = Reached(r) /\ Reached(s) = Reached(r)
  BY DEF Internet, OfKind, Reached
<1>3. QualityProbes(s) = QualityProbes(r) /\ TimingProbes(s) = TimingProbes(r)
  BY <1>2 DEF QualityProbes, TimingProbes
<1>4. QualityProbes(r) \subseteq Reached(r) /\ TimingProbes(r) \subseteq Reached(r)
  BY DEF QualityProbes, TimingProbes
<1>5. Aggregate(s) = Aggregate(r)
  <2>1. [t \in QualityProbes(s) |-> s[t].loss] = [t \in QualityProbes(r) |-> r[t].loss]
    BY <1>3, <1>4
  <2>2. [t \in TimingProbes(s) |-> s[t].rtt] = [t \in TimingProbes(r) |-> r[t].rtt]
    BY <1>3, <1>4
  <2>3. [t \in TimingProbes(s) |-> s[t].jitter] = [t \in TimingProbes(r) |-> r[t].jitter]
    BY <1>3, <1>4
  <2> HIDE DEF s
  <2>4. QED
    BY <1>2, <2>1, <2>2, <2>3 DEF Aggregate
<1>6. HealthOf(s) = ComputeScore(Aggregate(s))
  <2> HIDE DEF s
  <2>1. QED
    BY <1>1, <1>2, JudgedByInternet
<1>7. HealthOf(r) = ComputeScore(Aggregate(r))
  BY KindsOfTargets, JudgedByInternet
<1>8. QED
  BY <1>5, <1>6, <1>7

-----------------------------------------------------------------------------
(* Steps. *)

LEMMA EmptyDomain == DOMAIN Empty = {}
  BY DEF Empty

\* What the results say of health follows from what they are.
LEMMA ScoresTyped ==
    ASSUME ResultsInv
    PROVE  \A i \in DOMAIN Scores : Scores[i] \in Health
  BY HealthType DEF ResultsInv, Scores

\* The jobs of a round are of the interfaces on the list.
LEMMA JobsTyped ==
    ASSUME NEW i, NEW state, NEW D, i \in D
    PROVE  Jobs(i, state) \in JobsOf(D)
<1> DEFINE n == Len(TargetOrder)
           X == D \X Target
           s == [k \in 1..n |->
                    IF Due(TargetOrder[k], state) THEN << <<i, TargetOrder[k]>> >> ELSE << >>]
<1>1. n \in Nat /\ Len(s) = n /\ (n = 0 => s = << >>)
  BY LenProperties
<1>2. ASSUME NEW k \in 1..n PROVE s[k] \in Seq(X)
  <2>1. TargetOrder[k] \in Target
    BY DEF Target
  <2>2. <<i, TargetOrder[k]>> \in X
    BY <2>1
  <2>3. << <<i, TargetOrder[k]>> >> \in Seq(X) /\ << >> \in Seq(X)
    BY <2>2
  <2>4. QED
    BY <2>3
<1>3. FlattenSeq(s) \in Seq(X)
  <2> HIDE DEF n, X, s
  <2>1. QED
    BY <1>1, <1>2, FlattenType
<1>4. QED
  BY <1>3 DEF Jobs, JobsOf

LEMMA RoundTyped ==
    ASSUME NEW list
    PROVE  Round(list) \in JobsOf(DOMAIN list)
<1> DEFINE D == DOMAIN list
           X == D \X Target
           s == [i \in Iface |-> IF i \in D THEN Jobs(i, list[i]) ELSE << >>]
<1>1. Len(s) = NIface /\ (NIface = 0 => s = << >>)
  BY DEF Iface
<1>2. ASSUME NEW i \in 1..NIface PROVE s[i] \in Seq(X)
  <2>1. s[i] = IF i \in D THEN Jobs(i, list[i]) ELSE << >>
    BY DEF Iface
  <2>2. i \in D => Jobs(i, list[i]) \in JobsOf(D)
    <3> HIDE DEF D
    <3>1. QED
      BY JobsTyped
  <2>3. << >> \in JobsOf(D)
    BY DEF JobsOf
  <2> HIDE DEF s, D
  <2>4. s[i] \in JobsOf(D)
    BY <2>1, <2>2, <2>3
  <2>5. QED
    BY <2>4 DEF JobsOf
<1>3. FlattenSeq(s) \in Seq(X)
  <2> HIDE DEF X, s
  <2>1. QED
    BY <1>1, <1>2, FlattenType
<1>4. QED
  BY <1>3 DEF Round, JobsOf

\* Whatever a probe finds may be scored.
LEMMA FoundTyped ==
    ASSUME NEW i, NEW t \in Target
    PROVE  Found(i, t) \subseteq ProbeResult
<1>1. NoReply \in ProbeResult /\ NotSent \in ProbeResult
  BY DEF NoReply, NotSent, ProbeResult, Reachability, Quantity, NotMeasured
<1>2. QED
  BY <1>1 DEF Found

LEMMA InitEstablishes == Init => IInv
<1> SUFFICES ASSUME Init PROVE IInv
  OBVIOUS
<1>1. ResultsInv /\ TodoInv /\ NoGhosts
  BY EmptyDomain DEF Init, ResultsInv, TodoInv, JobsOf, NoGhosts
<1>2. TypeOK
  BY <1>1, ScoresTyped, EmptyDomain DEF Init, TypeOK
<1>3. QED
  BY <1>1, <1>2 DEF IInv

\* The user's choices.
LEMMA ChooseKeeps ==
    ASSUME IInv, NEW i \in Iface, Choose(i)
    PROVE  IInv'
<1>1. PICK choice \in Overrides[i] : overrides' = Chosen(overrides, i, choice)
  BY DEF Choose
<1>2. choice \in BOOLEAN
  BY <1>1
<1>3. /\ DOMAIN overrides' \subseteq Iface
      /\ \A j \in DOMAIN overrides' : overrides'[j] \in BOOLEAN
  BY <1>1, <1>2 DEF Chosen, With, IInv, TypeOK
<1>4. QED
  BY <1>3 DEF IInv, TypeOK, ResultsInv, TodoInv, NoGhosts, Scores, Choose, proberVars

LEMMA LinkChangeKeeps ==
    ASSUME IInv, NEW i \in Iface, LinkChange(i)
    PROVE  IInv'
<1>1. link' \in [Iface -> LinkState]
  BY DEF IInv, TypeOK, LinkChange
<1>2. QED
  BY <1>1 DEF IInv, TypeOK, ResultsInv, TodoInv, NoGhosts, Scores, LinkChange, proberVars

\* The worker publishes a list of interfaces.
LEMMA DiscoverKeeps ==
    ASSUME IInv, NEW classified \in BOOLEAN, Discover(classified)
    PROVE  IInv'
<1>1. ResultsInv' /\ TodoInv' /\ NoGhosts'
  BY DEF IInv, ResultsInv, TodoInv, NoGhosts, Discover, proberVars
<1>2. /\ DOMAIN enabled' \subseteq Iface
      /\ \A i \in DOMAIN enabled' : enabled'[i] \in LinkState \ {"gone"}
  BY DEF IInv, TypeOK, Discover, EnabledList, LinkState
<1>3. \A i \in DOMAIN Scores' : Scores'[i] \in Health
  BY <1>1, HealthType DEF ResultsInv, Scores
<1>4. QED
  BY <1>1, <1>2, <1>3 DEF IInv, TypeOK, Discover, proberVars

LEMMA ScoreKeeps ==
    ASSUME IInv, Score
    PROVE  IInv'
  BY DEF IInv, TypeOK, ResultsInv, TodoInv, NoGhosts, Scores, Score, proberVars

LEMMA RestartKeeps ==
    ASSUME IInv, Restart
    PROVE  IInv'
<1>1. ResultsInv' /\ TodoInv' /\ NoGhosts'
  BY EmptyDomain DEF Restart, ResultsInv, TodoInv, JobsOf, NoGhosts
<1>2. QED
  BY <1>1, EmptyDomain DEF IInv, TypeOK, Scores, Restart

\* The prober drops the results of everything that is not on the list.
LEMMA BeginRoundKeeps ==
    ASSUME IInv, BeginRound
    PROVE  IInv'
<1>1. DOMAIN results' \subseteq DOMAIN results /\ \A i \in DOMAIN results' : results'[i] = results[i]
  BY DEF BeginRound, Pruned
<1>2. ResultsInv'
  BY <1>1 DEF IInv, ResultsInv
<1>3. todo' \in JobsOf(DOMAIN enabled) /\ batch' = DOMAIN enabled
  <2>1. Round(enabled) \in JobsOf(DOMAIN enabled)
    BY RoundTyped
  <2>2. QED
    BY <2>1 DEF BeginRound
<1>9. TodoInv'
  BY <1>3 DEF TodoInv
<1>4. NoGhosts'
  BY DEF NoGhosts, BeginRound, Pruned
<1>5. \A i \in DOMAIN Scores' : Scores'[i] \in Health
  BY <1>2, HealthType DEF ResultsInv, Scores
<1>6. todo' \in Seq(Iface \X Target)
  <2>1. DOMAIN enabled \subseteq Iface
    BY DEF IInv, TypeOK
  <2>2. JobsOf(DOMAIN enabled) \subseteq JobsOf(Iface)
    BY <2>1, JobsOfMore
  <2>3. QED
    BY <1>3, <2>2 DEF JobsOf
<1>7. TypeOK'
  BY <1>2, <1>5, <1>6 DEF IInv, TypeOK, BeginRound, ResultsInv, Known
<1>8. QED
  BY <1>2, <1>9, <1>4, <1>7 DEF IInv

\* A result is stored for an interface that was on the list of the round, or
\* none is.
LEMMA ProbeKeeps ==
    ASSUME IInv, Probe
    PROVE  IInv'
<1> DEFINE i == Head(todo)[1]
           t == Head(todo)[2]
           known == IF i \in DOMAIN results THEN results[i] ELSE Empty
<1>1. \/ \E found \in Found(i, t) :
            results' = With(results, [j \in {i} |-> With(known, [u \in {t} |-> found])])
      \/ results' = results
  BY DEF Probe, Stored
<1>2. /\ todo # << >> /\ todo' = Tail(todo)
      /\ UNCHANGED <<link, overrides, worker, enabled, prober, batch>>
  BY DEF Probe
<1>3. i \in batch /\ i \in Iface /\ t \in Target
  <2>1. Head(todo) \in batch \X Target
    BY <1>2 DEF IInv, TodoInv, JobsOf
  <2>2. batch \subseteq Iface
    BY DEF IInv, TypeOK
  <2>3. QED
    BY <2>1, <2>2
<1> HIDE DEF i, t
<1>4. DOMAIN results' \subseteq DOMAIN results \cup {i} /\ \A j \in DOMAIN results' : Known(results'[j])
  <2>1. CASE results' = results
    BY <2>1 DEF IInv, ResultsInv
  <2>2. ASSUME NEW found \in Found(i, t),
               results' = With(results, [j \in {i} |-> With(known, [u \in {t} |-> found])])
        PROVE  /\ DOMAIN results' \subseteq DOMAIN results \cup {i}
               /\ \A j \in DOMAIN results' : Known(results'[j])
    <3>1. found \in ProbeResult
      BY <1>3, FoundTyped
    <3>2. Known(With(known, [u \in {t} |-> found]))
      BY <1>3, <3>1, EmptyDomain DEF With, Known, IInv, ResultsInv
    <3>3. QED
      BY <2>2, <3>2 DEF With, IInv, ResultsInv
  <2>3. QED
    BY <1>1, <2>1, <2>2
<1>5. ResultsInv'
  BY <1>3, <1>4 DEF IInv, ResultsInv
<1>6. TodoInv' /\ todo' \in Seq(Iface \X Target)
  BY <1>2, HeadTailProperties DEF IInv, TypeOK, TodoInv, JobsOf
<1>7. NoGhosts'
  BY <1>2, <1>3, <1>4 DEF IInv, NoGhosts
<1>8. \A j \in DOMAIN Scores' : Scores'[j] \in Health
  BY <1>5, HealthType DEF ResultsInv, Scores
<1>9. TypeOK'
  BY <1>2, <1>5, <1>6, <1>8 DEF IInv, TypeOK, ResultsInv, Known
<1>10. QED
  BY <1>5, <1>6, <1>7, <1>9 DEF IInv

LEMMA EndRoundKeeps ==
    ASSUME IInv, EndRound
    PROVE  IInv'
  BY DEF IInv, TypeOK, ResultsInv, TodoInv, NoGhosts, Scores, EndRound

LEMMA StepKeeps ==
    ASSUME IInv, [Next]_vars
    PROVE  IInv'
<1>1. CASE UNCHANGED vars
  BY <1>1 DEF IInv, TypeOK, ResultsInv, TodoInv, NoGhosts, Scores, vars, proberVars
<1>2. CASE Next
  BY <1>2, ChooseKeeps, LinkChangeKeeps, DiscoverKeeps, ScoreKeeps, RestartKeeps,
     BeginRoundKeeps, ProbeKeeps, EndRoundKeeps DEF Next, WorkerStep, ProberStep
<1>3. QED
  BY <1>1, <1>2

-----------------------------------------------------------------------------
LEMMA Invariance == Spec => []IInv
  BY InitEstablishes, StepKeeps, PTL DEF Spec

\* Every variable keeps to its kind, and the health steering is handed is a
\* score within bounds whatever the probes have found (scoring/scorer.py).
THEOREM TypeCorrect == Spec => []TypeOK
<1>1. IInv => TypeOK
  BY DEF IInv
<1>2. QED
  BY <1>1, Invariance, PTL

\* No result outlives the list that its round began with
\* (networking/probing.py).
THEOREM NeverGhosts == Spec => []NoGhosts
<1>1. IInv => NoGhosts
  BY DEF IInv
<1>2. QED
  BY <1>1, Invariance, PTL

\* An interface with Internet targets is reachable if and only if one of them
\* answers (scoring/aggregation.py).
THEOREM InternetAlwaysDecides == Spec => []InternetDecides
<1>1. IInv => InternetDecides
  BY InternetDecidesOf DEF IInv, ResultsInv, InternetDecides
<1>2. QED
  BY <1>1, Invariance, PTL

\* The targets that do not answer change nothing as long as one answers
\* (scoring/aggregation.py).
THEOREM OutageAlwaysHarmless == Spec => []OutageIsHarmless
<1>1. IInv => OutageIsHarmless
  BY OutageIsHarmlessTo DEF IInv, ResultsInv, OutageIsHarmless
<1>2. QED
  BY <1>1, Invariance, PTL
=============================================================================
