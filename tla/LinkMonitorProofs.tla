-------------------------- MODULE LinkMonitorProofs --------------------------
(***************************************************************************)
(* Theorems about LinkMonitor, for any networks, configurations, windows,  *)
(* samples and hold-down, and whatever callbacks outlive a session.        *)
(***************************************************************************)
EXTENDS LinkMonitor, FoldLemmas

Call ==
    {NoCall}
    \cup [at : {"available", "plain", "valid", "lost", "build", "remove"}, link : Link, late : BOOLEAN]
    \cup [at : {"publish"}, link : Link, late : BOOLEAN, snapshot : Snapshot]

KindInv ==
    /\ net \in [Link -> NetState]
    /\ told \in [Link -> NetState \cup {"new"}]
    /\ known \subseteq Link /\ DOMAIN caps \subseteq Link /\ DOMAIN links \subseteq Link
    /\ \A l \in DOMAIN caps : caps[l] \in Snapshot
    /\ call \in Call
    /\ running \in BOOLEAN /\ clearing \in {"nothing", "known", "caps", "flow"}
    /\ clearing # "nothing" => ~running

\* A callback about this link is in progress, or one of this session.
Busy(l) == call # NoCall /\ call.link = l
Ours(l) == call # NoCall /\ call.link = l /\ ~call.late

\* While a callback of an earlier session is in progress, none of this one has
\* been called, and unless it loses its link no probed link disappears.
LateInv ==
    /\ ~running \/ (call # NoCall /\ call.late) => \A l \in Link : told[l] = "none"
    /\ running /\ call # NoCall /\ call.late /\ call.at \notin {"lost", "remove"} =>
          DOMAIN probes \subseteq DOMAIN links

\* The maps hold what the callbacks of this session have been told, unless the
\* one in progress is yet to write it.
ToldInv ==
    running =>
        \A l \in Link :
            /\ told[l] # "none" => l \in known \/ (Ours(l) /\ call.at = "available")
            /\ told[l] \notin {"none", "new"} =>
                  (l \in DOMAIN caps /\ caps[l] = told[l]) \/ (Ours(l) /\ call.at = told[l])

\* What a callback of this session is about to do.
CallInv ==
    call # NoCall /\ ~call.late =>
        /\ running
        /\ call.at = "available" => told[call.link] = "new"
        /\ call.at \in {"plain", "valid"} => told[call.link] = call.at
        /\ call.at \in {"build", "publish"} => told[call.link] # "none"
        /\ call.at = "publish" => told[call.link] \in {"new", call.snapshot}
        /\ call.at \in {"lost", "remove"} => told[call.link] = "none"
        /\ call.at = "remove" => call.link \notin known \cup DOMAIN caps

\* The flow shows what the callbacks of this session have been told.
FlowInv ==
    running =>
        \A l \in Link : told[l] # "none" /\ ~Ours(l) =>
            l \in DOMAIN links /\ told[l] \in {"new", links[l]}

\* What stop() has cleared and a callback that was under way has brought back.
LeftOver ==
    {l \in (IF clearing = "known" THEN {} ELSE known)
           \cup (IF clearing \in {"known", "caps"} THEN {} ELSE DOMAIN caps)
           \cup (IF clearing = "nothing" THEN DOMAIN links ELSE {}) :
        told[l] = "none" /\ ~Ours(l)}

LeftInv ==
    /\ \A a, b \in LeftOver : a = b
    /\ call # NoCall /\ call.late => LeftOver \subseteq {call.link}

\* A loop runs with the configuration that was applied, on a network that is
\* known or being lost; and health belongs to a loop.
LoopInv ==
    /\ \A l \in DOMAIN probes : probes[l] = applied
    /\ DOMAIN health \subseteq DOMAIN probes
    /\ \A l \in DOMAIN probes \cap DOMAIN links :
           l \in known \/ (Busy(l) /\ call.at = "remove")

\* With no reconciliation due, only a callback in progress is ahead of it.
ReconciledInv ==
    running /\ "reconcile" \notin due =>
        /\ applied = config
        /\ DOMAIN probes \subseteq DOMAIN links
        /\ \A l \in DOMAIN links \cap known : l \in DOMAIN probes \/ Busy(l)

SelectedInv ==
    running /\ "select" \notin due =>
        IF DOMAIN Candidates = {} THEN selection.link = NoLink
        ELSE selection.link \in DOMAIN Candidates

\* While monitoring is stopped nothing is measured and nothing selected.
StoppedInv ==
    ~running => /\ probes = Empty /\ health = Empty /\ scores = Empty
                /\ selection = NoSelection /\ due = {}

ClockInv == selection \in Selection /\ since \in 0..HoldDown /\ HoldDownSinceSwitch

Window == {w \in Seq(Sample) : Len(w) <= WindowSize}

\* Every score is that of a snapshot and a window.
DataInv ==
    /\ config \in Configs /\ applied \in Configs \cup {NoConfig}
    /\ DOMAIN probes \subseteq Link /\ \A l \in DOMAIN probes : probes[l] \in Configs
    /\ \A l \in DOMAIN links : links[l] \in Snapshot
    /\ \A l \in DOMAIN health : l \in Link /\ health[l] \in Window
    /\ DOMAIN scores \subseteq Link
    /\ \A l \in DOMAIN scores : \E x \in Snapshot, w \in Window : scores[l] = LinkScore(x, w)
    /\ due \subseteq {"reconcile", "score", "select"}

IInv ==
    /\ KindInv /\ LateInv /\ ToldInv /\ CallInv /\ FlowInv
    /\ LeftInv /\ LoopInv /\ ReconciledInv
    /\ SelectedInv /\ ClockInv /\ StoppedInv

-----------------------------------------------------------------------------
(* Scores. *)

\* Rounding a share of at most c units gives at most c.
LEMMA RoundedInBounds ==
    ASSUME NEW c \in Nat, NEW n \in Nat \ {0}, NEW p \in Nat, p <= c * n
    PROVE  Rounded(p, n) \in 0..c
<1> DEFINE q == (2 * p + n) \div (2 * n)
<1>1. q \in Nat /\ q * (2 * n) <= 2 * p + n
  OBVIOUS
<1>2. ASSUME q > c PROVE FALSE
  <2>1. PICK d \in Nat : q = c + 1 + d
    <3>1. q - (c + 1) \in Nat /\ q = c + 1 + (q - (c + 1))
      BY <1>1, <1>2
    <3>2. QED
      BY <3>1
  <2> HIDE DEF q
  <2>2. (c + 1 + d) * (2 * n) = 2 * (c * n) + 2 * n + d * (2 * n)
    OBVIOUS
  <2>3. d * (2 * n) \in Nat /\ c * n \in Nat
    OBVIOUS
  <2>4. QED
    BY <1>1, <2>1, <2>2, <2>3
<1>3. QED
  BY <1>1, <1>2 DEF Rounded

LEMMA RampDownInBounds ==
    ASSUME NEW sum \in Nat, NEW n \in Nat \ {0}, NEW good \in Nat, NEW bad \in Nat,
           good < bad, NEW points \in Nat
    PROVE  RampDown(sum, n, good, bad, points) \in 0..points
<1>1. CASE sum <= good * n
  BY <1>1 DEF RampDown
<1>2. CASE ~(sum <= good * n) /\ sum >= bad * n
  BY <1>2 DEF RampDown
<1>3. CASE ~(sum <= good * n) /\ ~(sum >= bad * n)
  <2> DEFINE m == (bad - good) * n
             p == points * (bad * n - sum)
  <2>1. m = bad * n - good * n /\ bad * n \in Nat /\ good * n \in Nat
    OBVIOUS
  <2>2. m \in Nat \ {0} /\ bad * n - sum \in Nat /\ bad * n - sum <= m
    BY <1>3, <2>1
  <2>3. p \in Nat /\ p <= points * m
    <3> DEFINE a == bad * n - sum
    <3>1. a \in Nat /\ a <= m /\ m \in Nat
      BY <2>2
    <3> HIDE DEF a, m
    <3>2. points * a \in Nat /\ points * a <= points * m
      BY <3>1
    <3>3. QED
      BY <3>2 DEF a
  <2>4. RampDown(sum, n, good, bad, points) = Rounded(p, m)
    BY <1>3 DEF RampDown
  <2> HIDE DEF m, p
  <2>5. QED
    BY <2>2, <2>3, <2>4, RoundedInBounds
<1>4. QED
  BY <1>1, <1>2, <1>3

LEMMA SumOfNats ==
    ASSUME NEW s \in Seq(Nat)
    PROVE  SumOf(s) \in Nat
<1> DEFINE S == DOMAIN s
<1>1. S = 1..Len(s) /\ Len(s) \in Nat
  BY LenProperties
<1>2. IsFiniteSet(S)
  BY <1>1, FS_Interval
<1>3. \A k \in S : s[k] \in Nat
  OBVIOUS
<1>4. Restrict(s, S) = s
  BY <1>1 DEF Restrict
<1> HIDE DEF S
<1>5. SumOf(Restrict(s, S)) \in Nat
  BY <1>2, <1>3, SumType
<1>6. QED
  BY <1>4, <1>5

LEMMA SumOfFour ==
    ASSUME NEW f, \A k \in 1..4 : f[k] \in Int
    PROVE  SumOf([k \in 1..4 |-> f[k]]) = f[1] + f[2] + f[3] + f[4]
<1> DEFINE S == 1..4
           sum(T) == SumOf(Restrict(f, T))
<1>1. IsFiniteSet(S) /\ \A k \in S : f[k] \in Int
  <2>1. 1 \in Int /\ 4 \in Int
    OBVIOUS
  <2>2. IsFiniteSet(S)
    BY <2>1, FS_Interval
  <2>3. QED
    BY <2>2
<1> HIDE DEF S
<1>2. ASSUME NEW T \in SUBSET S, NEW k \in T PROVE sum(T) = f[k] + sum(T \ {k})
  BY <1>1, SumApart
<1> USE DEF S
<1>3. sum({}) = 0
  BY EmptySum
<1> HIDE DEF sum
<1>4. sum({1}) = f[1] + sum({})
  <2>1. {1} \ {1} = {}
    OBVIOUS
  <2>2. QED
    BY <1>2, <2>1
<1>5. sum({1, 2}) = f[2] + sum({1})
  <2>1. {1, 2} \ {2} = {1}
    OBVIOUS
  <2>2. QED
    BY <1>2, <2>1
<1>6. sum({1, 2, 3}) = f[3] + sum({1, 2})
  <2>1. {1, 2, 3} \ {3} = {1, 2}
    OBVIOUS
  <2>2. QED
    BY <1>2, <2>1
<1>7. sum(S) = f[4] + sum({1, 2, 3})
  <2>1. S \ {4} = {1, 2, 3}
    OBVIOUS
  <2>2. QED
    BY <1>2, <2>1
<1>8. sum(S) = f[1] + f[2] + f[3] + f[4]
  BY <1>3, <1>4, <1>5, <1>6, <1>7
<1>9. Restrict(f, S) = [k \in 1..4 |-> f[k]]
  BY DEF Restrict
<1>10. QED
  BY <1>8, <1>9 DEF sum

\* The successful samples of a window, as many as there may be.
LEMMA SuccessfulOf ==
    ASSUME NEW w \in Window
    PROVE  /\ Successful(w) \in Seq(Nat) /\ Len(Successful(w)) \in Nat
           /\ Len(Successful(w)) <= Len(w)
<1>1. w \in Seq(Sample)
  BY DEF Window
<1>2. \A x : x \in Nat <=> x \in Sample /\ x \in Nat
  BY DEF Sample
<1>3. Filtered(w, Nat) \in Seq(Nat) /\ Len(Filtered(w, Nat)) <= Len(w)
  <2> HIDE DEF Sample
  <2>1. PICK N : N = Nat
    OBVIOUS
  <2>2. Filtered(w, N) \in Seq(N)
    BY <1>1, <1>2, <2>1, FilteredType
  <2>3. Len(Filtered(w, N)) <= Len(w)
    BY <1>1, FilteredShorter
  <2>4. QED
    BY <2>1, <2>2, <2>3
<1>4. QED
  BY <1>3, LenProperties DEF Successful

\* The points a component may have: none and unknown, or up to its maximum.
LEMMA Components ==
    ASSUME NEW x \in Snapshot, NEW w \in Window
    PROVE  /\ \E a \in 0..40 : Connectivity(x) = <<a, 40>>
           /\ Reliability(w) = NotKnown \/ \E a \in 0..30 : Reliability(w) = <<a, 30>>
           /\ Latency(w) = NotKnown \/ \E a \in 0..20 : Latency(w) = <<a, 20>>
           /\ Jitter(w) = NotKnown \/ \E a \in 0..10 : Jitter(w) = <<a, 10>>
<1> DEFINE ok == Successful(w)
<1>1. ok \in Seq(Nat) /\ Len(ok) \in Nat /\ Len(ok) <= Len(w)
  BY SuccessfulOf
<1>2. w \in Seq(Sample) /\ Len(w) \in Nat
  BY DEF Window
<1>3. \E a \in 0..40 : Connectivity(x) = <<a, 40>>
  BY DEF Connectivity, Snapshot
<1>4. Reliability(w) = NotKnown \/ \E a \in 0..30 : Reliability(w) = <<a, 30>>
  <2>1. CASE w = << >>
    BY <2>1 DEF Reliability
  <2>2. CASE w # << >>
    <3>1. Len(w) \in Nat \ {0} /\ 30 * Len(ok) \in Nat /\ 30 * Len(ok) <= 30 * Len(w)
      BY <1>1, <1>2, <2>2
    <3>2. Rounded(30 * Len(ok), Len(w)) \in 0..30
      BY <3>1, RoundedInBounds
    <3>3. QED
      BY <2>2, <3>2 DEF Reliability
  <2>3. QED
    BY <2>1, <2>2
<1>5. Latency(w) = NotKnown \/ \E a \in 0..20 : Latency(w) = <<a, 20>>
  <2>1. CASE ok = << >>
    BY <2>1 DEF Latency
  <2>2. CASE ok # << >>
    <3>1. SumOf(ok) \in Nat /\ Len(ok) \in Nat \ {0}
      BY <1>1, <2>2, SumOfNats
    <3>2. RampDown(SumOf(ok), Len(ok), 80, 1500, 20) \in 0..20
      <4> DEFINE sum == SumOf(ok)
                 n == Len(ok)
                 good == 80
                 bad == 1500
      <4>1. sum \in Nat /\ n \in Nat \ {0} /\ good \in Nat /\ bad \in Nat /\ good < bad /\ 20 \in Nat
        BY <3>1
      <4> HIDE DEF sum, n, good, bad
      <4>2. RampDown(sum, n, good, bad, 20) \in 0..20
        BY <4>1, RampDownInBounds
      <4>3. QED
        BY <4>2 DEF sum, n, good, bad
    <3>3. Latency(w) = <<RampDown(SumOf(ok), Len(ok), 80, 1500, 20), 20>>
      BY <2>2 DEF Latency
    <3>4. QED
      BY <3>2, <3>3
  <2>3. QED
    BY <2>1, <2>2
<1>6. Jitter(w) = NotKnown \/ \E a \in 0..10 : Jitter(w) = <<a, 10>>
  <2>1. CASE Len(ok) < 2
    BY <2>1 DEF Jitter
  <2>2. CASE ~(Len(ok) < 2)
    <3> DEFINE distance(a, b) == IF a < b THEN b - a ELSE a - b
               steps == [k \in 1..(Len(ok) - 1) |-> distance(ok[k], ok[k + 1])]
    <3>1. ASSUME NEW k \in 1..(Len(ok) - 1) PROVE distance(ok[k], ok[k + 1]) \in Nat
      <4>1. ok[k] \in Nat /\ ok[k + 1] \in Nat
        BY <1>1
      <4>2. QED
        BY <4>1
    <3>2. steps \in Seq(Nat) /\ Len(steps) \in Nat \ {0}
      <4> HIDE DEF distance, ok
      <4>1. QED
        BY <1>1, <2>2, <3>1
    <3>3. Jitter(w) = <<RampDown(SumOf(steps), Len(steps), 0, 400, 10), 10>>
      BY <2>2 DEF Jitter
    <3> HIDE DEF steps
    <3>4. SumOf(steps) \in Nat
      BY <3>2, SumOfNats
    <3>5. RampDown(SumOf(steps), Len(steps), 0, 400, 10) \in 0..10
      <4> DEFINE sum == SumOf(steps)
                 n == Len(steps)
      <4>1. sum \in Nat /\ n \in Nat \ {0} /\ 0 \in Nat /\ 400 \in Nat /\ 0 < 400 /\ 10 \in Nat
        BY <3>2, <3>4
      <4> HIDE DEF sum, n
      <4>2. RampDown(sum, n, 0, 400, 10) \in 0..10
        BY <4>1, RampDownInBounds
      <4>3. QED
        BY <4>2 DEF sum, n
    <3>6. QED
      BY <3>3, <3>5
  <2>3. QED
    BY <2>1, <2>2
<1>7. QED
  BY <1>3, <1>4, <1>5, <1>6

\* A total is a percentage: a link has no more points than it could have.
LEMMA PercentInBounds ==
    ASSUME NEW x \in Snapshot, NEW w \in Window
    PROVE  Percent(LinkScore(x, w)) \in 0..100
<1> DEFINE sc == LinkScore(x, w)
           points == [k \in 1..4 |-> sc[k][1]]
           most == [k \in 1..4 |-> sc[k][2]]
<1>1. PICK a \in 0..40 : sc[1] = <<a, 40>>
  BY Components DEF LinkScore
<1>2. PICK b \in 0..30, m \in {0, 30} : sc[2] = <<b, m>> /\ b <= m
  BY Components DEF LinkScore, NotKnown
<1>3. PICK c \in 0..20, n \in {0, 20} : sc[3] = <<c, n>> /\ c <= n
  BY Components DEF LinkScore, NotKnown
<1>4. PICK d \in 0..10, o \in {0, 10} : sc[4] = <<d, o>> /\ d <= o
  BY Components DEF LinkScore, NotKnown
<1> HIDE DEF sc
<1>5. SumOf(points) = a + b + c + d
  <2> DEFINE f == <<a, b, c, d>>
  <2>1. points = [k \in 1..4 |-> f[k]]
    BY <1>1, <1>2, <1>3, <1>4
  <2>2. \A k \in 1..4 : f[k] \in Int
    OBVIOUS
  <2>3. SumOf([k \in 1..4 |-> f[k]]) = f[1] + f[2] + f[3] + f[4]
    <3> HIDE DEF f
    <3>1. QED
      BY <2>2, SumOfFour
  <2>4. QED
    BY <2>1, <2>3
<1>6. SumOf(most) = 40 + m + n + o
  <2> DEFINE f == <<40, m, n, o>>
  <2>1. most = [k \in 1..4 |-> f[k]]
    BY <1>1, <1>2, <1>3, <1>4
  <2>2. \A k \in 1..4 : f[k] \in Int
    OBVIOUS
  <2>3. SumOf([k \in 1..4 |-> f[k]]) = f[1] + f[2] + f[3] + f[4]
    <3> HIDE DEF f
    <3>1. QED
      BY <2>2, SumOfFour
  <2>4. QED
    BY <2>1, <2>3
<1>7. Percent(sc) = Rounded(100 * SumOf(points), SumOf(most))
  BY DEF Percent
<1> HIDE DEF points, most
<1>8. QED
  <2> DEFINE p == 100 * SumOf(points)
             q == SumOf(most)
  <2>1. p \in Nat /\ q \in Nat \ {0} /\ p <= 100 * q
    BY <1>1, <1>2, <1>3, <1>4, <1>5, <1>6
  <2>2. Rounded(p, q) \in 0..100
    <3> HIDE DEF p, q
    <3>1. QED
      BY <2>1, RoundedInBounds
  <2>3. QED
    BY <1>7, <2>2 DEF sc

\* A window never outgrows its size.
LEMMA AddSampleKeeps ==
    ASSUME NEW w \in Window, NEW sample \in Sample
    PROVE  AddSample(w, sample) \in Window
<1>1. w \in Seq(Sample) /\ Len(w) \in Nat /\ Len(w) <= WindowSize
  BY DEF Window
<1>2. CASE Len(w) < WindowSize
  BY <1>1, <1>2, AppendProperties, ScorerAssumption DEF AddSample, Window
<1>3. CASE ~(Len(w) < WindowSize)
  <2>1. w # << >>
    BY <1>1, <1>3, ScorerAssumption
  <2>2. Tail(w) \in Seq(Sample) /\ Len(Tail(w)) = Len(w) - 1
    BY <1>1, <2>1, HeadTailProperties
  <2>3. Append(Tail(w), sample) \in Seq(Sample) /\ Len(Append(Tail(w), sample)) = Len(w)
    BY <1>1, <2>2, AppendProperties
  <2>4. QED
    BY <1>1, <1>3, <2>3 DEF AddSample, Window
<1>4. QED
  BY <1>2, <1>3

-----------------------------------------------------------------------------
(* The callbacks of NetworkMonitor. *)

USE MonitorAssumption, SelectionAssumption
USE DEF osVars, monitorVars, switchVars, configVars, dataVars, selectVars, coordVars, Waking, Free

\* A callback in progress.
LEMMA CallKinds ==
    ASSUME IInv, call # NoCall
    PROVE  /\ call.link \in Link /\ call.late \in BOOLEAN
           /\ call.at \in {"available", "plain", "valid", "lost", "build", "publish", "remove"}
           /\ call.at # "publish" =>
                call \in [at : {"available", "plain", "valid", "lost", "build", "remove"},
                         link : Link, late : BOOLEAN]
           /\ call.at = "publish" => call.snapshot \in Snapshot
  BY DEF IInv, KindInv, Call

\* stop() leaves it in progress, as one of an earlier session.
LEMMA StopOverCall ==
    ASSUME IInv, Stop
    PROVE  /\ call = NoCall => call' = NoCall
           /\ call # NoCall => /\ call' # NoCall /\ call'.late
                              /\ call'.at = call.at /\ call'.link = call.link
           /\ call' \in Call
<1>1. CASE call = NoCall
  <2>1. (call # NoCall) = FALSE
    BY <1>1
  <2>2. call' = NoCall
    BY <1>1, <2>1 DEF Stop, NoCall
  <2>3. QED
    BY <1>1, <2>2 DEF Call
<1>2. CASE call # NoCall
  <2>1. (call # NoCall) = TRUE
    BY <1>2
  <2>2. call' = [call EXCEPT !.late = TRUE]
    BY <2>1 DEF Stop
  <2>3. CASE call \in [at : {"available", "plain", "valid", "lost", "build", "remove"},
                       link : Link, late : BOOLEAN]
    BY <1>2, <2>2, <2>3 DEF Call, NoCall
  <2>4. CASE call \in [at : {"publish"}, link : Link, late : BOOLEAN, snapshot : Snapshot]
    BY <1>2, <2>2, <2>4 DEF Call, NoCall
  <2>5. QED
    BY <1>2, <2>3, <2>4 DEF IInv, KindInv, Call
<1>3. QED
  BY <1>1, <1>2

-----------------------------------------------------------------------------
(* The callbacks. *)

LEMMA TellKeeps ==
    ASSUME IInv, NEW l \in Link,
           TellAvailable(l) \/ TellChanged(l) \/ TellProperties(l) \/ TellLost(l)
    PROVE  IInv'
<1>1. PICK state \in NetState \cup {"new"}, at \in {"available", "plain", "valid", "lost", "build"} :
          /\ Tell(l, state, at)
          /\ at = "available" => state = "new" /\ told[l] = "none"
          /\ at \in {"plain", "valid"} => state = at /\ told[l] # "none"
          /\ at = "build" => state = told[l] /\ told[l] # "none"
          /\ at = "lost" => state = "none"
  BY DEF IInv, KindInv, NetState, TellAvailable, TellChanged, TellProperties, TellLost
<1>2. /\ running /\ call = NoCall
      /\ told' = [told EXCEPT ![l] = state]
      /\ call' = [at |-> at, link |-> l, late |-> FALSE] /\ call' # NoCall
      /\ UNCHANGED <<net, known, caps, links, coordVars>>
  BY <1>1 DEF Tell, NoCall
<1>3. told \in [Link -> NetState \cup {"new"}]
  BY DEF IInv, KindInv
<1>4. KindInv'
  BY <1>2, <1>3 DEF IInv, KindInv, Call
<1>5. LateInv' /\ ToldInv' /\ CallInv' /\ FlowInv'
  BY <1>1, <1>2, <1>3 DEF IInv, Ours, LateInv, ToldInv, CallInv, FlowInv
<1>6. LeftInv'
  <2>1. LeftOver' \subseteq LeftOver
    BY <1>1, <1>2, <1>3 DEF LeftOver, Ours
  <2>2. QED
    BY <1>2, <2>1 DEF IInv, LeftInv
<1>7. LoopInv' /\ ReconciledInv'
  BY <1>2 DEF IInv, Busy, LoopInv, ReconciledInv
<1>8. SelectedInv' /\ ClockInv' /\ StoppedInv'
  BY <1>2 DEF IInv, SelectedInv, ClockInv, StoppedInv, HoldDownSinceSwitch, Candidates
<1>9. QED
  BY <1>4, <1>5, <1>6, <1>7, <1>8 DEF IInv

\* A handler's next step leaves the callback the same but for where it is.
LEMMA StepOfCall ==
    ASSUME IInv, call.at \in {"available", "plain", "valid", "lost"},
           NEW at \in {"build", "remove"}, call' = [call EXCEPT !.at = at]
    PROVE  /\ call # NoCall /\ call' # NoCall /\ call' \in Call
           /\ call'.at = at /\ call'.link = call.link /\ call'.late = call.late
<1>1. call # NoCall
  BY DEF NoCall
<1>2. call \in [at : {"available", "plain", "valid", "lost", "build", "remove"},
                link : Link, late : BOOLEAN]
  BY <1>1, CallKinds
<1>3. QED
  BY <1>1, <1>2 DEF Call, NoCall

LEMMA OnAvailableKeeps ==
    ASSUME IInv, OnAvailable
    PROVE  IInv'
<1>1. /\ call # NoCall /\ call' # NoCall /\ call' \in Call /\ call.link \in Link
      /\ call'.at = "build" /\ call'.link = call.link /\ call'.late = call.late
  BY StepOfCall, CallKinds DEF OnAvailable
<1>2. KindInv'
  BY <1>1 DEF IInv, KindInv, OnAvailable, With, Without, Snapshot
<1>3. LateInv' /\ ToldInv' /\ CallInv' /\ FlowInv'
  BY <1>1 DEF IInv, KindInv, Ours, LateInv, ToldInv, CallInv, FlowInv, OnAvailable, With, Without
<1>4. LeftInv'
  <2>1. LeftOver' \subseteq LeftOver \cup {call.link}
    BY <1>1 DEF LeftOver, Ours, OnAvailable, With, Without
  <2>2. ~call.late => call.link \notin LeftOver'
    BY <1>1 DEF LeftOver, Ours
  <2>3. QED
    BY <1>1, <2>1, <2>2 DEF IInv, LeftInv
<1>5. LoopInv' /\ ReconciledInv'
  BY <1>1 DEF IInv, Busy, LoopInv, ReconciledInv, OnAvailable
<1>6. SelectedInv' /\ ClockInv' /\ StoppedInv'
  BY DEF IInv, SelectedInv, ClockInv, StoppedInv, HoldDownSinceSwitch,
     Candidates, OnAvailable
<1>7. QED
  BY <1>2, <1>3, <1>4, <1>5, <1>6 DEF IInv

LEMMA OnChangedKeeps ==
    ASSUME IInv, OnChanged
    PROVE  IInv'
<1>1. /\ call # NoCall /\ call' # NoCall /\ call' \in Call /\ call.link \in Link
      /\ call'.at = "build" /\ call'.link = call.link /\ call'.late = call.late
  BY StepOfCall, CallKinds DEF OnChanged
<1>2. KindInv'
  BY <1>1 DEF IInv, KindInv, OnChanged, With, Without, Snapshot
<1>3. LateInv' /\ ToldInv' /\ CallInv' /\ FlowInv'
  BY <1>1 DEF IInv, KindInv, Ours, LateInv, ToldInv, CallInv, FlowInv, OnChanged, With, Without
<1>4. LeftInv'
  <2>1. LeftOver' \subseteq LeftOver \cup {call.link}
    BY <1>1 DEF LeftOver, Ours, OnChanged, With, Without
  <2>2. ~call.late => call.link \notin LeftOver'
    BY <1>1 DEF LeftOver, Ours
  <2>3. QED
    BY <1>1, <2>1, <2>2 DEF IInv, LeftInv
<1>5. LoopInv' /\ ReconciledInv'
  BY <1>1 DEF IInv, Busy, LoopInv, ReconciledInv, OnChanged
<1>6. SelectedInv' /\ ClockInv' /\ StoppedInv'
  BY DEF IInv, SelectedInv, ClockInv, StoppedInv, HoldDownSinceSwitch,
     Candidates, OnChanged
<1>7. QED
  BY <1>2, <1>3, <1>4, <1>5, <1>6 DEF IInv

LEMMA OnLostKeeps ==
    ASSUME IInv, OnLost
    PROVE  IInv'
<1>1. /\ call # NoCall /\ call' # NoCall /\ call' \in Call /\ call.link \in Link
      /\ call'.at = "remove" /\ call'.link = call.link /\ call'.late = call.late
  BY StepOfCall, CallKinds DEF OnLost
<1>2. KindInv'
  BY <1>1 DEF IInv, KindInv, OnLost, With, Without, Snapshot
<1>3. LateInv' /\ ToldInv' /\ CallInv' /\ FlowInv'
  BY <1>1 DEF IInv, KindInv, Ours, LateInv, ToldInv, CallInv, FlowInv, OnLost, With, Without
<1>4. LeftInv'
  <2>1. LeftOver' \subseteq LeftOver \cup {call.link}
    BY <1>1 DEF LeftOver, Ours, OnLost, With, Without
  <2>2. ~call.late => call.link \notin LeftOver'
    BY <1>1 DEF LeftOver, Ours
  <2>3. QED
    BY <1>1, <2>1, <2>2 DEF IInv, LeftInv
<1>5. LoopInv' /\ ReconciledInv'
  BY <1>1 DEF IInv, Busy, LoopInv, ReconciledInv, OnLost
<1>6. SelectedInv' /\ ClockInv' /\ StoppedInv'
  BY DEF IInv, SelectedInv, ClockInv, StoppedInv, HoldDownSinceSwitch,
     Candidates, OnLost
<1>7. QED
  BY <1>2, <1>3, <1>4, <1>5, <1>6 DEF IInv

LEMMA BuildKeeps ==
    ASSUME IInv, Build
    PROVE  IInv'
<1>1. call # NoCall /\ call.at = "build" /\ call.link \in Link
  BY CallKinds DEF Build, NoCall
<1>2. (IF call.link \in DOMAIN caps THEN caps[call.link] ELSE "bare") \in Snapshot
  BY <1>1 DEF IInv, KindInv, Snapshot
<1>3. /\ call' \in Call /\ call' # NoCall
      /\ call'.at = "publish" /\ call'.link = call.link /\ call'.late = call.late
      /\ call'.snapshot = IF call.link \in DOMAIN caps THEN caps[call.link] ELSE "bare"
  BY <1>1, <1>2, CallKinds DEF Build, Call, NoCall
<1>4. KindInv'
  BY <1>3 DEF IInv, KindInv, Build
<1>5. LateInv' /\ ToldInv' /\ CallInv' /\ FlowInv'
  <2>1. UNCHANGED <<net, told, known, caps, links, running, clearing, probes>>
    BY DEF Build
  <2>2. LateInv' /\ FlowInv'
    BY <1>1, <1>3, <2>1 DEF IInv, Ours, LateInv, FlowInv
  <2>3. told[call.link] \in NetState \cup {"new"}
    BY <1>1 DEF IInv, KindInv
  <2>4. ToldInv'
    BY <1>1, <1>3, <2>1 DEF IInv, KindInv, NetState, Ours, ToldInv
  <2>5. ASSUME ~call.late PROVE told[call.link] \in {"new", call'.snapshot}
    BY <1>1, <1>3, <2>3, <2>5 DEF IInv, NetState, Ours, ToldInv, CallInv
  <2>6. CallInv'
    BY <1>1, <1>3, <2>1, <2>5 DEF IInv, CallInv
  <2>7. QED
    BY <2>2, <2>4, <2>6
<1>6. LeftInv'
  <2>1. LeftOver' = LeftOver
    BY <1>1, <1>3 DEF LeftOver, Ours, Build
  <2>2. QED
    BY <1>1, <1>3, <2>1 DEF IInv, LeftInv
<1>7. LoopInv' /\ ReconciledInv'
  BY <1>1, <1>3 DEF IInv, Busy, LoopInv, ReconciledInv, Build
<1>8. SelectedInv' /\ ClockInv' /\ StoppedInv'
  BY DEF IInv, SelectedInv, ClockInv, StoppedInv, HoldDownSinceSwitch,
     Candidates, Build
<1>9. QED
  BY <1>4, <1>5, <1>6, <1>7, <1>8 DEF IInv

LEMMA PublishKeeps ==
    ASSUME IInv, Publish
    PROVE  IInv'
<1>1. /\ call # NoCall /\ call.at = "publish" /\ call.link \in Link /\ call.late \in BOOLEAN
      /\ call.snapshot \in Snapshot
      /\ links' = With(links, call.link, call.snapshot)
      /\ UNCHANGED <<osVars, known, caps, switchVars, configVars, dataVars, selectVars>>
  BY CallKinds DEF Publish, NoCall
<1>2. /\ call' \in Call
      /\ call' # NoCall => /\ call.late /\ call'.late /\ call'.link = call.link
                           /\ call'.at \in {"plain", "valid"}
  <2>1. CASE call' = NoCall
    BY <2>1 DEF Call
  <2>2. CASE call' # NoCall
    <3>1. PICK state \in {"plain", "valid"} :
              call.late /\ call' = [at |-> state, link |-> call.link, late |-> TRUE]
      BY <2>2 DEF Publish
    <3>2. QED
      BY <1>1, <3>1 DEF Call
  <2>3. QED
    BY <2>1, <2>2
<1>3. KindInv'
  BY <1>1, <1>2 DEF IInv, KindInv, With
<1>4. LateInv' /\ ToldInv' /\ CallInv' /\ FlowInv'
  <2>1. LateInv' /\ CallInv'
    BY <1>1, <1>2 DEF IInv, LateInv, CallInv, With
  <2>2. told[call.link] \in NetState \cup {"new"}
    BY <1>1 DEF IInv, KindInv
  <2>3. ToldInv'
    BY <1>1, <1>2, <2>2 DEF IInv, KindInv, NetState, Ours, LateInv, ToldInv
  <2>4. FlowInv'
    BY <1>1, <1>2 DEF IInv, Ours, LateInv, CallInv, FlowInv, With
  <2>5. QED
    BY <2>1, <2>3, <2>4
<1>5. LeftInv'
  <2>1. LeftOver' \subseteq LeftOver \cup {call.link}
    BY <1>1 DEF LeftOver, Ours, With
  <2>2. ~call.late => call.link \notin LeftOver'
    BY <1>1 DEF IInv, CallInv, LeftOver
  <2>3. QED
    BY <1>1, <1>2, <2>1, <2>2 DEF IInv, LeftInv
<1>6. LoopInv' /\ ReconciledInv'
  <2>1. due' = due \cup Waking("links", TRUE)
    BY DEF Publish
  <2>2. running => "reconcile" \in due'
    BY <2>1
  <2>3. ReconciledInv'
    BY <1>1, <2>2 DEF ReconciledInv
  <2>4. LoopInv'
    <3>1. ASSUME call.link \in DOMAIN probes PROVE call.link \in known \/ call.link \in DOMAIN links
      BY <1>1, <3>1 DEF IInv, Ours, StoppedInv, Empty, LateInv, ToldInv, CallInv
    <3>2. QED
      BY <1>1, <1>2, <3>1 DEF IInv, Busy, LoopInv, With
  <2>5. QED
    BY <2>3, <2>4
<1>7. SelectedInv' /\ ClockInv' /\ StoppedInv'
  BY DEF IInv, SelectedInv, ClockInv, StoppedInv, HoldDownSinceSwitch,
     Publish
<1>8. QED
  BY <1>3, <1>4, <1>5, <1>6, <1>7 DEF IInv

LEMMA PublishLossKeeps ==
    ASSUME IInv, PublishLoss
    PROVE  IInv'
<1>1. call # NoCall /\ call.at = "remove" /\ call.link \in Link /\ call' = NoCall
  BY CallKinds DEF PublishLoss, NoCall
<1>2. KindInv'
  BY DEF IInv, KindInv, Call, PublishLoss, Without
<1>3. LateInv' /\ ToldInv' /\ CallInv' /\ FlowInv'
  BY <1>1 DEF IInv, Ours, LateInv, ToldInv, CallInv, FlowInv, PublishLoss, Without
<1>4. LeftInv'
  <2>1. LeftOver' \subseteq LeftOver
    BY <1>1 DEF IInv, CallInv, LeftOver, Ours, PublishLoss, Without
  <2>2. QED
    BY <1>1, <2>1 DEF IInv, LeftInv
<1>5. LoopInv' /\ ReconciledInv'
  BY <1>1 DEF IInv, Busy, LoopInv, ReconciledInv, PublishLoss, Without
<1>6. SelectedInv' /\ ClockInv' /\ StoppedInv'
  BY DEF IInv, SelectedInv, ClockInv, StoppedInv, HoldDownSinceSwitch,
     Candidates, PublishLoss, Without
<1>7. QED
  BY <1>2, <1>3, <1>4, <1>5, <1>6 DEF IInv

-----------------------------------------------------------------------------
(* The main thread. *)

LEMMA StartKeeps ==
    ASSUME IInv, Start
    PROVE  IInv'
<1>1. KindInv'
  BY DEF IInv, KindInv, Start
<1>2. LateInv' /\ ToldInv' /\ CallInv' /\ FlowInv' /\ LeftInv'
  <2>1. LateInv' /\ LeftInv'
    BY DEF IInv, Ours, LateInv, LeftInv, LeftOver, Start, StoppedInv, Empty
  <2>2. ToldInv' /\ CallInv' /\ FlowInv'
    BY DEF IInv, Ours, LateInv, ToldInv, CallInv, FlowInv, Start
  <2>3. QED
    BY <2>1, <2>2
<1>3. LoopInv' /\ ReconciledInv'
  BY DEF IInv, Busy, LoopInv, ReconciledInv, Start
<1>4. SelectedInv' /\ ClockInv' /\ StoppedInv'
  BY DEF IInv, SelectedInv, ClockInv, StoppedInv, HoldDownSinceSwitch,
     Start
<1>5. QED
  BY <1>1, <1>2, <1>3, <1>4 DEF IInv

LEMMA StopKeeps ==
    ASSUME IInv, Stop
    PROVE  IInv'
<1>1. /\ told' = [l \in Link |-> "none"] /\ running' = FALSE /\ clearing' = "known"
      /\ UNCHANGED <<net, known, caps, links>>
  BY DEF Stop
<1>2. KindInv'
  <2>1. call' \in Call
    BY StopOverCall
  <2>2. QED
    BY <1>1, <2>1 DEF IInv, KindInv, NetState
<1>3. LateInv' /\ ToldInv' /\ FlowInv'
  BY <1>1 DEF LateInv, ToldInv, FlowInv
<1>4. CallInv'
  BY StopOverCall DEF CallInv
<1>5. LeftInv'
  BY <1>1 DEF LeftInv, LeftOver
<1>6. LoopInv' /\ ReconciledInv'
  BY DEF LoopInv, ReconciledInv, Stop, Empty
<1>7. SelectedInv' /\ ClockInv' /\ StoppedInv'
  BY DEF SelectedInv, ClockInv, StoppedInv, HoldDownSinceSwitch, Stop,
     NoSelection, Selection
<1>8. QED
  BY <1>2, <1>3, <1>4, <1>5, <1>6, <1>7 DEF IInv

LEMMA ClearKnownKeeps ==
    ASSUME IInv, ClearKnown
    PROVE  IInv'
<1>1. KindInv'
  BY DEF IInv, KindInv, ClearKnown, Empty
<1>2. LateInv' /\ ToldInv' /\ CallInv' /\ FlowInv' /\ LeftInv'
  BY DEF IInv, KindInv, Ours, LateInv, ToldInv, CallInv, FlowInv, LeftInv, LeftOver, ClearKnown, Empty
<1>3. LoopInv'
  BY DEF IInv, KindInv, LoopInv, ClearKnown, Empty, StoppedInv
<1>4. ReconciledInv'
  BY DEF IInv, KindInv, ReconciledInv, ClearKnown
<1>5. SelectedInv' /\ ClockInv' /\ StoppedInv'
  BY DEF IInv, KindInv, SelectedInv, ClockInv, StoppedInv,
     HoldDownSinceSwitch, ClearKnown
<1>6. QED
  BY <1>1, <1>2, <1>3, <1>4, <1>5 DEF IInv

LEMMA ClearCapsKeeps ==
    ASSUME IInv, ClearCaps
    PROVE  IInv'
<1>1. KindInv'
  BY DEF IInv, KindInv, ClearCaps, Empty
<1>2. LateInv' /\ ToldInv' /\ CallInv' /\ FlowInv' /\ LeftInv'
  BY DEF IInv, KindInv, Ours, LateInv, ToldInv, CallInv, FlowInv, LeftInv, LeftOver, ClearCaps, Empty
<1>3. LoopInv'
  BY DEF IInv, KindInv, LoopInv, ClearCaps, Empty, StoppedInv
<1>4. ReconciledInv'
  BY DEF IInv, KindInv, ReconciledInv, ClearCaps
<1>5. SelectedInv' /\ ClockInv' /\ StoppedInv'
  BY DEF IInv, KindInv, SelectedInv, ClockInv, StoppedInv,
     HoldDownSinceSwitch, ClearCaps
<1>6. QED
  BY <1>1, <1>2, <1>3, <1>4, <1>5 DEF IInv

LEMMA ClearFlowKeeps ==
    ASSUME IInv, ClearFlow
    PROVE  IInv'
<1>1. KindInv'
  BY DEF IInv, KindInv, ClearFlow, Empty
<1>2. LateInv' /\ ToldInv' /\ CallInv' /\ FlowInv' /\ LeftInv'
  BY DEF IInv, KindInv, Ours, LateInv, ToldInv, CallInv, FlowInv, LeftInv, LeftOver, ClearFlow, Empty
<1>3. LoopInv' /\ ReconciledInv'
  BY DEF IInv, KindInv, LoopInv, ReconciledInv, ClearFlow, Empty
<1>4. SelectedInv' /\ ClockInv' /\ StoppedInv'
  BY DEF IInv, KindInv, SelectedInv, ClockInv, StoppedInv,
     HoldDownSinceSwitch, ClearFlow
<1>5. QED
  BY <1>1, <1>2, <1>3, <1>4 DEF IInv

LEMMA ConfigureKeeps ==
    ASSUME IInv, Configure
    PROVE  IInv'
<1>1. KindInv'
  BY DEF IInv, KindInv, Configure
<1>2. LateInv' /\ ToldInv' /\ CallInv' /\ FlowInv' /\ LeftInv'
  BY DEF IInv, Ours, LateInv, ToldInv, CallInv, FlowInv, LeftInv, LeftOver, Configure
<1>3. LoopInv' /\ ReconciledInv'
  BY DEF IInv, Busy, LoopInv, ReconciledInv, Configure
<1>4. SelectedInv' /\ ClockInv' /\ StoppedInv'
  BY DEF IInv, SelectedInv, ClockInv, StoppedInv, HoldDownSinceSwitch,
     Candidates, Configure
<1>5. QED
  BY <1>1, <1>2, <1>3, <1>4 DEF IInv

LEMMA ProbeDoneKeeps ==
    ASSUME IInv, NEW l \in Link, ProbeDone(l)
    PROVE  IInv'
<1>1. KindInv'
  BY DEF IInv, KindInv, ProbeDone
<1>2. LateInv' /\ ToldInv' /\ CallInv' /\ FlowInv' /\ LeftInv'
  BY DEF IInv, Ours, LateInv, ToldInv, CallInv, FlowInv, LeftInv, LeftOver, ProbeDone
<1>3. LoopInv' /\ ReconciledInv'
  BY DEF IInv, Busy, LoopInv, ReconciledInv, ProbeDone, With
<1>4. SelectedInv' /\ ClockInv' /\ StoppedInv'
  BY DEF IInv, SelectedInv, ClockInv, StoppedInv, HoldDownSinceSwitch,
     Candidates, ProbeDone, Empty
<1>5. QED
  BY <1>1, <1>2, <1>3, <1>4 DEF IInv

LEMMA ReconcileKeeps ==
    ASSUME IInv, Reconcile
    PROVE  IInv'
<1>1. KindInv'
  BY DEF IInv, KindInv, Reconcile
<1>2. LateInv' /\ ToldInv' /\ CallInv' /\ FlowInv' /\ LeftInv'
  BY DEF IInv, Ours, LateInv, ToldInv, CallInv, FlowInv, LeftInv, LeftOver, Reconcile, Empty,
     Loops
<1>3. LoopInv' /\ ReconciledInv'
  BY DEF IInv, Busy, LoopInv, ReconciledInv, Loops, Reconcile, Without,
     Empty
<1>4. SelectedInv' /\ ClockInv' /\ StoppedInv'
  BY DEF IInv, SelectedInv, ClockInv, StoppedInv, HoldDownSinceSwitch,
     Candidates, Reconcile
<1>5. QED
  BY <1>1, <1>2, <1>3, <1>4 DEF IInv

LEMMA ScoreKeeps ==
    ASSUME IInv, Score
    PROVE  IInv'
<1>1. KindInv'
  BY DEF IInv, KindInv, Score
<1>2. LateInv' /\ ToldInv' /\ CallInv' /\ FlowInv' /\ LeftInv'
  BY DEF IInv, Ours, LateInv, ToldInv, CallInv, FlowInv, LeftInv, LeftOver, Score
<1>3. LoopInv' /\ ReconciledInv'
  BY DEF IInv, Busy, LoopInv, ReconciledInv, Score
<1>4. SelectedInv' /\ ClockInv' /\ StoppedInv'
  BY DEF IInv, SelectedInv, ClockInv, StoppedInv, HoldDownSinceSwitch,
     Candidates, Score
<1>5. QED
  BY <1>1, <1>2, <1>3, <1>4 DEF IInv

LEMMA SelectKeeps ==
    ASSUME IInv, Select
    PROVE  IInv'
<1>1. KindInv'
  BY DEF IInv, KindInv, Select
<1>2. LateInv' /\ ToldInv' /\ CallInv' /\ FlowInv' /\ LeftInv'
  BY DEF IInv, Ours, LateInv, ToldInv, CallInv, FlowInv, LeftInv, LeftOver, Select
<1>3. LoopInv' /\ ReconciledInv'
  BY DEF IInv, Busy, LoopInv, ReconciledInv, Select
<1>4. SelectedInv' /\ ClockInv' /\ StoppedInv'
  BY DEF IInv, KindInv, SelectedInv, ClockInv, StoppedInv,
     HoldDownSinceSwitch, Candidates, Select, Decide, Stays, BestOf,
     NoSelection, Selection
<1>5. QED
  BY <1>1, <1>2, <1>3, <1>4 DEF IInv

-----------------------------------------------------------------------------
(* Android and the clock. *)

LEMMA NetChangeKeeps ==
    ASSUME IInv, NEW l \in Link, NetChange(l)
    PROVE  IInv'
<1>1. KindInv'
  BY DEF IInv, KindInv, NetChange
<1>2. LateInv' /\ ToldInv' /\ CallInv' /\ FlowInv' /\ LeftInv'
  BY DEF IInv, Ours, LateInv, ToldInv, CallInv, FlowInv, LeftInv, LeftOver, NetChange
<1>3. LoopInv' /\ ReconciledInv'
  BY DEF IInv, Busy, LoopInv, ReconciledInv, NetChange
<1>4. SelectedInv' /\ ClockInv' /\ StoppedInv'
  BY DEF IInv, SelectedInv, ClockInv, StoppedInv, HoldDownSinceSwitch,
     Candidates, NetChange
<1>5. QED
  BY <1>1, <1>2, <1>3, <1>4 DEF IInv

LEMMA ElapseKeeps ==
    ASSUME IInv, Elapse
    PROVE  IInv'
<1>1. KindInv'
  BY DEF IInv, KindInv, Elapse
<1>2. LateInv' /\ ToldInv' /\ CallInv' /\ FlowInv' /\ LeftInv'
  BY DEF IInv, Ours, LateInv, ToldInv, CallInv, FlowInv, LeftInv, LeftOver, Elapse
<1>3. LoopInv' /\ ReconciledInv'
  BY DEF IInv, Busy, LoopInv, ReconciledInv, Elapse
<1>4. SelectedInv' /\ ClockInv' /\ StoppedInv'
  BY DEF IInv, SelectedInv, ClockInv, StoppedInv, HoldDownSinceSwitch,
     Candidates, Elapse, Aged, Selection, NoSelection
<1>5. QED
  BY <1>1, <1>2, <1>3, <1>4 DEF IInv

LEMMA InitEstablishes == Init => IInv
<1> SUFFICES ASSUME Init PROVE IInv
  OBVIOUS
<1>1. KindInv
  BY DEF Init, KindInv, Call, NoCall, Empty, NetState
<1>2. LateInv /\ ToldInv /\ CallInv /\ FlowInv /\ LeftInv
  BY DEF Init, LateInv, ToldInv, CallInv, FlowInv, LeftInv, LeftOver, NoCall, Empty
<1>3. LoopInv /\ ReconciledInv
  BY DEF Init, LoopInv, ReconciledInv, Empty
<1>4. SelectedInv /\ ClockInv /\ StoppedInv
  BY DEF Init, SelectedInv, ClockInv, HoldDownSinceSwitch, StoppedInv, NoSelection, Selection
<1>5. QED
  BY <1>1, <1>2, <1>3, <1>4 DEF IInv

LEMMA StutterKeeps ==
    ASSUME IInv, UNCHANGED vars
    PROVE  IInv'
<1>1. KindInv' /\ LateInv' /\ ToldInv' /\ CallInv' /\ FlowInv' /\ LeftInv'
  BY DEF IInv, KindInv, Call, Ours, LeftInv, LeftOver, LateInv, ToldInv, CallInv, FlowInv, vars
<1>2. LoopInv' /\ ReconciledInv'
  BY DEF IInv, Busy, LoopInv, ReconciledInv, vars
<1>3. SelectedInv' /\ ClockInv' /\ StoppedInv'
  BY DEF IInv, SelectedInv, ClockInv, HoldDownSinceSwitch, StoppedInv, Candidates, vars
<1>4. QED
  BY <1>1, <1>2, <1>3 DEF IInv

LEMMA StepKeeps ==
    ASSUME IInv, [Next]_vars
    PROVE  IInv'
<1>1. CASE Callback
  BY <1>1, OnAvailableKeeps, OnChangedKeeps, OnLostKeeps, BuildKeeps, PublishKeeps,
     PublishLossKeeps DEF Callback
<1>2. CASE Start \/ Stop \/ ClearKnown \/ ClearCaps \/ ClearFlow \/ Configure
  BY <1>2, StartKeeps, StopKeeps, ClearKnownKeeps, ClearCapsKeeps, ClearFlowKeeps, ConfigureKeeps
<1>3. CASE Reconcile \/ Score \/ Select \/ Elapse
  BY <1>3, ReconcileKeeps, ScoreKeeps, SelectKeeps, ElapseKeeps
<1>4. ASSUME NEW l \in Link,
             \/ TellAvailable(l) \/ TellChanged(l) \/ TellProperties(l) \/ TellLost(l)
             \/ ProbeDone(l) \/ NetChange(l)
      PROVE  IInv'
  BY <1>4, TellKeeps, ProbeDoneKeeps, NetChangeKeeps
<1>5. CASE UNCHANGED vars
  BY <1>5, StutterKeeps
<1>6. QED
  BY <1>1, <1>2, <1>3, <1>4, <1>5 DEF Next

-----------------------------------------------------------------------------
(* What the flows carry. *)

LEMMA ProbeDoneKeepsData ==
    ASSUME IInv, DataInv, NEW l \in Link, ProbeDone(l)
    PROVE  DataInv'
<1> DEFINE window == IF l \in DOMAIN health THEN health[l] ELSE << >>
<1>1. PICK sample \in IF net[l] = "none" THEN {Failed} ELSE Samples[l] :
          health' = With(health, l, AddSample(window, sample))
  BY DEF ProbeDone
<1>2. sample \in Sample
  BY <1>1 DEF Sample
<1>3. << >> \in Window
  BY ScorerAssumption DEF Window
<1>4. window \in Window
  BY <1>3 DEF DataInv
<1>5. AddSample(window, sample) \in Window
  <2> HIDE DEF window
  <2>1. QED
    BY <1>2, <1>4, AddSampleKeeps
<1> HIDE DEF window
<1>6. \A k \in DOMAIN health' : k \in Link /\ health'[k] \in Window
  BY <1>1, <1>5 DEF DataInv, With
<1>7. QED
  BY <1>6 DEF DataInv, ProbeDone

LEMMA ReconcileKeepsData ==
    ASSUME IInv, DataInv, Reconcile
    PROVE  DataInv'
<1>1. /\ DOMAIN health' \subseteq DOMAIN health /\ \A l \in DOMAIN health' : health'[l] = health[l]
      /\ DOMAIN scores' \subseteq DOMAIN scores /\ \A l \in DOMAIN scores' : scores'[l] = scores[l]
  BY DEF Reconcile, Without, Empty
<1>2. DOMAIN probes' \subseteq Link /\ \A l \in DOMAIN probes' : probes'[l] \in Configs
  BY DEF Reconcile, Loops, IInv, KindInv, DataInv, Empty
<1>3. due' \subseteq {"reconcile", "score", "select"}
  BY DEF Reconcile, DataInv
<1>4. config' \in Configs /\ applied' \in Configs \cup {NoConfig}
  BY DEF Reconcile, DataInv
<1>5. links' = links
  BY DEF Reconcile
<1>6. QED
  BY <1>1, <1>2, <1>3, <1>4, <1>5 DEF DataInv

LEMMA ScoreKeepsData ==
    ASSUME IInv, DataInv, Score
    PROVE  DataInv'
<1>1. << >> \in Window
  BY ScorerAssumption DEF Window
<1>2. ASSUME NEW l \in DOMAIN links
      PROVE  /\ l \in Link /\ links[l] \in Snapshot
             /\ (IF l \in DOMAIN health THEN health[l] ELSE << >>) \in Window
  BY <1>1 DEF IInv, KindInv, DataInv
<1>3. /\ DOMAIN scores' \subseteq Link
      /\ \A l \in DOMAIN scores' : \E x \in Snapshot, w \in Window : scores'[l] = LinkScore(x, w)
  BY <1>2 DEF Score
<1>4. due' \subseteq {"reconcile", "score", "select"}
  BY DEF Score, DataInv
<1>5. QED
  BY <1>3, <1>4 DEF DataInv, Score

LEMMA StepKeepsData ==
    ASSUME IInv, DataInv, [Next]_vars
    PROVE  DataInv'
<1>1. CASE UNCHANGED vars
  BY <1>1 DEF DataInv, vars
<1>2. CASE Callback
  <2>1. \A l \in DOMAIN links' : links'[l] \in Snapshot
    BY <1>2, CallKinds DEF DataInv, Callback, OnAvailable, OnChanged, OnLost, Build, Publish, PublishLoss, With, Without, NoCall
  <2>2. QED
    BY <1>2, <2>1 DEF DataInv, Callback, OnAvailable, OnChanged, OnLost, Build, Publish, PublishLoss
<1>3. CASE Start \/ Stop
  BY <1>3 DEF DataInv, Start, Stop, Empty
<1>4. CASE ClearKnown \/ ClearCaps \/ ClearFlow \/ Select \/ Elapse
  BY <1>4 DEF DataInv, ClearKnown, ClearCaps, ClearFlow, Select, Elapse, Empty
<1>5. CASE Configure
  BY <1>5 DEF DataInv, Configure
<1>6. ASSUME NEW l \in Link, TellAvailable(l) \/ TellChanged(l) \/ TellProperties(l)
                              \/ TellLost(l) \/ NetChange(l)
      PROVE  DataInv'
  BY <1>6 DEF DataInv, TellAvailable, TellChanged, TellProperties, TellLost, Tell, NetChange
<1>7. QED
  BY <1>1, <1>2, <1>3, <1>4, <1>5, <1>6, ProbeDoneKeepsData, ReconcileKeepsData,
     ScoreKeepsData DEF Next

-----------------------------------------------------------------------------
LEMMA Invariance == Spec => []IInv
  BY InitEstablishes, StepKeeps, PTL DEF Spec

\* Every variable keeps to its kind: no window outgrows its size and every
\* score is a percentage, whatever the probes find (LinkScorer.kt,
\* JitterLossAggregator.kt).
THEOREM TypeCorrect == Spec => []TypeOK
<1>1. Init => DataInv
  BY DEF Init, DataInv, Empty
<1>2. IInv /\ DataInv /\ [Next]_vars => DataInv'
  BY StepKeepsData
<1>3. IInv /\ DataInv => TypeOK
  <2> SUFFICES ASSUME IInv, DataInv PROVE TypeOK
    OBVIOUS
  <2>1. \A l \in DOMAIN health : l \in Link /\ health[l] \in Seq(Sample) /\ Len(health[l]) <= WindowSize
    BY DEF DataInv, Window
  <2>2. \A l \in DOMAIN scores : l \in Link /\ Percent(scores[l]) \in 0..100
    BY PercentInBounds DEF DataInv
  <2>3. call.at \in {"idle", "available", "plain", "valid", "lost", "build", "publish", "remove"}
    BY DEF IInv, KindInv, Call, NoCall
  <2>4. /\ known \subseteq Link /\ DOMAIN caps \subseteq Link /\ \A l \in DOMAIN caps : caps[l] \in Snapshot
        /\ DOMAIN links \subseteq Link /\ \A l \in DOMAIN links : links[l] \in Snapshot
    BY DEF IInv, KindInv, DataInv
  <2>5. /\ net \in [Link -> NetState] /\ told \in [Link -> NetState \cup {"new"}]
        /\ running \in BOOLEAN /\ clearing \in {"nothing", "known", "caps", "flow"}
        /\ selection \in Selection /\ since \in 0..HoldDown
    BY DEF IInv, KindInv, ClockInv
  <2>6. QED
    BY <2>1, <2>2, <2>3, <2>4, <2>5 DEF DataInv, TypeOK
<1>4. QED
  BY <1>1, <1>2, <1>3, Invariance, PTL DEF Spec

\* Of the links that nobody has been told of, one at most is shown, known or
\* has capabilities while no callback is in progress: the link of the callback
\* that was under way at the last stop() (NetworkMonitor.kt, stop).
THEOREM OneEverLeftOver == Spec => []OneLeftOver
<1>1. IInv => OneLeftOver
  BY DEF IInv, LeftInv, LeftOver, Ours, OneLeftOver, Free
<1>2. QED
  BY <1>1, Invariance, PTL

\* Once the callbacks have told everything, every network there is is known
\* and shown as it is, whatever has been left behind by earlier sessions
\* (NetworkMonitor.kt, the callbacks and refresh).
THEOREM LinksAlwaysFollow == Spec => []LinksFollow
<1>1. IInv => LinksFollow
  BY DEF IInv, KindInv, NetState, ToldInv, FlowInv, Ours, LinksFollow
<1>2. QED
  BY <1>1, Invariance, PTL

\* A reconciliation with nothing left to do has its loops on exactly the links
\* that are known, with the configuration in force (MonitoringCoordinator.kt,
\* reconcileProbes).
THEOREM ProbesAlwaysFollow == Spec => []ProbesFollow
<1>1. IInv => ProbesFollow
  BY DEF IInv, LoopInv, ReconciledInv, Busy, Quiet, ProbesFollow
<1>2. QED
  BY <1>1, Invariance, PTL

\* A selector with nothing left to do has a usable link that has a score if
\* there is one (SelectionPolicy.kt, decide).
THEOREM SelectionAlwaysFollows == Spec => []SelectionFollows
<1>1. IInv => SelectionFollows
  BY DEF IInv, SelectedInv, Quiet, SelectionFollows
<1>2. QED
  BY <1>1, Invariance, PTL

\* Hold-down runs from the last switch, however often the policy has been
\* asked since (SelectionPolicy.kt, decide).
THEOREM HoldDownAlwaysSinceSwitch == Spec => []HoldDownSinceSwitch
<1>1. IInv => HoldDownSinceSwitch
  BY DEF IInv, ClockInv
<1>2. QED
  BY <1>1, Invariance, PTL
=============================================================================
