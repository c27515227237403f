------------------------- MODULE PolicySessionProofs -------------------------
(***************************************************************************)
(* Theorems about PolicySession: for any number of interfaces, thresholds, *)
(* cycles and hold-down, the incremental streak of steering/policy.py      *)
(* confirms what the window of the last ticks calls for.                   *)
(***************************************************************************)
EXTENDS PolicySession, SequenceTheorems, TLAPS

\* The streak is the longest run of its candidate at the end of the window,
\* as far as the window goes.
StreakInv ==
    /\ policy.candidate = None <=> policy.count = 0
    /\ policy.count <= Len(window)
    /\ \A k \in 1..policy.count : window[Len(window) + 1 - k] = policy.candidate
    /\ policy.count = 0 /\ Len(window) > 0 => window[Len(window)] = None
    /\ policy.count \in 1..(MinCycles - 1) /\ policy.count < Len(window) =>
           window[Len(window) - policy.count] # policy.candidate

\* What the controller is told to do follows from the streak.
TargetInv ==
    target = IF phase = "decided" /\ policy.holdLeft = 0 /\ policy.count = MinCycles
             THEN policy.candidate ELSE None

IInv == TypeOK /\ StreakInv /\ TargetInv /\ HoldDownIsQuiet

USE PolicyAssumption, SessionAssumption

-----------------------------------------------------------------------------
(* The reference names the interface that the loop of decide() finds. *)

\* Ranks order interfaces by worth, and equals by their number.
LEMMA RankOrder ==
    ASSUME NEW a \in Int, NEW b \in Int, NEW i \in Iface, NEW j \in Iface
    PROVE  a * (NIface + 1) - i <= b * (NIface + 1) - j <=> a < b \/ (a = b /\ j <= i)
<1>1. CASE a < b
  <2>1. (b - a) * (NIface + 1) >= NIface + 1
    BY <1>1
  <2>2. b * (NIface + 1) - a * (NIface + 1) >= NIface + 1
    BY <2>1
  <2>3. QED
    BY <1>1, <2>2 DEF Iface
<1>2. CASE b < a
  <2>1. (a - b) * (NIface + 1) >= NIface + 1
    BY <1>2
  <2>2. a * (NIface + 1) - b * (NIface + 1) >= NIface + 1
    BY <2>1
  <2>3. QED
    BY <1>2, <2>2 DEF Iface
<1>3. CASE a = b
  BY <1>3 DEF Iface
<1>4. QED
  BY <1>1, <1>2, <1>3

LEMMA CandidatesTyped ==
    ASSUME NEW cands \in CandidateMaps
    PROVE  /\ DOMAIN cands \subseteq Iface
           /\ \A i \in DOMAIN cands : cands[i] \in CandidateHealth
  BY DEF CandidateMaps

LEMMA WorthOfEligible ==
    ASSUME NEW cands \in CandidateMaps, NEW active, NEW i \in Iface \ {active}
    PROVE  /\ Worth(i, cands) \in {Unknown} \cup 0..MaxScore
           /\ i \in Eligible(active, cands) <=> Worth(i, cands) # Unknown
           /\ i \in Eligible(active, cands) => Worth(i, cands) = cands[i].score
  BY CandidatesTyped DEF CandidateHealth, Worth, Eligible

\* The first of the best is the only one of the highest rank.
LEMMA BestLeads ==
    ASSUME NEW active, NEW cands \in CandidateMaps,
           NEW best \in Eligible(active, cands), IsBest(best, active, cands)
    PROVE  LET others == {i \in Iface \ {active} : Worth(i, cands) # Unknown}
               rank(i) == Worth(i, cands) * (NIface + 1) - i
           IN  /\ best \in others
               /\ (CHOOSE i \in others : \A j \in others : rank(j) <= rank(i)) = best
<1> DEFINE others == {i \in Iface \ {active} : Worth(i, cands) # Unknown}
           rank(i) == Worth(i, cands) * (NIface + 1) - i
<1>1. others = Eligible(active, cands)
  BY CandidatesTyped, WorthOfEligible DEF Eligible
<1>2. \A i \in others : i \in Iface /\ Worth(i, cands) \in Int /\ Worth(i, cands) = cands[i].score
  BY <1>1, WorthOfEligible DEF Unknown
<1>3. \A i, j \in others :
          rank(j) <= rank(i) <=> \/ Worth(j, cands) < Worth(i, cands)
                                 \/ Worth(j, cands) = Worth(i, cands) /\ i <= j
  BY <1>2, RankOrder
<1> HIDE DEF others, rank
<1>4. \A j \in others : rank(j) <= rank(best)
  BY <1>1, <1>2, <1>3 DEF IsBest
<1>5. \A i \in others : (\A j \in others : rank(j) <= rank(i)) => i = best
  <2> SUFFICES ASSUME NEW i \in others, rank(best) <= rank(i) PROVE i = best
    BY <1>1
  <2>1. rank(i) <= rank(best)
    BY <1>4
  <2>2. QED
    BY <1>1, <1>2, <1>3, <2>1 DEF Iface
<1>6. best \in others /\ (CHOOSE i \in others : \A j \in others : rank(j) <= rank(i)) = best
  BY <1>1, <1>4, <1>5
<1>7. QED
  BY <1>6 DEF others, rank

LEMMA ReferenceIsBest ==
    ASSUME NEW active \in Iface \cup {None}, NEW cands \in CandidateMaps,
           NEW best \in Iface \cup {None}, IsBest(best, active, cands)
    PROVE  CalledFor(active, cands) =
               IF best # None /\ MeetsCondition(best, active, cands) THEN best ELSE None
<1> DEFINE others == {i \in Iface \ {active} : Worth(i, cands) # Unknown}
           lead == CHOOSE i \in others :
                       \A j \in others : Worth(j, cands) * (NIface + 1) - j
                                            <= Worth(i, cands) * (NIface + 1) - i
           margin == IF active \in DOMAIN cands THEN cands[active].score ELSE Unknown
<1>1. CASE Eligible(active, cands) = {}
  <2>1. others = {}
    BY <1>1, WorthOfEligible
  <2>2. QED
    BY <1>1, <2>1 DEF CalledFor, IsBest
<1>2. CASE Eligible(active, cands) # {}
  <2>1. best \in Eligible(active, cands)
    BY <1>2 DEF IsBest
  <2>2. best \in DOMAIN cands /\ best \in Iface \ {active}
    BY <2>1, CandidatesTyped DEF Eligible
  <2>3. best # None /\ Worth(best, cands) = cands[best].score
    BY <2>1, <2>2, WorthOfEligible DEF Iface, None
  <2>4. others # {} /\ lead = best
    BY <2>1, BestLeads
  <2>5. CalledFor(active, cands) =
            IF /\ others # {}
               /\ \/ active \notin DOMAIN cands
                  \/ cands[active].reachable = "no"
                  \/ margin \in 0..(Unhealthy - 1)
                  \/ /\ margin # Unknown
                     /\ Worth(lead, cands) > margin
                     /\ Worth(lead, cands) >= margin + Advantage
            THEN lead ELSE None
    BY DEF CalledFor
  <2> HIDE DEF others, lead
  <2>6. QED
    BY <2>2, <2>3, <2>4, <2>5, CandidatesTyped
    DEF MeetsCondition, ConfirmedUnhealthy, CandidateHealth, Unknown
<1>3. QED
  BY <1>1, <1>2

-----------------------------------------------------------------------------
(* The window. *)

LEMMA WindowGrows ==
    ASSUME NEW S, NEW w \in Seq(S), Len(w) <= MinCycles, NEW x \in S
    PROVE  LET v == LastOf(Append(w, x), MinCycles)
           IN  /\ v \in Seq(S)
               /\ Len(v) = IF Len(w) < MinCycles THEN Len(w) + 1 ELSE MinCycles
               /\ v[Len(v)] = x
               /\ \A k \in 1..(Len(v) - 1) : v[Len(v) - k] = w[Len(w) + 1 - k]
<1> DEFINE a == Append(w, x)
<1>1. /\ a \in Seq(S) /\ Len(a) = Len(w) + 1 /\ a[Len(w) + 1] = x
      /\ \A k \in 1..Len(w) : a[k] = w[k]
      /\ Len(w) \in Nat
  BY LenProperties
<1>2. \A k \in 1..Len(a) : a[k] \in S
  BY <1>1, ElementOfSeq
<1> HIDE DEF a
<1>3. CASE Len(w) < MinCycles
  <2>1. LastOf(a, MinCycles) = a
    BY <1>1, <1>3 DEF LastOf
  <2>2. QED
    BY <1>1, <1>3, <2>1 DEF a
<1>4. CASE Len(w) = MinCycles
  <2>1. LastOf(a, MinCycles) = SubSeq(a, 2, MinCycles + 1)
    BY <1>1, <1>4 DEF LastOf
  <2> DEFINE v == SubSeq(a, 2, MinCycles + 1)
  <2>2. \A k \in 2..(MinCycles + 1) : a[k] \in S
    BY <1>1, <1>2, <1>4
  <2>3. /\ v \in Seq(S) /\ Len(v) = MinCycles
        /\ \A k \in 1..MinCycles : v[k] = a[k + 1]
    BY <2>2, SubSeqProperties
  <2> HIDE DEF v
  <2>4. v[Len(v)] = x /\ \A k \in 1..(Len(v) - 1) : v[Len(v) - k] = w[Len(w) + 1 - k]
    BY <1>1, <1>4, <2>3
  <2>5. QED
    BY <1>4, <2>1, <2>3, <2>4 DEF a, v
<1>5. QED
  BY <1>1, <1>3, <1>4

-----------------------------------------------------------------------------
LEMMA InitEstablishes == Init => IInv
  BY EmptySeq DEF Init, IInv, TypeOK, PolicyState, FreshPolicy, StreakInv, TargetInv,
     HoldDownIsQuiet, None

\* A tick outside hold-down: the streak and the window take up the same.
LEMMA TickExtends ==
    ASSUME IInv, policy.holdLeft = 0, phase = "idle", phase' = "decided",
           NEW c \in Iface \cup {None},
           window' = LastOf(Append(window, c), MinCycles),
           policy' = IF c = None THEN NoStreak(policy) ELSE Extended(policy, c),
           target' = IF c = None \/ policy'.count < MinCycles THEN None ELSE c
    PROVE  IInv'
<1>1. /\ window \in Seq(Iface \cup {None}) /\ Len(window) \in 0..MinCycles
      /\ policy \in PolicyState
  BY LenProperties DEF IInv, TypeOK
<1>2. /\ window' \in Seq(Iface \cup {None})
      /\ Len(window') = IF Len(window) < MinCycles THEN Len(window) + 1 ELSE MinCycles
      /\ window'[Len(window')] = c
      /\ \A k \in 1..(Len(window') - 1) : window'[Len(window') - k] = window[Len(window) + 1 - k]
  <2> DEFINE S == Iface \cup {None}
  <2>1. window \in Seq(S) /\ Len(window) <= MinCycles /\ c \in S
    BY <1>1
  <2> HIDE DEF S
  <2>2. LET v == LastOf(Append(window, c), MinCycles)
        IN  /\ v \in Seq(S)
            /\ Len(v) = IF Len(window) < MinCycles THEN Len(window) + 1 ELSE MinCycles
            /\ v[Len(v)] = c
            /\ \A k \in 1..(Len(v) - 1) : v[Len(v) - k] = window[Len(window) + 1 - k]
    BY <2>1, WindowGrows
  <2>3. QED
    BY <2>2 DEF S
<1>3. CASE c = None
  <2>1. policy' = [candidate |-> None, count |-> 0, holdLeft |-> 0]
    BY <1>3 DEF NoStreak
  <2>2. TypeOK' /\ TargetInv' /\ HoldDownIsQuiet'
    BY <1>1, <1>2, <1>3, <2>1 DEF TypeOK, PolicyState, TargetInv, HoldDownIsQuiet
  <2>3. StreakInv'
    BY <1>1, <1>2, <1>3, <2>1 DEF StreakInv
  <2>4. QED
    BY <2>2, <2>3 DEF IInv
<1>4. CASE c # None
  <2>1. /\ policy'.candidate = c /\ policy'.holdLeft = 0
        /\ policy'.count = IF policy.candidate # c THEN 1
                            ELSE IF policy.count < MinCycles THEN policy.count + 1 ELSE policy.count
        /\ policy' \in PolicyState
    BY <1>1, <1>4 DEF Extended, PolicyState, None, Iface
  <2>2. TypeOK' /\ HoldDownIsQuiet'
    BY <1>1, <1>2, <2>1 DEF TypeOK, HoldDownIsQuiet
  <2>3. TargetInv'
    BY <1>4, <2>1 DEF TargetInv, PolicyState
  <2> DEFINE n == Len(window)
             v == window'
             m == Len(window')
  <2>4. /\ n \in Nat /\ n <= MinCycles /\ policy.count \in 0..MinCycles /\ policy.count <= n
        /\ policy.candidate = None <=> policy.count = 0
        /\ \A k \in 1..policy.count : window[n + 1 - k] = policy.candidate
        /\ policy.count = 0 /\ n > 0 => window[n] = None
        /\ policy.count \in 1..(MinCycles - 1) /\ policy.count < n =>
               window[n - policy.count] # policy.candidate
    BY <1>1 DEF IInv, StreakInv, PolicyState
  <2>5. /\ m = IF n < MinCycles THEN n + 1 ELSE MinCycles
        /\ v[m] = c /\ \A k \in 1..(m - 1) : v[m - k] = window[n + 1 - k]
    BY <1>2
  <2> HIDE DEF n, v, m
  <2>6. CASE policy.candidate # c
    <3>1. policy'.count = 1
      BY <2>1, <2>6
    <3>2. \A k \in 1..policy'.count : v[m + 1 - k] = c
      BY <2>4, <2>5, <3>1
    <3>3. m > 1 => v[m - 1] = window[n] /\ n > 0
      BY <2>4, <2>5
    <3>4. m > 1 => v[m - 1] # c
      BY <1>4, <2>4, <2>6, <3>3
    <3>5. 1 <= m
      BY <2>4, <2>5
    <3>6. StreakInv'
      BY <1>4, <2>1, <3>1, <3>2, <3>4, <3>5 DEF StreakInv, n, v, m
    <3>7. QED
      BY <2>2, <2>3, <3>6 DEF IInv
  <2>7. CASE policy.candidate = c
    <3>1. policy'.count = IF policy.count < MinCycles THEN policy.count + 1 ELSE policy.count
      BY <2>1, <2>7
    <3>2. policy'.count <= m
      BY <2>4, <2>5, <3>1
    <3>3. ASSUME NEW k \in 1..policy'.count PROVE v[m + 1 - k] = c
      BY <2>4, <2>5, <2>7, <3>1, <3>2
    <3>4. ASSUME policy'.count \in 1..(MinCycles - 1), policy'.count < m
          PROVE  v[m - policy'.count] # c
      <4>1. policy'.count = policy.count + 1 /\ policy.count < n
        BY <2>4, <2>5, <3>1, <3>4
      <4>2. v[m - policy'.count] = window[n - policy.count]
        BY <2>4, <2>5, <3>4, <4>1
      <4>3. QED
        BY <1>4, <2>4, <2>7, <4>1, <4>2
    <3>5. policy'.count # 0
      BY <1>4, <2>4, <2>7, <3>1
    <3>6. StreakInv'
      BY <1>4, <2>1, <3>2, <3>3, <3>4, <3>5 DEF StreakInv, n, v, m
    <3>7. QED
      BY <2>2, <2>3, <3>6 DEF IInv
  <2>8. QED
    BY <2>2, <2>3, <2>6, <2>7 DEF IInv
<1>5. QED
  BY <1>3, <1>4

LEMMA TickKeeps ==
    ASSUME IInv, NEW active \in Iface \cup {None}, NEW cands \in CandidateMaps,
           Tick(active, cands)
    PROVE  IInv'
<1>1. PICK best \in Iface \cup {None} :
          /\ IsBest(best, active, cands)
          /\ policy' = Decide(policy, best, active, cands).policy
          /\ target' = Decide(policy, best, active, cands).target
  BY DEF Tick
<1>2. CASE policy.holdLeft > 0
  <2>1. policy' = policy /\ target' = None /\ window' = window
    BY <1>1, <1>2 DEF Decide, Tick
  <2>2. QED
    BY <1>2, <2>1 DEF IInv, TypeOK, StreakInv, TargetInv, HoldDownIsQuiet, Tick
<1>3. CASE policy.holdLeft = 0
  <2> DEFINE c == CalledFor(active, cands)
  <2>1. c = IF best # None /\ MeetsCondition(best, active, cands) THEN best ELSE None
    BY <1>1, ReferenceIsBest
  <2>2. /\ phase = "idle" /\ phase' = "decided"
        /\ window' = LastOf(Append(window, c), MinCycles)
    BY <1>3 DEF Tick
  <2> HIDE DEF c
  <2>3. policy' = IF c = None THEN NoStreak(policy) ELSE Extended(policy, c)
    BY <1>1, <1>3, <2>1 DEF Decide
  <2>4. target' = IF c = None \/ policy'.count < MinCycles THEN None ELSE c
    BY <1>1, <1>3, <2>1 DEF Decide
  <2>5. c \in Iface \cup {None}
    BY <2>1
  <2>6. QED
    BY <1>3, <2>2, <2>3, <2>4, <2>5, TickExtends
<1>4. QED
  BY <1>2, <1>3 DEF IInv, TypeOK, PolicyState

LEMMA SwitchedKeeps ==
    ASSUME IInv, NEW age \in 0..HoldDown, Switched(age)
    PROVE  IInv'
  BY EmptySeq DEF IInv, TypeOK, PolicyState, StreakInv, TargetInv, HoldDownIsQuiet, Switched,
     RecordSwitch

LEMMA NotSwitchedKeeps ==
    ASSUME IInv, NotSwitched
    PROVE  IInv'
  BY DEF IInv, TypeOK, StreakInv, TargetInv, HoldDownIsQuiet, NotSwitched

\* When hold-down ends no streak is left, and so no target appears.
LEMMA ElapseKeeps ==
    ASSUME IInv, Elapse
    PROVE  IInv'
<1>1. /\ policy' \in PolicyState
      /\ policy'.candidate = policy.candidate /\ policy'.count = policy.count
  BY DEF IInv, TypeOK, PolicyState, Elapse, Aged
<1>2. policy.count = 0 /\ policy.candidate = None /\ window = <<>> /\ target = None
  BY DEF IInv, TargetInv, HoldDownIsQuiet, Elapse
<1>3. QED
  BY <1>1, <1>2 DEF IInv, TypeOK, StreakInv, TargetInv, HoldDownIsQuiet, Elapse

LEMMA ResetKeeps ==
    ASSUME IInv, Reset
    PROVE  IInv'
  BY EmptySeq DEF IInv, TypeOK, PolicyState, FreshPolicy, StreakInv, TargetInv, HoldDownIsQuiet,
     Reset

LEMMA StepKeeps ==
    ASSUME IInv, [Next]_vars
    PROVE  IInv'
<1>1. CASE UNCHANGED vars
  BY <1>1 DEF vars, IInv, TypeOK, StreakInv, TargetInv, HoldDownIsQuiet
<1>2. QED
  BY <1>1, TickKeeps, SwitchedKeeps, NotSwitchedKeeps, ElapseKeeps, ResetKeeps DEF Next

\* A streak of MinCycles is a window that calls for one interface throughout.
LEMMA StreakIsWindow ==
    ASSUME IInv, phase = "decided", policy.holdLeft = 0, NEW i \in Iface
    PROVE  target = i <=> window = [k \in 1..MinCycles |-> i]
<1> DEFINE n == Len(window)
<1>1. /\ n \in 0..MinCycles /\ window \in Seq(Iface \cup {None})
      /\ policy.count \in 0..MinCycles /\ policy.count <= n
      /\ DOMAIN window = 1..n
  BY LenProperties DEF IInv, TypeOK, PolicyState, StreakInv
<1> HIDE DEF n
<1>2. ASSUME target = i PROVE window = [k \in 1..MinCycles |-> i]
  <2>1. policy.count = MinCycles /\ policy.candidate = i
    BY <1>2 DEF IInv, TargetInv, Iface, None
  <2>2. n = MinCycles
    BY <1>1, <2>1
  <2>3. ASSUME NEW k \in 1..MinCycles PROVE window[k] = i
    <3>1. MinCycles + 1 - k \in 1..policy.count
      BY <2>1
    <3>2. window[n + 1 - (MinCycles + 1 - k)] = i
      BY <2>1, <3>1 DEF IInv, StreakInv, n
    <3>3. QED
      BY <2>2, <3>2
  <2>4. QED
    BY <1>1, <2>2, <2>3
<1>3. ASSUME window = [k \in 1..MinCycles |-> i] PROVE target = i
  <2>1. n = MinCycles /\ \A k \in 1..n : window[k] = i
    <3>1. 1..n = 1..MinCycles
      BY <1>1, <1>3
    <3>2. MinCycles \in 1..n /\ (n >= 1 => n \in 1..MinCycles)
      BY <1>1, <3>1
    <3>3. QED
      BY <1>1, <1>3, <3>2
  <2>2. i # None
    BY DEF Iface, None
  <2>3. policy.count # 0
    BY <2>1, <2>2 DEF IInv, StreakInv, n
  <2>4. policy.candidate = i
    BY <1>1, <2>1, <2>3 DEF IInv, StreakInv, n
  <2>5. policy.count = MinCycles
    BY <1>1, <2>1, <2>3, <2>4 DEF IInv, StreakInv, n
  <2>6. QED
    BY <2>4, <2>5 DEF IInv, TargetInv
<1>4. QED
  BY <1>2, <1>3

-----------------------------------------------------------------------------
LEMMA Invariance == Spec => []IInv
  BY InitEstablishes, StepKeeps, PTL DEF Spec

\* Every variable keeps to its kind: the window never outgrows the streak.
THEOREM TypeCorrect == Spec => []TypeOK
<1>1. IInv => TypeOK
  BY DEF IInv
<1>2. QED
  BY <1>1, Invariance, PTL

\* decide() names an interface exactly when each of the last MinCycles ticks
\* since the last switch called for that one (steering/policy.py).
THEOREM AlwaysConfirmed == Spec => []SwitchIffConfirmed
<1>1. IInv => SwitchIffConfirmed
  BY StreakIsWindow DEF SwitchIffConfirmed
<1>2. QED
  BY <1>1, Invariance, PTL

\* During hold-down nothing is being confirmed (steering/policy.py).
THEOREM HoldDownAlwaysQuiet == Spec => []HoldDownIsQuiet
<1>1. IInv => HoldDownIsQuiet
  BY DEF IInv
<1>2. QED
  BY <1>1, Invariance, PTL
=============================================================================
