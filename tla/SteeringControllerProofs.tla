---------------------- MODULE SteeringControllerProofs ----------------------
(***************************************************************************)
(* Theorems about SteeringController, for any number of interfaces, any    *)
(* metrics, scores and thresholds, and every fault of FaultKind.           *)
(***************************************************************************)
EXTENDS SteeringController, FoldLemmas

-----------------------------------------------------------------------------
(* The decision engine. *)

LEMMA FreshPolicyType == FreshPolicy \in PolicyState
BY PolicyAssumption DEF FreshPolicy, PolicyState, None

LEMMA RecordSwitchType ==
    ASSUME NEW p \in PolicyState, NEW a \in 0..HoldDown
    PROVE  RecordSwitch(p, a) \in PolicyState
BY PolicyAssumption DEF RecordSwitch, PolicyState, None

LEMMA AgedType ==
    ASSUME NEW p \in PolicyState
    PROVE  Aged(p) \in PolicyState
BY PolicyAssumption DEF Aged, PolicyState

\* decide() keeps the policy's fields well formed and chooses the best
\* candidate or nothing.
LEMMA DecideType ==
    ASSUME NEW p \in PolicyState, NEW best \in Iface \cup {None},
           NEW act, NEW cands
    PROVE  LET d == Decide(p, best, act, cands)
           IN  /\ d.policy \in PolicyState
               /\ d.target \in Iface \cup {None}
               /\ d.target # None => d.target = best
<1>1. NoStreak(p) \in PolicyState
  BY PolicyAssumption DEF NoStreak, PolicyState, None
<1>2. Extended(p, best) \in PolicyState
  BY PolicyAssumption DEF Extended, PolicyState
<1>3. QED
  BY <1>1, <1>2 DEF Decide

LEMMA TargetMetricType ==
    ASSUME NEW least \in Int, NEW r \in Int
    PROVE  TargetMetric(least, r) \in Nat \ {0}
BY DEF TargetMetric

-----------------------------------------------------------------------------
(* Types. *)

LEMMA NoTickType ==
    ASSUME NoTick
    PROVE  /\ seen' \in [Iface -> LinkState] /\ active' \in Iface \cup {None}
           /\ selected' \in SUBSET Iface /\ target' \in Iface \cup {None}
           /\ original' \in Setting /\ plan' \in Nat
           /\ age' \in 0..HoldDown /\ moves' \in 0..MaxMoves
BY PolicyAssumption, ControllerAssumption DEF NoTick, LinkState, Setting, None, Automatic

LEMMA WrittenType ==
    ASSUME setting \in [Iface -> Setting], NEW i \in Iface, NEW v \in Setting, NEW o
    PROVE  Written(i, v, o) \in [Iface -> Setting]
BY DEF Written

LEMMA PreferredReadsType == PreferredReads \subseteq Iface \cup {None}
BY DEF PreferredReads, Preferred, Cheapest, Routed

LEMMA SightingsType ==
    ASSUME link \in [Iface -> LinkState]
    PROVE  Sightings \subseteq [Iface -> LinkState]
BY DEF Sightings, LinkState

LEMMA InterfaceMetricType ==
    ASSUME TypeOK, NEW i \in Iface
    PROVE  InterfaceMetric(i) \in Nat
BY DEF TypeOK, InterfaceMetric, Setting, Automatic

\* A switch is under way.
Switching == {"recheck", "failback", "read", "plan", "apply", "verify", "rollback"}

\* TypeOK is inductive once it is known that a switch has a target.
TypeInv == TypeOK /\ (pc \in Switching => target \in Iface)

LEMMA InitType == Init => TypeInv
<1> SUFFICES ASSUME Init PROVE TypeInv
  OBVIOUS
<1>1. auto \in [Iface -> Nat]
  BY ControllerAssumption DEF Init
<1>2. link \in [Iface -> LinkState]
  BY DEF Init
<1>3. /\ setting \in [Iface -> Setting]
      /\ saved \in [Iface -> Setting \cup {Unsaved}]
  BY ControllerAssumption DEF Init, Nothing
<1>4. policy \in PolicyState
  BY FreshPolicyType DEF Init
<1>5. /\ seen \in [Iface -> LinkState] /\ original \in Setting
      /\ age \in 0..HoldDown /\ moves \in 0..MaxMoves
  BY PolicyAssumption, ControllerAssumption DEF Init, LinkState, Setting, Automatic
<1>6. QED
  BY <1>1, <1>2, <1>3, <1>4, <1>5 DEF Init, TypeOK, TypeInv, Step, Switching

LEMMA NextType == TypeInv /\ [Next]_vars => TypeInv'
<1> SUFFICES ASSUME TypeInv, [Next]_vars PROVE TypeInv'
  OBVIOUS
<1>0. TypeOK
  BY DEF TypeInv
<1> USE DEF osVars, ctlVars, statusVars, readVars, switchVars
<1>1. CASE Observe
  <2>1. seen' \in [Iface -> LinkState]
    BY <1>0, <1>1, SightingsType DEF Observe, TypeOK
  <2>2. QED
    BY <1>1, <2>1, PreferredReadsType, ControllerAssumption
       DEF Observe, TypeInv, TypeOK, Step, Switching
<1>2. CASE Guarded
  BY <1>2, NoTickType DEF Guarded, Finish, TypeInv, TypeOK, Step, Switching
<1>3. CASE DecideStep
  <2>1. PICK health \in HealthMaps, unread \in Unread, best \in Iface \cup {None} :
          Decision(Decide(policy, best, active, CandidatesOf(health, unread)))
    BY <1>3 DEF DecideStep
  <2> DEFINE d == Decide(policy, best, active, CandidatesOf(health, unread))
  <2>2. d.policy \in PolicyState /\ d.target \in Iface \cup {None}
    BY <1>0, DecideType DEF TypeOK
  <2>3. PhaseOf(d) \in {"hold_down", "switching", "confirming", "stable"}
    BY DEF PhaseOf
  <2> HIDE DEF d
  <2>4. QED
    BY <1>3, <2>1, <2>2, <2>3, NoTickType
       DEF d, DecideStep, Decision, Finish, TypeInv, TypeOK, Step, Switching
<1>4. CASE Recheck
  BY <1>4, NoTickType DEF Recheck, Abort, Finish, TypeInv, TypeOK, Step, Switching
<1>5. CASE Failback
  <2>1. PICK j \in Others : \E o \in Outcomes("restore", j) : FailbackOf(j, o)
    BY <1>5 DEF Failback
  <2>2. j \in Iface /\ saved[j] \in Setting
    BY <1>0 DEF Others, SavedSet, TypeOK
  <2>3. setting' \in [Iface -> Setting]
    BY <1>0, <2>1, <2>2, WrittenType DEF FailbackOf, TypeOK
  <2>4. QED
    BY <1>5, <2>1, <2>2, <2>3, NoTickType
       DEF Failback, FailbackOf, Abort, Finish, TypeInv, TypeOK, Step, Switching
<1>6. CASE ReadOriginal
  <2>1. target \in Iface /\ setting[target] \in Setting
    BY <1>6 DEF ReadOriginal, TypeInv, TypeOK, Switching
  <2>2. QED
    BY <1>6, <2>1, NoTickType
       DEF ReadOriginal, Abort, Finish, TypeInv, TypeOK, Step, Switching
<1>7. CASE Plan
  <2>1. target \in Iface /\ RouteMetric[target] \in Nat
    BY <1>7, ControllerAssumption DEF Plan, TypeInv, Switching
  <2>2. \A i \in Competitors : InterfaceMetric(i) \in Nat /\ RouteMetric[i] \in Nat
    BY <1>0, InterfaceMetricType, ControllerAssumption DEF Competitors, Routed
  <2>3. PICK routes \in Readable, metrics \in Readable, own \in Readable :
          LET others == {RouteMetric[i] + (IF metrics THEN InterfaceMetric(i) ELSE 0) :
                             i \in IF routes THEN Competitors ELSE {}}
              mine   == IF own /\ link[target] = "routed" THEN RouteMetric[target] ELSE 0
          IN  \/ others = {} /\ plan' = FallbackMetric
              \/ \E least \in others :
                    IsLeast(least, others) /\ plan' = TargetMetric(least, mine)
    BY <1>7 DEF Plan
  <2> DEFINE others == {RouteMetric[i] + (IF metrics THEN InterfaceMetric(i) ELSE 0) :
                            i \in IF routes THEN Competitors ELSE {}}
             mine   == IF own /\ link[target] = "routed" THEN RouteMetric[target] ELSE 0
  <2>4. others \subseteq Int
    BY <2>2
  <2>5. mine \in Int
    BY <2>1
  <2>6. plan' = FallbackMetric \/ \E least \in others : plan' = TargetMetric(least, mine)
    BY <2>3
  <2> HIDE DEF others, mine
  <2>7. plan' \in Nat
    <3>1. CASE plan' = FallbackMetric
      BY <3>1 DEF FallbackMetric
    <3>2. ASSUME NEW least \in others, plan' = TargetMetric(least, mine)
          PROVE  plan' \in Nat
      <4>1. least \in Int
        BY <2>4
      <4>2. TargetMetric(least, mine) \in Nat \ {0}
        BY <4>1, <2>5, TargetMetricType
      <4>3. QED
        BY <3>2, <4>2
    <3>3. QED
      BY <2>6, <3>1, <3>2
  <2>8. QED
    BY <1>7, <2>1, <2>7 DEF Plan, TypeInv, TypeOK, Step, Switching
<1>8. CASE Apply
  <2>1. target \in Iface /\ plan \in Setting
    BY <1>8 DEF Apply, TypeInv, TypeOK, Switching, Setting
  <2>2. setting' \in [Iface -> Setting]
    BY <1>0, <1>8, <2>1, WrittenType DEF Apply, TypeOK
  <2>3. QED
    BY <1>8, <2>1, <2>2, NoTickType
       DEF Apply, Abort, Finish, TypeInv, TypeOK, Step, Switching
<1>9. CASE Verify
  BY <1>9, NoTickType, RecordSwitchType
     DEF Verify, Finish, TypeInv, TypeOK, Step, Switching
<1>10. CASE Rollback
  <2>1. PICK o \in Outcomes("restore", target) :
          /\ setting' = Written(target, original, o)
          /\ saved' = [saved EXCEPT ![target] = Unsaved]
          /\ restored' = o.ok
          /\ lost' = IF setting'[target] = original THEN lost ELSE lost \cup {target}
    BY <1>10 DEF Rollback
  <2>2. target \in Iface /\ original \in Setting
    BY <1>10 DEF Rollback, TypeInv, TypeOK, Switching
  <2>3. setting' \in [Iface -> Setting]
    BY <1>0, <2>1, <2>2, WrittenType DEF TypeOK
  <2>4. restored' \in BOOLEAN
    BY <2>1 DEF Outcomes, Outcome
  <2>5. QED
    BY <1>10, <2>1, <2>2, <2>3, <2>4, NoTickType
       DEF Rollback, Abort, Finish, TypeInv, TypeOK, Step, Switching
<1>11. CASE Enable
  BY <1>11, FreshPolicyType DEF Enable, TypeInv, TypeOK, Step, Switching
<1>12. CASE Disable /\ pc' \in {"idle", "stopped"}
  BY <1>12, FreshPolicyType DEF Disable, RestoreAll, SavedSet, TypeInv, TypeOK, Step, Switching
<1>13. CASE Stop
  BY <1>12, <1>13 DEF Stop, TypeInv, TypeOK, Step, Switching
<1>14. CASE Start
  BY <1>14, NoTickType, FreshPolicyType
     DEF Start, Constructed, Nothing, SavedSet, TypeInv, TypeOK, Step, Switching
<1>15. CASE Crash
  BY <1>15, NoTickType, FreshPolicyType
     DEF Crash, Constructed, Nothing, SavedSet, TypeInv, TypeOK, Step, Switching, Setting
<1>16. CASE Elapse
  BY <1>16, AgedType, PolicyAssumption DEF Elapse, TypeInv, TypeOK
<1>17. ASSUME NEW i \in Iface, LinkChange(i) PROVE TypeInv'
  <2>1. moves' \in 0..MaxMoves
    BY <1>0, <1>17, ControllerAssumption DEF LinkChange, Moving, TypeOK
  <2>2. link' \in [Iface -> LinkState]
    <3>1. Links[i] \subseteq LinkState
      BY ControllerAssumption
    <3>2. PICK state \in LinkState : link' = [link EXCEPT ![i] = state]
      BY <1>17, <3>1 DEF LinkChange
    <3>3. QED
      BY <1>0, <3>2 DEF TypeOK
  <2>3. QED
    BY <1>17, <2>1, <2>2 DEF LinkChange, TypeInv, TypeOK
<1>18. ASSUME NEW i \in Iface, Remetric(i) PROVE TypeInv'
  <2>1. moves' \in 0..MaxMoves
    BY <1>0, <1>18, ControllerAssumption DEF Remetric, Moving, TypeOK
  <2>2. auto' \in [Iface -> Nat]
    <3>1. AutoMetrics[i] \subseteq Nat
      BY ControllerAssumption
    <3>2. PICK m \in Nat : auto' = [auto EXCEPT ![i] = m]
      BY <1>18, <3>1 DEF Remetric
    <3>3. QED
      BY <1>0, <3>2 DEF TypeOK
  <2>3. QED
    BY <1>18, <2>1, <2>2 DEF Remetric, TypeInv, TypeOK
<1>19. CASE UNCHANGED vars
  BY <1>19 DEF vars, TypeInv, TypeOK
<1>20. QED
  BY <1>1, <1>2, <1>3, <1>4, <1>5, <1>6, <1>7, <1>8, <1>9, <1>10, <1>11, <1>12,
     <1>13, <1>14, <1>15, <1>16, <1>17, <1>18, <1>19
     DEF Next, TickStep, DisableRequest

\* Every variable always holds a value of its kind.
THEOREM TypeCorrect == Spec => []TypeOK
<1>1. Spec => []TypeInv
  BY InitType, NextType, PTL DEF Spec
<1>2. TypeInv => TypeOK
  BY DEF TypeInv
<1>3. QED
  BY <1>1, <1>2, PTL

(***************************************************************************)
(* What is kept on record: at most one setting, and the right one.         *)
(***************************************************************************)

-----------------------------------------------------------------------------
(* At most one interface is on record. *)

\* From the moment the failback is done until the tick ends, nothing but the
\* target is on record.
Alone == {"read", "plan", "apply", "verify", "rollback"}

HeldInv == AtMostOneSaved /\ (pc \in Alone => SavedSet \subseteq {target})

LEMMA InitHeld == Init => HeldInv
BY DEF Init, HeldInv, AtMostOneSaved, SavedSet, Nothing, Alone

LEMMA NextHeld == TypeInv /\ HeldInv /\ [Next]_vars => HeldInv'
<1> SUFFICES ASSUME TypeInv, HeldInv, [Next]_vars PROVE HeldInv'
  OBVIOUS
<1>0. TypeOK
  BY DEF TypeInv
<1> USE DEF osVars, ctlVars, statusVars, readVars, switchVars
<1>1. ASSUME UNCHANGED saved, pc' \notin Alone \/ (pc \in Alone /\ target' = target)
      PROVE  HeldInv'
  BY <1>1 DEF HeldInv, AtMostOneSaved, SavedSet
<1>2. ASSUME saved' = Nothing PROVE HeldInv'
  BY <1>2 DEF HeldInv, AtMostOneSaved, SavedSet, Nothing
<1>3. CASE Observe \/ Guarded
  BY <1>1, <1>3 DEF Observe, Guarded, Finish, Alone
<1>4. CASE DecideStep
  BY <1>1, <1>4 DEF DecideStep, Decision, Finish, Alone
<1>5. CASE Recheck
  <2>1. CASE pc' = "read" /\ Others = {} /\ saved' = saved /\ target' = target
    BY <2>1 DEF HeldInv, AtMostOneSaved, SavedSet, Others, Alone
  <2>2. QED
    BY <1>1, <1>5, <2>1 DEF Recheck, Abort, Finish, Alone
<1>6. CASE Failback
  <2>1. PICK j \in Others : \E o \in Outcomes("restore", j) : FailbackOf(j, o)
    BY <1>6 DEF Failback
  <2>2. CASE UNCHANGED saved /\ pc' = "idle"
    BY <1>1, <2>2 DEF Alone
  <2>3. CASE /\ saved' = [saved EXCEPT ![j] = Unsaved] /\ target' = target
             /\ pc' = IF Others = {j} THEN "read" ELSE "failback"
    <3>1. SavedSet' = SavedSet \ {j}
      BY <1>0, <2>3 DEF SavedSet, TypeOK
    <3>2. SavedSet = {j}
      BY <2>1 DEF HeldInv, AtMostOneSaved, Others
    <3>3. QED
      BY <2>3, <3>1, <3>2 DEF HeldInv, AtMostOneSaved
  <2>4. QED
    BY <2>1, <2>2, <2>3 DEF FailbackOf, Abort, Finish
<1>7. CASE ReadOriginal \/ Plan \/ Verify
  <2>1. pc \in Alone /\ UNCHANGED saved
    BY <1>7 DEF ReadOriginal, Plan, Verify, Alone
  <2>2. pc' = "idle" \/ target' = target
    BY <1>7 DEF ReadOriginal, Plan, Verify, Abort, Finish
  <2>3. QED
    BY <1>1, <2>1, <2>2 DEF Alone
<1>8. CASE Apply
  <2>1. target \in Iface /\ SavedSet \subseteq {target}
    BY <1>8 DEF Apply, TypeInv, Switching, HeldInv, Alone
  <2>2. CASE UNCHANGED saved /\ pc' = "idle"
    BY <1>1, <2>2 DEF Alone
  <2>3. CASE saved' = [saved EXCEPT ![target] = original] /\ target' = target
    <3>1. SavedSet' \subseteq {target}
      BY <1>0, <2>1, <2>3 DEF SavedSet, TypeOK
    <3>2. QED
      BY <2>3, <3>1 DEF HeldInv, AtMostOneSaved
  <2>4. QED
    BY <1>8, <2>2, <2>3 DEF Apply, Abort, Finish
<1>9. CASE Rollback
  <2>1. /\ target \in Iface /\ SavedSet \subseteq {target}
        /\ saved' = [saved EXCEPT ![target] = Unsaved]
    BY <1>9 DEF Rollback, TypeInv, Switching, HeldInv, Alone
  <2>2. SavedSet' = {}
    BY <1>0, <2>1 DEF SavedSet, TypeOK
  <2>3. QED
    BY <2>2 DEF HeldInv, AtMostOneSaved
<1>10. CASE Enable
  BY <1>1, <1>10 DEF Enable, Alone
<1>11. ASSUME Disable, pc' \in {"idle", "stopped"} PROVE HeldInv'
  <2>1. SavedSet' \subseteq SavedSet
    BY <1>0, <1>11 DEF Disable, RestoreAll, SavedSet, TypeOK
  <2>2. QED
    BY <1>11, <2>1 DEF HeldInv, AtMostOneSaved, Alone
<1>12. CASE Stop
  BY <1>1, <1>11, <1>12 DEF Stop, Alone
<1>13. CASE Start \/ Crash
  BY <1>2, <1>13 DEF Start, Crash, Constructed
<1>14. CASE Elapse \/ \E i \in Iface : LinkChange(i) \/ Remetric(i)
  BY <1>1, <1>14 DEF Elapse, LinkChange, Remetric
<1>15. CASE UNCHANGED vars
  BY <1>1, <1>15 DEF vars
<1>16. QED
  BY <1>3, <1>4, <1>5, <1>6, <1>7, <1>8, <1>9, <1>10, <1>11, <1>12, <1>13, <1>14, <1>15
     DEF Next, TickStep, DisableRequest

\* The previous target is restored before the next one is touched, whatever
\* fails on the way: _saved_settings never holds two entries.
THEOREM OneSavedAtMost == Spec => []AtMostOneSaved
<1>1. Spec => []TypeInv
  BY InitType, NextType, PTL DEF Spec
<1>2. Spec => []HeldInv
  BY <1>1, InitHeld, NextHeld, PTL DEF Spec
<1>3. HeldInv => AtMostOneSaved
  BY DEF HeldInv
<1>4. QED
  BY <1>2, <1>3, PTL
-----------------------------------------------------------------------------
(* What is on record is right. *)

\* The locals of a switch agree with the record: what was read as the
\* original is the user's unless the target is already recorded or lost, and
\* once the target is pinned, the original is what is on record.
LocalsAgree ==
    /\ pc \in {"plan", "apply"} /\ target \notin lost /\ saved[target] = Unsaved
         => original = Original[target]
    /\ pc \in {"verify", "rollback"} => saved[target] = original

LedgerInv == LedgerIsRight /\ LocalsAgree

LEMMA UnsavedIsNoSetting == Unsaved \notin Setting
BY DEF Unsaved, Setting, Automatic

LEMMA InitLedger == Init => LedgerInv
BY DEF Init, LedgerInv, LedgerIsRight, LocalsAgree, Nothing

LEMMA NextLedger == TypeInv /\ LedgerInv /\ [Next]_vars => LedgerInv'
<1> SUFFICES ASSUME TypeInv, LedgerInv, [Next]_vars PROVE LedgerInv'
  OBVIOUS
<1>0. TypeOK /\ LedgerIsRight /\ LocalsAgree
  BY DEF TypeInv, LedgerInv
<1> USE DEF osVars, ctlVars, statusVars, readVars, switchVars
<1>1. ASSUME UNCHANGED <<setting, saved, lost>>,
             \/ pc' \notin {"plan", "apply", "verify", "rollback"}
             \/ UNCHANGED <<pc, target, original>>
      PROVE  LedgerInv'
  BY <1>0, <1>1 DEF LedgerInv, LedgerIsRight, LocalsAgree
<1>2. CASE Observe \/ Guarded
  BY <1>1, <1>2 DEF Observe, Guarded, Finish
<1>3. CASE DecideStep
  BY <1>1, <1>3 DEF DecideStep, Decision, Finish
<1>4. CASE Recheck
  BY <1>1, <1>4 DEF Recheck, Abort, Finish
<1>5. CASE Failback
  <2>1. PICK j \in Others : \E o \in Outcomes("restore", j) : FailbackOf(j, o)
    BY <1>5 DEF Failback
  <2>2. PICK o \in Outcomes("restore", j) : FailbackOf(j, o)
    BY <2>1
  <2>3. /\ j \in Iface /\ saved[j] # Unsaved
        /\ lost' = lost /\ pc' \in {"idle", "read", "failback"}
        /\ setting' = [setting EXCEPT ![j] = saved[j]] \/ (setting' = setting /\ ~o.ok)
        /\ saved' = [saved EXCEPT ![j] = Unsaved] \/ saved' = saved
        /\ o.ok \/ saved' = saved
    BY <1>5, <2>2 DEF Failback, FailbackOf, Outcomes, Written, Others, SavedSet, Abort, Finish
  <2>4. QED
    BY <1>0, <2>3 DEF TypeOK, LedgerInv, LedgerIsRight, LocalsAgree
<1>6. CASE ReadOriginal
  <2>1. CASE pc' = "idle"
    BY <1>1, <1>6, <2>1 DEF ReadOriginal, Abort, Finish
  <2>2. CASE pc' = "plan" /\ original' = setting[target]
    <3>1. target \in Iface
      BY <1>6 DEF ReadOriginal, TypeInv, Switching
    <3>2. UNCHANGED <<setting, saved, lost, target>>
      BY <1>6, <2>2 DEF ReadOriginal, Abort, Finish
    <3>3. QED
      BY <1>0, <2>2, <3>1, <3>2 DEF LedgerInv, LedgerIsRight, LocalsAgree
  <2>3. QED
    BY <1>6, <2>1, <2>2 DEF ReadOriginal, Abort, Finish
<1>7. CASE Plan
  BY <1>0, <1>7 DEF Plan, LedgerInv, LedgerIsRight, LocalsAgree
<1>8. CASE Apply
  <2>1. PICK o \in Outcomes("apply", target) :
          /\ setting' = Written(target, plan, o)
          /\ \/ /\ o.ok
                /\ saved' = [saved EXCEPT ![target] = original]
                /\ lost' = IF saved[target] \in {Unsaved, original}
                           THEN lost ELSE lost \cup {target}
                /\ pc' = "verify"
                /\ UNCHANGED switchVars
             \/ /\ ~o.ok
                /\ lost' = IF o.done /\ saved[target] = Unsaved /\ plan # original
                           THEN lost \cup {target} ELSE lost
                /\ pc' = "idle" /\ UNCHANGED saved
    BY <1>8 DEF Apply, Abort, Finish
  <2>2. /\ target \in Iface
        /\ target \notin lost /\ saved[target] = Unsaved => original = Original[target]
        /\ original \in Setting
    BY <1>0, <1>8 DEF Apply, TypeInv, TypeOK, Switching, LocalsAgree
  <2>3. CASE o.ok
    <3>1. LocalsAgree'
      BY <1>0, <2>1, <2>2, <2>3 DEF LocalsAgree, TypeOK
    <3>2. \A i \in Iface \ {target} :
            setting'[i] = setting[i] /\ saved'[i] = saved[i] /\ (i \in lost' <=> i \in lost)
      BY <1>0, <2>1, <2>2, <2>3 DEF Written, TypeOK
    <3>3. saved'[target] = original /\ original # Unsaved
      BY <1>0, <2>1, <2>2, <2>3, UnsavedIsNoSetting DEF TypeOK
    <3>4. target \notin lost' => original = Original[target]
      BY <1>0, <2>1, <2>2, <2>3, <3>3 DEF LedgerIsRight
    <3>5. QED
      BY <1>0, <3>1, <3>2, <3>3, <3>4 DEF LedgerInv, LedgerIsRight
  <2>4. CASE ~o.ok
    <3>1. LocalsAgree'
      BY <2>1, <2>4 DEF LocalsAgree
    <3>2. \A i \in Iface \ {target} :
            setting'[i] = setting[i] /\ saved'[i] = saved[i] /\ (i \in lost' <=> i \in lost)
      BY <1>0, <2>1, <2>2, <2>4 DEF Written, TypeOK
    <3>3. target \notin lost' /\ saved[target] = Unsaved => setting'[target] = Original[target]
      BY <1>0, <2>1, <2>2, <2>4 DEF Written, TypeOK, LedgerIsRight
    <3>4. target \notin lost' => target \notin lost
      BY <2>1, <2>4
    <3>5. QED
      BY <1>0, <2>1, <2>4, <3>1, <3>2, <3>3, <3>4 DEF LedgerInv, LedgerIsRight
  <2>5. QED
    BY <2>3, <2>4
<1>9. CASE Verify
  <2>1. UNCHANGED <<setting, saved, lost>>
    BY <1>9 DEF Verify
  <2>2. pc' = "idle" \/ (pc' = "rollback" /\ pc = "verify" /\ UNCHANGED <<target, original>>)
    BY <1>9 DEF Verify, Finish
  <2>3. QED
    BY <1>0, <2>1, <2>2 DEF LedgerInv, LedgerIsRight, LocalsAgree
<1>10. CASE Rollback
  <2>1. PICK o \in Outcomes("restore", target) :
          /\ setting' = Written(target, original, o)
          /\ saved' = [saved EXCEPT ![target] = Unsaved]
          /\ lost' = IF setting'[target] = original THEN lost ELSE lost \cup {target}
          /\ pc' = "idle"
    BY <1>10 DEF Rollback, Abort, Finish
  <2>2. /\ target \in Iface /\ saved[target] = original
        /\ original # Unsaved
    BY <1>0, <1>10, UnsavedIsNoSetting
       DEF Rollback, TypeInv, TypeOK, Switching, LocalsAgree
  <2>3. \A i \in Iface \ {target} :
            setting'[i] = setting[i] /\ saved'[i] = saved[i] /\ (i \in lost' <=> i \in lost)
    BY <1>0, <2>1, <2>2 DEF Written, TypeOK
  <2>4. target \notin lost' => setting'[target] = Original[target]
    BY <1>0, <2>1, <2>2 DEF LedgerIsRight
  <2>5. saved'[target] = Unsaved
    BY <1>0, <2>1, <2>2 DEF TypeOK
  <2>6. QED
    BY <1>0, <2>1, <2>3, <2>4, <2>5 DEF LedgerInv, LedgerIsRight, LocalsAgree
<1>11. CASE Enable
  BY <1>1, <1>11 DEF Enable
<1>12. ASSUME Disable, pc' \in {"idle", "stopped"} PROVE LedgerInv'
  <2>1. PICK out \in [SavedSet -> Outcome] : RestoreAll(out)
    BY <1>12 DEF Disable
  <2>2. \A i \in SavedSet : out[i].ok => out[i].done
    BY <2>1 DEF RestoreAll, Outcomes
  <2>3. lost' = lost
    BY <1>12 DEF Disable
  <2>4. ASSUME NEW i \in Iface \ lost
        PROVE  IF saved'[i] = Unsaved THEN setting'[i] = Original[i]
               ELSE saved'[i] = Original[i]
    BY <1>0, <2>1, <2>2 DEF RestoreAll, SavedSet, LedgerIsRight, TypeOK
  <2>5. QED
    BY <1>12, <2>3, <2>4 DEF LedgerInv, LedgerIsRight, LocalsAgree
<1>13. CASE Stop
  BY <1>1, <1>12, <1>13 DEF Stop
<1>14. CASE Start \/ Crash
  <2>1. /\ UNCHANGED setting /\ saved' = Nothing /\ pc' = "idle"
        /\ lost' = lost \cup {i \in SavedSet : setting[i] # saved[i]}
    BY <1>14 DEF Start, Crash, Constructed
  <2>2. QED
    BY <1>0, <2>1 DEF LedgerInv, LedgerIsRight, LocalsAgree, Nothing, SavedSet
<1>15. CASE Elapse \/ \E i \in Iface : LinkChange(i) \/ Remetric(i)
  BY <1>1, <1>15 DEF Elapse, LinkChange, Remetric
<1>16. CASE UNCHANGED vars
  BY <1>1, <1>16 DEF vars
<1>17. QED
  BY <1>2, <1>3, <1>4, <1>5, <1>6, <1>7, <1>8, <1>9, <1>10, <1>11, <1>12, <1>13, <1>14,
     <1>15, <1>16 DEF Next, TickStep, DisableRequest

\* An interface not on record has the user's setting and an interface on
\* record has the user's setting on record, except after a failed rollback, a
\* pin over an older record, a pin wrongly reported failed, or a process that
\* ended with a record.
THEOREM LedgerAlwaysRight == Spec => []LedgerIsRight
<1>1. Spec => []TypeInv
  BY InitType, NextType, PTL DEF Spec
<1>2. Spec => []LedgerInv
  BY <1>1, InitLedger, NextLedger, PTL DEF Spec
<1>3. LedgerInv => LedgerIsRight
  BY DEF LedgerInv
<1>4. QED
  BY <1>2, <1>3, PTL

(***************************************************************************)
(* What may be touched, what the status says, and that the controller      *)
(* implements the abstract SteeringSession.                                *)
(***************************************************************************)

-----------------------------------------------------------------------------
(* Only physical interfaces, and only with elevation. *)

\* A tick runs only in an enabled session, a session is enabled only with
\* elevation, and the target of a switch is physical.
ReachInv ==
    /\ OnlyPhysicalTouched
    /\ enabled => elevated
    /\ pc \notin {"idle", "stopped"} => enabled
    /\ pc \in Switching => target \in Physical

LEMMA InitReach == Init => ReachInv
BY DEF Init, ReachInv, OnlyPhysicalTouched, Nothing, Switching

LEMMA NextReach == TypeInv /\ ReachInv /\ [Next]_vars => ReachInv'
<1> SUFFICES ASSUME TypeInv, ReachInv, [Next]_vars PROVE ReachInv'
  OBVIOUS
<1>0. TypeOK /\ OnlyPhysicalTouched
  BY DEF TypeInv, ReachInv
<1> USE DEF osVars, ctlVars, statusVars, readVars, switchVars
<1>1. ASSUME UNCHANGED <<setting, saved, elevated, enabled>>,
             pc' \notin {"idle", "stopped"} => enabled,
             \/ pc' \notin Switching
             \/ pc \in Switching /\ UNCHANGED target
      PROVE  ReachInv'
  BY <1>0, <1>1 DEF ReachInv, OnlyPhysicalTouched
\* A step of a switch writes nothing but the target or a recorded interface.
<1>2. ASSUME pc \in Switching, UNCHANGED <<elevated, enabled>>,
             pc' \notin Switching \/ UNCHANGED target,
             \A i \in Iface : i \notin Physical =>
                 setting'[i] = setting[i] /\ (saved'[i] = saved[i] \/ saved'[i] = Unsaved)
      PROVE  ReachInv'
  BY <1>0, <1>2 DEF ReachInv, OnlyPhysicalTouched, Switching
<1>3. CASE Observe \/ Guarded
  BY <1>1, <1>3 DEF Observe, Guarded, Finish, Switching
<1>4. CASE DecideStep
  <2>1. PICK health \in HealthMaps, unread \in Unread, best \in Iface \cup {None} :
          /\ IsBest(best, active, CandidatesOf(health, unread))
          /\ Decision(Decide(policy, best, active, CandidatesOf(health, unread)))
    BY <1>4 DEF DecideStep
  <2> DEFINE cands == CandidatesOf(health, unread)
             d     == Decide(policy, best, active, cands)
  <2>2. best # None => best \in Physical
    <3>1. best # None => best \in Eligible(active, cands)
      BY <2>1 DEF IsBest
    <3>2. \A i \in Eligible(active, cands) : i \in DOMAIN cands /\ cands[i].eligible
      BY DEF Eligible
    <3>3. \A i \in DOMAIN cands : cands[i].eligible => i \in Physical
      BY DEF CandidatesOf
    <3>4. QED
      BY <3>1, <3>2, <3>3
  <2>3. d.target # None => d.target = best
    BY <1>0, DecideType DEF TypeOK
  <2>4. Decision(d)
    BY <2>1
  <2>5. UNCHANGED <<setting, saved, elevated, enabled>> /\ pc = "decide"
    BY <1>4 DEF DecideStep
  <2> HIDE DEF d, cands
  <2>6. CASE d.target = None
    BY <1>1, <2>4, <2>5, <2>6 DEF Decision, Finish, Switching
  <2>7. CASE d.target # None
    BY <1>0, <2>2, <2>3, <2>4, <2>5, <2>7 DEF Decision, ReachInv, OnlyPhysicalTouched
  <2>8. QED
    BY <2>6, <2>7
<1>5. CASE Recheck
  BY <1>1, <1>5 DEF Recheck, Abort, Finish, Switching, ReachInv
<1>6. CASE Failback
  <2>1. PICK j \in Others : \E o \in Outcomes("restore", j) : FailbackOf(j, o)
    BY <1>6 DEF Failback
  <2>2. PICK o \in Outcomes("restore", j) : FailbackOf(j, o)
    BY <2>1
  <2>3. j \in Physical
    BY <1>0 DEF Others, SavedSet, OnlyPhysicalTouched
  <2>4. \A i \in Iface \ {j} : setting'[i] = setting[i] /\ saved'[i] = saved[i]
    BY <1>0, <2>2 DEF FailbackOf, Written, TypeOK
  <2>5. /\ pc \in Switching /\ UNCHANGED <<elevated, enabled>>
        /\ pc' \notin Switching \/ UNCHANGED target
    BY <1>6, <2>2 DEF Failback, FailbackOf, Abort, Finish, Switching
  <2>6. QED
    BY <1>2, <2>3, <2>4, <2>5
<1>7. CASE ReadOriginal \/ Plan \/ Verify
  <2>1. /\ UNCHANGED <<setting, saved, elevated, enabled>>
        /\ pc \in Switching
        /\ pc' \notin Switching \/ UNCHANGED target
    BY <1>7 DEF ReadOriginal, Plan, Verify, Abort, Finish, Switching
  <2>2. pc \in Switching
    BY <1>7 DEF ReadOriginal, Plan, Verify, Switching
  <2>3. enabled
    BY <2>2 DEF ReachInv, Switching
  <2>4. QED
    BY <1>1, <2>1, <2>2, <2>3
<1>8. CASE Apply \/ Rollback
  <2>1. target \in Physical /\ pc \in Switching
    BY <1>8 DEF Apply, Rollback, ReachInv, Switching
  <2>2. \A i \in Iface \ {target} : setting'[i] = setting[i] /\ saved'[i] = saved[i]
    BY <1>0, <1>8 DEF Apply, Rollback, Abort, Finish, Written, TypeOK
  <2>3. /\ UNCHANGED <<elevated, enabled>>
        /\ pc' \notin Switching \/ UNCHANGED target
    BY <1>8 DEF Apply, Rollback, Abort, Finish, Switching
  <2>4. QED
    BY <1>2, <2>1, <2>2, <2>3
<1>9. CASE Enable
  BY <1>0, <1>9 DEF Enable, ReachInv, OnlyPhysicalTouched, Switching
<1>10. ASSUME Disable, pc' \in {"idle", "stopped"} PROVE ReachInv'
  <2>1. PICK out \in [SavedSet -> Outcome] : RestoreAll(out)
    BY <1>10 DEF Disable
  <2>2. \A i \in Iface : saved[i] = Unsaved => setting'[i] = setting[i] /\ saved'[i] = Unsaved
    BY <1>0, <2>1 DEF RestoreAll, SavedSet, TypeOK
  <2>3. UNCHANGED elevated /\ ~enabled'
    BY <1>10 DEF Disable
  <2>4. OnlyPhysicalTouched'
    BY <1>0, <2>2, <2>3 DEF OnlyPhysicalTouched
  <2>5. QED
    BY <1>10, <2>3, <2>4 DEF ReachInv, Switching
<1>11. CASE Stop
  BY <1>1, <1>10, <1>11 DEF Stop, Switching
<1>12. CASE Start \/ Crash
  BY <1>0, <1>12 DEF Start, Crash, Constructed, Nothing, ReachInv, OnlyPhysicalTouched, Switching
<1>13. CASE Elapse \/ \E i \in Iface : LinkChange(i) \/ Remetric(i)
  BY <1>0, <1>13 DEF Elapse, LinkChange, Remetric, ReachInv, OnlyPhysicalTouched
<1>14. CASE UNCHANGED vars
  BY <1>0, <1>14 DEF vars, ReachInv, OnlyPhysicalTouched
<1>15. QED
  BY <1>3, <1>4, <1>5, <1>6, <1>7, <1>8, <1>9, <1>10, <1>11, <1>12, <1>13, <1>14
     DEF Next, TickStep, DisableRequest

\* No command ever changes an adapter that is not Ethernet or Wi-Fi, and none
\* changes anything without elevation.
THEOREM OnlyPhysicalEverTouched == Spec => []OnlyPhysicalTouched
<1>1. Spec => []TypeInv
  BY InitType, NextType, PTL DEF Spec
<1>2. Spec => []ReachInv
  BY <1>1, InitReach, NextReach, PTL DEF Spec
<1>3. ReachInv => OnlyPhysicalTouched
  BY DEF ReachInv
<1>4. QED
  BY <1>2, <1>3, PTL
-----------------------------------------------------------------------------
(* What the status says. *)

LEMMA TickNeedsEnabled ==
    ASSUME TypeInv, ReachInv, TickStep
    PROVE  enabled /\ enabled'
<1>1. enabled
  BY DEF TickStep, Observe, Guarded, DecideStep, Recheck, Failback, ReadOriginal, Plan,
         Apply, Verify, Rollback, ReachInv, Switching
<1>2. enabled' = enabled
  BY DEF TickStep, Observe, Guarded, DecideStep, Decision, Recheck, Failback, FailbackOf,
         ReadOriginal, Plan, Apply, Verify, Rollback, Abort, ctlVars
<1>3. QED
  BY <1>1, <1>2

\* A disabled controller with a setting on record does not claim to have
\* restored everything.
HonestInv == ~enabled /\ SavedSet # {} => ~restored

LEMMA InitHonest == Init => HonestInv
BY DEF Init, HonestInv, SavedSet, Nothing

LEMMA NextHonest == TypeInv /\ ReachInv /\ HonestInv /\ [Next]_vars => HonestInv'
<1> SUFFICES ASSUME TypeInv, ReachInv, HonestInv, [Next]_vars PROVE HonestInv'
  OBVIOUS
<1> USE DEF osVars, ctlVars, statusVars, readVars, switchVars
<1>1. ASSUME UNCHANGED <<enabled, saved, restored>> PROVE HonestInv'
  BY <1>1 DEF HonestInv, SavedSet
<1>2. CASE TickStep
  BY <1>2, TickNeedsEnabled DEF HonestInv
<1>3. CASE Enable
  <2>1. CASE elevated /\ SavedSet = {} /\ saved' = saved
    BY <2>1 DEF HonestInv, SavedSet
  <2>2. CASE elevated /\ SavedSet # {} /\ restored' = FALSE
    BY <2>2 DEF HonestInv
  <2>3. CASE ~elevated /\ saved' = saved
    BY <2>3 DEF HonestInv, SavedSet, ReachInv, OnlyPhysicalTouched
  <2>4. QED
    BY <1>3, <2>1, <2>2, <2>3 DEF Enable
<1>4. ASSUME Disable PROVE HonestInv'
  BY <1>4 DEF Disable, HonestInv, SavedSet, Nothing
<1>5. CASE Stop
  BY <1>1, <1>4, <1>5 DEF Stop
<1>6. CASE Start \/ Crash
  BY <1>6 DEF Start, Crash, Constructed, HonestInv, SavedSet, Nothing
<1>7. CASE Elapse \/ \E i \in Iface : LinkChange(i) \/ Remetric(i)
  BY <1>1, <1>7 DEF Elapse, LinkChange, Remetric
<1>8. CASE UNCHANGED vars
  BY <1>1, <1>8 DEF vars
<1>9. QED
  BY <1>2, <1>3, <1>4, <1>5, <1>6, <1>7, <1>8 DEF Next, DisableRequest

\* A disabled controller that reports everything restored has restored every
\* interface it still knew the setting of.
THEOREM RestoredAlwaysTrue == Spec => []RestoredIsTrue
<1>1. Spec => []TypeInv
  BY InitType, NextType, PTL DEF Spec
<1>2. Spec => []ReachInv
  BY <1>1, InitReach, NextReach, PTL DEF Spec
<1>3. Spec => []HonestInv
  BY <1>1, <1>2, InitHonest, NextHonest, PTL DEF Spec
<1>4. HonestInv /\ LedgerIsRight => RestoredIsTrue
  BY DEF HonestInv, LedgerIsRight, RestoredIsTrue, SavedSet
<1>5. QED
  BY <1>3, <1>4, LedgerAlwaysRight, PTL

-----------------------------------------------------------------------------
(* Deterministic failback. *)

LEMMA PinAfterFailback ==
    ASSUME TypeInv, HeldInv, LedgerInv, [Next]_vars, NEW i \in Iface,
           setting'[i] # setting[i], setting'[i] # Original[i], i \notin lost'
    PROVE  \A j \in Iface \ {i} : j \in lost \/ setting[j] = Original[j]
<1>0. TypeOK /\ LedgerIsRight /\ LocalsAgree
  BY DEF TypeInv, LedgerInv
<1> USE DEF osVars, ctlVars, statusVars, readVars, switchVars
<1>1. CASE Apply
  <2>1. target \in Iface /\ SavedSet \subseteq {target}
    BY <1>1 DEF Apply, TypeInv, Switching, HeldInv, Alone
  <2>2. i = target
    BY <1>0, <1>1, <2>1 DEF Apply, Written, TypeOK
  <2>3. QED
    BY <1>0, <2>1, <2>2 DEF LedgerIsRight, SavedSet
<1>2. CASE Failback
  <2>1. PICK j \in Others : \E o \in Outcomes("restore", j) : FailbackOf(j, o)
    BY <1>2 DEF Failback
  <2>2. setting' = setting \/ setting' = [setting EXCEPT ![j] = saved[j]]
    BY <2>1 DEF FailbackOf, Written
  <2>3. j \in Iface /\ saved[j] # Unsaved /\ lost' = lost
    BY <1>2, <2>1 DEF Failback, Others, SavedSet
  <2>4. QED
    BY <1>0, <2>2, <2>3 DEF LedgerIsRight, TypeOK
<1>3. CASE Rollback
  <2>1. /\ target \in Iface /\ saved[target] = original /\ original # Unsaved
    BY <1>0, <1>3, UnsavedIsNoSetting
       DEF Rollback, TypeInv, TypeOK, Switching, LocalsAgree
  <2>2. setting' = setting \/ setting' = [setting EXCEPT ![target] = original]
    BY <1>3 DEF Rollback, Written
  <2>3. target \notin lost' => target \notin lost
    BY <1>3 DEF Rollback
  <2>4. QED
    BY <1>0, <2>1, <2>2, <2>3 DEF LedgerIsRight, TypeOK
<1>4. ASSUME Disable PROVE FALSE
  <2>1. PICK out \in [SavedSet -> Outcome] : RestoreAll(out)
    BY <1>4 DEF Disable
  <2>2. i \in SavedSet /\ setting'[i] = saved[i]
    BY <1>0, <2>1 DEF RestoreAll, TypeOK
  <2>3. lost' = lost
    BY <1>4 DEF Disable
  <2>4. QED
    BY <1>0, <2>2, <2>3 DEF LedgerIsRight, SavedSet
<1>5. CASE UNCHANGED setting
  BY <1>5
<1>6. CASE Observe \/ Guarded \/ DecideStep \/ Recheck \/ ReadOriginal \/ Plan \/ Verify
  BY <1>5, <1>6 DEF Observe, Guarded, DecideStep, Recheck, ReadOriginal, Plan, Verify
<1>7. CASE Enable \/ Stop \/ Start \/ Crash \/ Elapse
  BY <1>4, <1>5, <1>7 DEF Enable, Stop, Start, Crash, Elapse
<1>8. CASE \E k \in Iface : LinkChange(k) \/ Remetric(k)
  BY <1>5, <1>8 DEF LinkChange, Remetric
<1>9. CASE UNCHANGED vars
  BY <1>5, <1>9 DEF vars
<1>10. QED
  BY <1>1, <1>2, <1>3, <1>4, <1>6, <1>7, <1>8, <1>9 DEF Next, TickStep, DisableRequest

\* A new target is pinned only when every other interface is back at the
\* user's setting, the lost ones excepted.
THEOREM FailbackComesFirst == Spec => FailbackFirst
<1>1. Spec => []TypeInv
  BY InitType, NextType, PTL DEF Spec
<1>2. Spec => []HeldInv
  BY <1>1, InitHeld, NextHeld, PTL DEF Spec
<1>3. Spec => []LedgerInv
  BY <1>1, InitLedger, NextLedger, PTL DEF Spec
<1>4. TypeInv /\ HeldInv /\ LedgerInv /\ [Next]_vars =>
        [\A i \in Iface :
            setting'[i] # setting[i] /\ setting'[i] # Original[i] /\ i \notin lost' =>
                \A j \in Iface \ {i} : j \in lost \/ setting[j] = Original[j]]_vars
  BY PinAfterFailback
<1>5. QED
  BY <1>1, <1>2, <1>3, <1>4, PTL DEF Spec, FailbackFirst

-----------------------------------------------------------------------------
(* The refinement. *)

LEMMA HolderFacts ==
    TypeInv /\ HeldInv =>
        /\ SavedSet = {} => Holder = None
        /\ \A i \in SavedSet : Holder = i /\ i # None
<1> SUFFICES ASSUME TypeInv, HeldInv
             PROVE  /\ SavedSet = {} => Holder = None
                    /\ \A i \in SavedSet : Holder = i /\ i # None
  OBVIOUS
<1>1. SavedSet = {} => Holder = None
  BY DEF Holder
<1>2. ASSUME NEW i \in SavedSet PROVE Holder = i /\ i # None
  <2>1. SavedSet = {i}
    BY DEF HeldInv, AtMostOneSaved
  <2>2. i # None
    BY PolicyAssumption DEF SavedSet, Iface, None
  <2>3. QED
    BY <2>1, <2>2 DEF Holder
<1>3. QED
  BY <1>1, <1>2

LEMMA StepImplements ==
    ASSUME TypeInv, TypeInv', HeldInv, HeldInv', LedgerInv, ReachInv, [Next]_vars
    PROVE  [Session!Next]_Session!vars
<1>0. /\ TypeOK /\ LocalsAgree /\ OnlyPhysicalTouched
      /\ SavedSet = {} => Holder = None
      /\ \A i \in SavedSet : Holder = i /\ i # None
  BY HolderFacts DEF TypeInv, LedgerInv, ReachInv
<1>0a. (TypeInv /\ HeldInv =>
          /\ SavedSet = {} => Holder = None
          /\ \A i \in SavedSet : Holder = i /\ i # None)'
  BY HolderFacts, PTL
<1>0b. /\ SavedSet' = {} => Holder' = None
       /\ \A i \in SavedSet' : Holder' = i /\ i # None
  BY <1>0a
<1> USE DEF osVars, ctlVars, statusVars, readVars, switchVars
<1>1. ASSUME UNCHANGED saved PROVE Holder' = Holder
  BY <1>1 DEF Holder, SavedSet
<1>2. ASSUME UNCHANGED <<enabled, saved, shown, restored>>
      PROVE  [Session!Next]_Session!vars
  BY <1>1, <1>2 DEF Session!vars
<1>3. CASE Observe \/ Guarded \/ ReadOriginal \/ Plan \/ Verify
  BY <1>2, <1>3 DEF Observe, Guarded, ReadOriginal, Abort, Plan, Verify
<1>4. CASE DecideStep
  BY <1>2, <1>4 DEF DecideStep
<1>5. CASE Recheck
  <2>1. CASE UNCHANGED <<enabled, saved, shown>> /\ restored' = TRUE
    <3>1. enabled
      BY <1>5 DEF Recheck, ReachInv
    <3>2. Session!Proceed
      BY <1>1, <2>1, <3>1 DEF Session!Proceed
    <3>3. QED
      BY <3>2 DEF Session!Next
  <2>2. QED
    BY <1>2, <1>5, <2>1 DEF Recheck, Abort
<1>6. CASE Failback
  <2>1. PICK j \in Others : \E o \in Outcomes("restore", j) : FailbackOf(j, o)
    BY <1>6 DEF Failback
  <2>2. j \in SavedSet /\ SavedSet = {j} /\ Holder = j /\ j # None
    BY <1>0, <2>1 DEF Others, HeldInv, AtMostOneSaved
  <2>3. enabled
    BY <1>6 DEF Failback, ReachInv
  <2>4. CASE UNCHANGED <<enabled, saved, shown>> /\ restored' = FALSE
    <3>1. Session!Keep
      BY <1>1, <2>2, <2>3, <2>4 DEF Session!Keep
    <3>2. QED
      BY <3>1 DEF Session!Next
  <2>5. CASE /\ UNCHANGED <<enabled, shown>>
             /\ saved' = [saved EXCEPT ![j] = Unsaved]
             /\ restored' \in {TRUE, restored}
    <3>1. SavedSet' = {}
      BY <1>0, <2>2, <2>5 DEF SavedSet, TypeOK
    <3>2. Session!Release
      BY <1>0, <1>0b, <2>2, <2>3, <2>5, <3>1 DEF Session!Release, TypeOK
    <3>3. QED
      BY <3>2 DEF Session!Next
  <2>6. QED
    BY <2>1, <2>4, <2>5 DEF FailbackOf, Abort
<1>7. CASE Apply
  <2>1. /\ target \in Physical /\ target \in Iface /\ SavedSet \subseteq {target}
        /\ enabled /\ original \in Setting
    BY <1>0, <1>7 DEF Apply, TypeInv, TypeOK, Switching, ReachInv, HeldInv, Alone
  <2>2. CASE /\ UNCHANGED <<enabled, shown, restored>>
             /\ saved' = [saved EXCEPT ![target] = original]
    <3>1. target \in SavedSet'
      BY <1>0, <2>1, <2>2, UnsavedIsNoSetting DEF SavedSet, TypeOK
    <3>2. Holder' = target
      BY <1>0b, <3>1
    <3>3. Holder = None \/ Holder = target
      BY <1>0, <2>1
    <3>4. Session!Take
      BY <2>1, <2>2, <3>2, <3>3 DEF Session!Take
    <3>5. QED
      BY <3>4 DEF Session!Next
  <2>3. QED
    BY <1>2, <1>7, <2>2 DEF Apply, Abort
<1>8. CASE Rollback
  <2>1. /\ target \in SavedSet /\ SavedSet \subseteq {target} /\ target \in Iface
        /\ enabled
    BY <1>0, <1>8, UnsavedIsNoSetting
       DEF Rollback, TypeInv, TypeOK, Switching, LocalsAgree, HeldInv, Alone, SavedSet, ReachInv
  <2>2. saved' = [saved EXCEPT ![target] = Unsaved] /\ UNCHANGED <<enabled, shown>>
    BY <1>8 DEF Rollback, Abort
  <2>3. SavedSet' = {}
    BY <1>0, <2>1, <2>2 DEF SavedSet, TypeOK
  <2>4. restored' \in BOOLEAN
    BY DEF TypeInv, TypeOK
  <2>5. Session!Release
    BY <1>0, <1>0b, <2>1, <2>2, <2>3, <2>4 DEF Session!Release
  <2>6. QED
    BY <2>5 DEF Session!Next
<1>9. CASE Enable
  <2>1. Holder' = Holder
    BY <1>1, <1>9 DEF Enable
  <2>2. CASE SavedSet = {} /\ enabled' = TRUE /\ shown' = TRUE /\ restored' = TRUE
    BY <1>0, <2>1, <2>2 DEF Session!Accept, Session!Next
  <2>3. CASE SavedSet # {} /\ shown' = FALSE /\ restored' = FALSE /\ UNCHANGED enabled
    <3>1. Holder # None
      BY <1>0, <2>3
    <3>2. QED
      BY <2>1, <2>3, <3>1 DEF Session!Refuse, Session!Next
  <2>4. CASE ~elevated /\ shown' = FALSE /\ restored' = TRUE /\ UNCHANGED enabled
    <3>1. SavedSet = {} /\ ~enabled
      BY <1>0, <2>4 DEF OnlyPhysicalTouched, SavedSet, ReachInv
    <3>2. QED
      BY <1>0, <2>1, <2>4, <3>1 DEF Session!Reject, Session!Next
  <2>5. QED
    BY <1>9, <2>2, <2>3, <2>4 DEF Enable
<1>10. ASSUME Disable PROVE [Session!Next]_Session!vars
  <2>1. SavedSet' \subseteq SavedSet
    BY <1>0, <1>10 DEF Disable, RestoreAll, SavedSet, TypeOK
  <2>2. Holder' \in {None, Holder}
    BY <1>0, <1>0b, <2>1
  <2>3. saved' = Nothing <=> SavedSet' = {}
    BY DEF TypeInv, TypeOK, SavedSet, Nothing
  <2>4. restored' = (Holder' = None)
    BY <1>0b, <1>10, <2>3 DEF Disable
  <2>5. enabled \/ Holder # None
    BY <1>0, <1>10 DEF Disable
  <2>6. enabled' = FALSE /\ shown' = FALSE
    BY <1>10 DEF Disable
  <2>7. QED
    BY <2>2, <2>4, <2>5, <2>6 DEF Session!Disable, Session!Next
<1>11. CASE Stop
  BY <1>2, <1>10, <1>11 DEF Stop
<1>12. CASE Start \/ Crash
  <2>1. SavedSet' = {}
    BY <1>12 DEF Start, Crash, Constructed, SavedSet, Nothing
  <2>2. QED
    BY <1>0b, <1>12, <2>1 DEF Start, Crash, Constructed, Session!Renew, Session!Next
<1>13. CASE Elapse \/ \E i \in Iface : LinkChange(i) \/ Remetric(i)
  BY <1>2, <1>13 DEF Elapse, LinkChange, Remetric
<1>14. CASE UNCHANGED vars
  BY <1>2, <1>14 DEF vars
<1>15. QED
  BY <1>3, <1>4, <1>5, <1>6, <1>7, <1>8, <1>9, <1>10, <1>11, <1>12, <1>13, <1>14
     DEF Next, TickStep, DisableRequest

LEMMA InitImplements == Init => Session!Init
BY DEF Init, Session!Init, Holder, SavedSet, Nothing

\* Every behaviour of the controller, with its metrics, commands, failures
\* and ticks, is a behaviour of the abstract session.
THEOREM ControllerImplementsSession == Spec => ImplementsSession
<1>1. Spec => []TypeInv
  BY InitType, NextType, PTL DEF Spec
<1>2. Spec => []HeldInv
  BY <1>1, InitHeld, NextHeld, PTL DEF Spec
<1>3. Spec => []LedgerInv
  BY <1>1, InitLedger, NextLedger, PTL DEF Spec
<1>4. Spec => []ReachInv
  BY <1>1, InitReach, NextReach, PTL DEF Spec
<1>5. QED
  BY <1>1, <1>2, <1>3, <1>4, InitImplements, StepImplements, PTL
     DEF Spec, ImplementsSession, Session!Spec
-----------------------------------------------------------------------------
(* The no-bypass guard. *)

LEMMA EffectiveType ==
    ASSUME TypeOK, NEW i \in Iface
    PROVE  Effective(i) \in Nat
BY InterfaceMetricType, ControllerAssumption DEF Effective

\* Where there is a default route, there is a cheapest one.
LEMMA CheapestExists ==
    ASSUME TypeOK, Routed # {}
    PROVE  Preferred # {}
<1> DEFINE C == {n \in Nat : (\E i \in Routed : Effective(i) <= n) => Preferred # {}}
<1>0. \A i \in Routed : i \in Iface /\ Effective(i) \in Nat
  BY EffectiveType DEF Routed
<1>1. ASSUME NEW i \in Routed, \A j \in Routed : Effective(i) <= Effective(j)
      PROVE  i \in Preferred
  BY <1>0, <1>1 DEF Preferred, Cheapest
<1>2. 0 \in C
  BY <1>0, <1>1
<1>3. ASSUME NEW n \in Nat, n \in C PROVE n + 1 \in C
  <2>1. CASE \E i \in Routed : Effective(i) <= n
    BY <1>3, <2>1
  <2>2. CASE \A i \in Routed : ~(Effective(i) <= n)
    BY <1>0, <1>1, <2>2
  <2>3. QED
    BY <2>1, <2>2
<1>4. PICK i \in Routed : TRUE
  OBVIOUS
<1>5. Effective(i) \in C
  <2> HIDE DEF C
  <2> QED BY <1>0, <1>2, <1>3, SetNatInduction
<1>6. QED
  BY <1>0, <1>5

\* In a tick that has passed the guard the path that was active is physical and
\* still has its route; the metric planned is at most one below some
\* competitor's, which is no lower than that of a VPN preferred by then.
StillInv ==
    /\ pc \notin {"idle", "stopped"} => seen = link
    /\ pc = "decide" => active \in (IF Routed = {} THEN {None} ELSE Routed)
    /\ pc \in Switching => active \in (Routed \cap Physical) \ {target}
    /\ pc = "apply" =>
           \E i \in Competitors : Effective(i) <= RouteMetric[target] + plan + 1

LEMMA InitStill == Init => StillInv
BY DEF Init, StillInv, Switching

LEMMA NextStill ==
    ASSUME "read" \notin Faults, MaxMoves = 0,
           TypeInv, StillInv, [Next]_vars
    PROVE  StillInv'
<1>0. TypeOK
  BY DEF TypeInv
<1> USE DEF osVars, ctlVars, statusVars, readVars, switchVars
<1>1. ASSUME pc' \in {"idle", "stopped"} PROVE StillInv'
  BY <1>1 DEF StillInv, Switching
\* A step within a switch that leaves the links and the locals alone.
<1>2. ASSUME pc \in Switching, pc' \in Switching \ {"apply"},
             UNCHANGED <<link, seen, active, target>>
      PROVE  StillInv'
  BY <1>2 DEF StillInv, Switching, Routed
<1>3. CASE Observe
  <2>1. seen' = link /\ link' = link /\ pc' = "decide"
    BY <1>3 DEF Observe, Sightings
  <2>2. active' \in IF Preferred = {} THEN {None} ELSE Preferred
    BY <1>3 DEF Observe, PreferredReads
  <2>3. Preferred \subseteq Routed
    BY DEF Preferred, Cheapest
  <2>4. active' \in IF Routed = {} THEN {None} ELSE Routed
    BY <1>0, <2>2, <2>3, CheapestExists
  <2>5. Routed' = Routed
    BY <2>1 DEF Routed
  <2>6. QED
    BY <2>1, <2>4, <2>5 DEF StillInv, Switching
<1>4. CASE DecideStep
  <2>1. PICK health \in HealthMaps, unread \in Unread, best \in Iface \cup {None} :
          /\ IsBest(best, active, CandidatesOf(health, unread))
          /\ Decision(Decide(policy, best, active, CandidatesOf(health, unread)))
    BY <1>4 DEF DecideStep
  <2> DEFINE cands == CandidatesOf(health, unread)
             d     == Decide(policy, best, active, cands)
  <2>2. best # None => best # active /\ best \in Routed
    <3>1. best # None => best \in Eligible(active, cands)
      BY <2>1 DEF IsBest
    <3>2. \A i \in Eligible(active, cands) : i \in DOMAIN cands /\ i # active /\ cands[i].route
      BY DEF Eligible
    <3>3. \A i \in DOMAIN cands : i \in Iface /\ (cands[i].route => link[i] = "routed")
      BY <1>0 DEF CandidatesOf, TypeOK
    <3>4. QED
      BY <3>1, <3>2, <3>3 DEF Routed
  <2>3. d.target # None => d.target = best
    BY <1>0, DecideType DEF TypeOK
  <2>4. Decision(d)
    BY <2>1
  <2>5. pc = "decide" /\ ~GuardApplies /\ link' = link
    BY <1>4 DEF DecideStep
  <2> HIDE DEF d, cands
  <2>6. CASE d.target = None
    BY <1>1, <2>4, <2>6 DEF Decision, Finish
  <2>7. CASE d.target # None
    <3>1. pc' = "recheck" /\ target' = best /\ seen' = seen /\ active' = active
      BY <2>3, <2>4, <2>7 DEF Decision
    <3>2. active \in Routed /\ active # best
      BY <2>2, <2>3, <2>5, <2>7 DEF StillInv
    <3>3. seen = link
      BY <2>5 DEF StillInv
    <3>4. active \in Physical
      BY <2>5, <3>2, <3>3, PolicyAssumption DEF GuardApplies, Routed, Iface, None
    <3>5. Routed' = Routed
      BY <2>5 DEF Routed
    <3>6. QED
      BY <2>5, <3>1, <3>2, <3>3, <3>4, <3>5 DEF StillInv, Switching
  <2>8. QED
    BY <2>6, <2>7
<1>5. CASE Guarded
  BY <1>1, <1>5 DEF Guarded, Finish
<1>6. CASE Recheck \/ ReadOriginal \/ Verify
  BY <1>1, <1>2, <1>6 DEF Recheck, ReadOriginal, Verify, Abort, Finish, Switching
<1>7. CASE Failback
  BY <1>1, <1>2, <1>7 DEF Failback, FailbackOf, Abort, Finish, Switching
<1>8. CASE Plan
  <2>1. /\ pc = "plan" /\ pc' = "apply"
        /\ UNCHANGED <<link, auto, setting, seen, active, target>>
    BY <1>8 DEF Plan
  <2>2. active \in (Routed \cap Physical) \ {target} /\ seen = link /\ target \in Iface
    BY <2>1 DEF StillInv, Switching, TypeInv
  <2>3. active \in Competitors
    BY <2>2 DEF Competitors, Up, Routed
  <2> DEFINE others == {RouteMetric[i] + InterfaceMetric(i) : i \in Competitors}
  <2>4. Readable = {TRUE}
    BY DEF Readable
  <2>5. PICK own \in BOOLEAN :
          LET mine == IF own /\ link[target] = "routed" THEN RouteMetric[target] ELSE 0
          IN  \/ others = {} /\ plan' = FallbackMetric
              \/ \E least \in others : IsLeast(least, others) /\ plan' = TargetMetric(least, mine)
    BY <1>8, <2>4 DEF Plan
  <2> DEFINE mine == IF own /\ link[target] = "routed" THEN RouteMetric[target] ELSE 0
  <2>6. others # {}
    BY <2>3
  <2>7. PICK least \in others : plan' = TargetMetric(least, mine)
    BY <2>5, <2>6
  <2>8. PICK i \in Competitors : least = Effective(i)
    BY <2>7 DEF Effective
  <2>9. i \in Iface /\ Effective(i) \in Nat /\ RouteMetric[target] \in Nat
        /\ mine \in Nat /\ mine <= RouteMetric[target]
    BY <1>0, <2>2, <2>8, EffectiveType, ControllerAssumption DEF Competitors, Routed
  <2>10. Effective(i) <= RouteMetric[target] + plan' + 1
    BY <2>7, <2>8, <2>9 DEF TargetMetric
  <2>11. Effective(i)' = Effective(i) /\ Competitors' = Competitors /\ Routed' = Routed
    BY <2>1 DEF Effective, InterfaceMetric, Competitors, Up, Routed
  <2>12. QED
    BY <2>1, <2>2, <2>8, <2>10, <2>11 DEF StillInv, Switching
<1>9. CASE Apply
  BY <1>1, <1>2, <1>9 DEF Apply, Abort, Finish, Switching
<1>10. CASE Rollback \/ Enable \/ DisableRequest \/ Stop \/ Start \/ Crash
  BY <1>1, <1>10 DEF Rollback, Abort, Finish, Enable, DisableRequest, Stop, Disable,
       Start, Crash, Constructed
<1>11. ASSUME UNCHANGED <<link, auto, setting, pc, seen, active, target, plan>>
       PROVE  StillInv'
  <2>1. Routed' = Routed /\ Competitors' = Competitors
    BY <1>11 DEF Routed, Competitors, Up
  <2>2. \A i \in Iface : Effective(i)' = Effective(i)
    BY <1>11 DEF Effective, InterfaceMetric
  <2>3. Competitors \subseteq Iface
    BY DEF Competitors, Routed
  <2>4. QED
    BY <1>11, <2>1, <2>2, <2>3 DEF StillInv
<1>12. CASE Elapse
  BY <1>11, <1>12 DEF Elapse
\* Windows does not change under a tick.
<1>13. CASE \E i \in Iface : LinkChange(i) \/ Remetric(i)
  <2>1. Moving /\ pc' = pc
    BY <1>13 DEF LinkChange, Remetric
  <2>2. moves = 0
    BY <1>0 DEF TypeOK
  <2>3. pc \in {"idle", "stopped"}
    BY <2>1, <2>2 DEF Moving
  <2>4. QED
    BY <1>1, <2>1, <2>3
<1>14. CASE UNCHANGED vars
  BY <1>11, <1>14 DEF vars
<1>15. QED
  BY <1>3, <1>4, <1>5, <1>6, <1>7, <1>8, <1>9, <1>10, <1>12, <1>13, <1>14
     DEF Next, TickStep

LEMMA PinKeepsForeignPath ==
    ASSUME MaxMoves = 0, TypeInv, ReachInv, StillInv, [Next]_vars,
           pc = "apply", Preferred # {}, Preferred \cap Physical = {}
    PROVE  Preferred' \ Physical # {}
<1>0. TypeOK /\ target \in Physical /\ target \in Iface
  BY DEF TypeInv, ReachInv, Switching
<1> USE DEF osVars, ctlVars, statusVars, readVars, switchVars
<1>1. PICK v \in Preferred : v \notin Physical
  OBVIOUS
<1>2. /\ v \in Routed /\ v \in Iface /\ v # target
      /\ \A j \in Routed : Effective(v) <= Effective(j)
  BY <1>0, <1>1 DEF Preferred, Cheapest, Routed
<1>3. ASSUME UNCHANGED <<link, auto, setting>> PROVE Preferred' \ Physical # {}
  BY <1>1, <1>3 DEF Preferred, Cheapest, Routed, Effective, InterfaceMetric
<1>4. CASE Apply
  <2>1. PICK i \in Competitors : Effective(i) <= RouteMetric[target] + plan + 1
    BY DEF StillInv
  <2>2. i \in Routed /\ i \in Iface /\ i \in Physical
    BY <2>1 DEF Competitors, Routed
  <2>3. i \notin Preferred
    BY <2>2
  <2>4. \A j \in Iface : Effective(j) \in Nat
    BY <1>0, EffectiveType
  <2>5. Effective(v) < Effective(i)
    <3>1. PICK j \in Routed : ~(Effective(i) <= Effective(j))
      BY <2>2, <2>3 DEF Preferred, Cheapest, Routed
    <3>2. j \in Iface /\ Effective(v) <= Effective(j)
      BY <1>2, <3>1 DEF Routed
    <3>3. QED
      BY <1>2, <2>2, <2>4, <3>1, <3>2
  <2>6. plan \in Nat /\ RouteMetric[target] \in Nat
    BY <1>0, ControllerAssumption DEF TypeOK
  <2>7. Effective(v) <= RouteMetric[target] + plan
    BY <1>2, <2>1, <2>2, <2>4, <2>5, <2>6
  <2>8. UNCHANGED <<link, auto>> /\ setting' \in {setting, [setting EXCEPT ![target] = plan]}
    BY <1>4 DEF Apply, Written
  <2>9. CASE setting' = setting
    BY <1>3, <2>8, <2>9
  <2>10. CASE setting' = [setting EXCEPT ![target] = plan]
    <3>1. \A j \in Iface \ {target} : Effective(j)' = Effective(j)
      BY <1>0, <2>8, <2>10 DEF TypeOK, Effective, InterfaceMetric
    <3>2. \A j \in Iface : j = target => Effective(j)' = RouteMetric[j] + plan
      BY <1>0, <2>6, <2>8, <2>10 DEF TypeOK, Effective, InterfaceMetric, Automatic
    <3>3. Routed' = Routed /\ Routed \subseteq Iface
      BY <2>8 DEF Routed
    <3>4. \A j \in Routed : Effective(v)' <= Effective(j)'
      <4>1. Effective(v)' = Effective(v)
        BY <1>2, <3>1
      <4> TAKE j \in Routed
      <4>2. CASE j = target
        BY <2>7, <3>2, <3>3, <4>1, <4>2
      <4>3. CASE j # target
        BY <1>2, <3>1, <3>3, <4>1, <4>3
      <4>4. QED
        BY <4>2, <4>3
    <3>5. v \in Preferred'
      BY <1>2, <3>3, <3>4 DEF Preferred, Cheapest
    <3>6. QED
      BY <1>1, <3>5
  <2>11. QED
    BY <2>8, <2>9, <2>10
<1>5. CASE Elapse \/ Crash
  BY <1>3, <1>5 DEF Elapse, Crash
<1>6. CASE \E i \in Iface : LinkChange(i) \/ Remetric(i)
  BY <1>0, <1>6 DEF LinkChange, Remetric, Moving, TypeOK
<1>7. CASE UNCHANGED vars
  BY <1>3, <1>7 DEF vars
<1>8. QED
  BY <1>4, <1>5, <1>6, <1>7
     DEF Next, TickStep, Observe, Guarded, DecideStep, Recheck, Failback, ReadOriginal,
         Plan, Verify, Rollback, Enable, DisableRequest, Disable, Stop, Start

\* As long as queries tell the truth and Windows stands still during a tick,
\* a pin never takes the traffic off a preferred VPN, whatever the metrics
\* and whatever commands fail (controller.py 195-204).
THEOREM NoBypassWhileStill ==
    ASSUME "read" \notin Faults, MaxMoves = 0
    PROVE  Spec => NoBypass
<1>1. Spec => []TypeInv
  BY InitType, NextType, PTL DEF Spec
<1>2. Spec => []ReachInv
  BY <1>1, InitReach, NextReach, PTL DEF Spec
<1>3. TypeInv /\ StillInv /\ [Next]_vars => StillInv'
  BY NextStill
<1>4. Spec => []StillInv
  BY <1>1, <1>3, InitStill, PTL DEF Spec
<1>5. TypeInv /\ ReachInv /\ StillInv /\ [Next]_vars =>
          (pc = "apply" /\ Preferred # {} /\ Preferred \cap Physical = {} =>
               Preferred' \ Physical # {})
  BY PinKeepsForeignPath
<1>6. QED
  BY <1>1, <1>2, <1>4, <1>5, PTL DEF Spec, NoBypass
=============================================================================
