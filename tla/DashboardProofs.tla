--------------------------- MODULE DashboardProofs ---------------------------
(***************************************************************************)
(* Theorems about Dashboard, for any interfaces, retentions and number of  *)
(* snapshots under way, and however often the clock is set back.           *)
(***************************************************************************)
EXTENDS Dashboard, FoldLemmas

Ages(back) == (-back)..MaxAge

\* An interface's ages, with the clock set back so far: as many up to any age
\* as a record in each unit gives, and slack for one that is due.
Fits(ages, back, slack) ==
    /\ ages \in Seq(Ages(back))
    /\ \A k \in (-back)..MaxRetention : CountIn(ages, UpTo(k)) <= k + slack + back

\* Before a measurement that may be recorded there is room for one more.
Slack == IF at = "measure" /\ warm THEN 0 ELSE 1

HistoryInv == \A i \in Iface : Fits(history[i], setBacks, Slack)

Ticks ==
    {s \in [list : [Iface -> Type] \cup {Empty}, enabled : SUBSET Iface,
            sampled : SUBSET Iface, old : BOOLEAN] : Snapshot(s)}

\* The snapshots under way from before the last Clear.
OldTicks == {s \in Ticks : s.old}
OldTick == IF at = "emit" /\ tick.old THEN 1 ELSE 0

\* What may still come into the chart is counted, and what has come.
ClearInv == \A i \in Iface : chart[i].old + CountIn(queue, OldTicks) + OldTick <= inFlight

KindInv ==
    /\ DOMAIN overrides \subseteq Iface /\ \A i \in DOMAIN overrides : overrides[i] \in BOOLEAN
    /\ at \in {"off", "sleep", "measure", "emit"}
    /\ connected \in BOOLEAN /\ warm \in BOOLEAN /\ showAll \in BOOLEAN
    /\ tick \in Ticks /\ queue \in Seq(Ticks) /\ Len(queue) <= MaxQueue
    /\ latest.enabled \subseteq DOMAIN latest.list /\ DOMAIN latest.list \subseteq Iface
    /\ DOMAIN table \subseteq DOMAIN latest.list
    /\ retention \in Retentions
    /\ chart \in [Iface -> [old : Nat, new : BOOLEAN]]
    /\ setBacks \in 0..MaxSetBacks /\ inFlight \in 0..(MaxQueue + 1)
    /\ DOMAIN history = Iface /\ history = [i \in Iface |-> history[i]]

IInv == KindInv /\ HistoryInv /\ HistoryBounded /\ ClearInv

USE DashboardAssumption

-----------------------------------------------------------------------------
(* The records of an interface. *)

LEMMA MaxRetentionIsMost ==
    /\ MaxRetention \in Retentions /\ MaxRetention \in Nat
    /\ \A q \in Retentions : q <= MaxRetention
  BY DEF MaxRetention

LEMMA NoRecordFits ==
    ASSUME NEW back \in Nat, NEW slack \in {0, 1}
    PROVE  Fits(<< >>, back, slack)
<1>1. << >> \in Seq(Ages(back))
  OBVIOUS
<1>2. ASSUME NEW k \in (-back)..MaxRetention
      PROVE  CountIn(<< >>, UpTo(k)) <= k + slack + back
  <2>1. CountIn(<< >>, UpTo(k)) = 0
    BY CountEmpty
  <2>2. QED
    BY <2>1, MaxRetentionIsMost
<1>3. QED
  BY <1>1, <1>2 DEF Fits

\* Slack is no obligation.
LEMMA FitsWithSlack ==
    ASSUME NEW back \in Nat, NEW ages, Fits(ages, back, 0)
    PROVE  Fits(ages, back, 1)
<1>1. ASSUME NEW k \in (-back)..MaxRetention
      PROVE  CountIn(ages, UpTo(k)) <= k + 1 + back
  <2>1. CountIn(ages, UpTo(k)) <= k + 0 + back /\ CountIn(ages, UpTo(k)) \in Nat
    BY CountType DEF Fits
  <2>2. QED
    BY <2>1, MaxRetentionIsMost
<1>2. QED
  BY <1>1 DEF Fits

\* Pruning leaves no more than fits, and no more than the retention.
LEMMA PruneFits ==
    ASSUME NEW back \in Nat, NEW slack \in {0, 1}, NEW ages, Fits(ages, back, slack),
           NEW kept \in Retentions
    PROVE  /\ Fits(Prune(ages, kept), back, slack)
           /\ Len(Prune(ages, kept)) <= Len(ages)
           /\ Len(Prune(ages, kept)) <= kept + slack + back
<1> DEFINE pruned == Prune(ages, kept)
<1>1. pruned = Filtered(ages, UpTo(kept)) /\ ages \in Seq(Ages(back))
  BY DEF Prune, Fits
<1>2. kept \in Nat /\ kept \in (-back)..MaxRetention
  BY MaxRetentionIsMost
<1>3. PICK Y : \A x : x \in Y <=> x \in Ages(back) /\ x \in UpTo(kept)
  <2>1. \A x : x \in Ages(back) \cap UpTo(kept) <=> x \in Ages(back) /\ x \in UpTo(kept)
    OBVIOUS
  <2>2. QED
    BY <2>1
<1> HIDE DEF pruned
<1>4. pruned \in Seq(Y)
  BY <1>1, <1>3, FilteredType
<1>5. pruned \in Seq(Ages(back))
  <2>1. Y \subseteq Ages(back)
    BY <1>3
  <2>2. QED
    BY <1>4, <2>1
<1>6. Len(pruned) = CountIn(ages, UpTo(kept)) /\ Len(pruned) \in Nat
  <2>1. Y \subseteq UpTo(kept)
    BY <1>3
  <2>2. CountIn(pruned, UpTo(kept)) = Len(pruned)
    BY <1>4, <2>1, CountType
  <2>3. \A x : x \in UpTo(kept) <=> x \in UpTo(kept) /\ x \in UpTo(kept)
    OBVIOUS
  <2>4. CountIn(pruned, UpTo(kept)) = CountIn(ages, UpTo(kept))
    BY <1>1, <2>3, FilteredCount
  <2>5. QED
    BY <1>4, <2>2, <2>4, LenProperties
<1>7. ASSUME NEW k \in (-back)..MaxRetention
      PROVE  CountIn(pruned, UpTo(k)) <= k + slack + back
  <2>1. PICK U : \A x : x \in U <=> x \in UpTo(k) /\ x \in UpTo(kept)
    <3>1. \A x : x \in UpTo(k) \cap UpTo(kept) <=> x \in UpTo(k) /\ x \in UpTo(kept)
      OBVIOUS
    <3>2. QED
      BY <3>1
  <2>2. CountIn(pruned, UpTo(k)) = CountIn(ages, U)
    BY <1>1, <2>1, FilteredCount
  <2>3. U \cap Ages(back) \subseteq UpTo(k)
    BY <2>1
  <2>4. CountIn(ages, U) <= CountIn(ages, UpTo(k))
    BY <1>1, <2>3, CountMore
  <2>5. CountIn(ages, UpTo(k)) <= k + slack + back
    BY DEF Fits
  <2>6. CountIn(ages, U) \in Nat /\ CountIn(ages, UpTo(k)) \in Nat
    BY <1>1, CountType
  <2>7. QED
    BY <2>2, <2>4, <2>5, <2>6, MaxRetentionIsMost
<1>8. CountIn(ages, UpTo(kept)) <= kept + slack + back
  BY <1>2 DEF Fits
<1>9. CountIn(ages, UpTo(kept)) <= Len(ages)
  BY <1>1, CountType
<1>10. QED
  BY <1>5, <1>6, <1>7, <1>8, <1>9 DEF Fits, pruned

\* A new record takes up the room that was left for it.
LEMMA RecordFits ==
    ASSUME NEW back \in Nat, NEW ages, Fits(ages, back, 0)
    PROVE  Fits(<<0>> \o ages, back, 1)
<1>1. ages \in Seq(Ages(back)) /\ <<0>> \in Seq(Ages(back))
  <2>1. 0 \in Ages(back)
    BY MaxRetentionIsMost DEF Ages, MaxAge
  <2>2. QED
    BY <2>1 DEF Fits
<1>2. <<0>> \o ages \in Seq(Ages(back))
  BY <1>1, ConcatProperties
<1>3. ASSUME NEW k \in (-back)..MaxRetention
      PROVE  CountIn(<<0>> \o ages, UpTo(k)) <= k + 1 + back
  <2>1. CountIn(<<0>> \o ages, UpTo(k)) = CountIn(<<0>>, UpTo(k)) + CountIn(ages, UpTo(k))
    BY <1>1, CountConcat
  <2>2. CountIn(<<0>>, UpTo(k)) = 0 \/ CountIn(<<0>>, UpTo(k)) = 1
    BY CountSingle
  <2>3. CountIn(ages, UpTo(k)) <= k + 0 + back /\ CountIn(ages, UpTo(k)) \in Nat
    BY <1>1, CountType DEF Fits
  <2>4. QED
    BY <2>1, <2>2, <2>3, MaxRetentionIsMost
<1>4. QED
  BY <1>2, <1>3 DEF Fits

\* A unit of time makes room for one more record.
LEMMA ElapseFits ==
    ASSUME NEW back \in Nat, NEW slack \in {0, 1}, NEW ages, Fits(ages, back, slack)
    PROVE  LET aged == [k \in DOMAIN ages |-> IF ages[k] < MaxAge THEN ages[k] + 1 ELSE MaxAge]
           IN  Fits(aged, back, 0) /\ Len(aged) = Len(ages)
<1> DEFINE aged == [k \in DOMAIN ages |-> IF ages[k] < MaxAge THEN ages[k] + 1 ELSE MaxAge]
<1>1. /\ ages \in Seq(Ages(back)) /\ Len(ages) \in Nat /\ DOMAIN ages = 1..Len(ages)
      /\ \A k \in DOMAIN ages : ages[k] \in Ages(back)
  BY DEF Fits
<1>2. MaxAge = MaxRetention + 1 /\ MaxRetention \in Nat
  BY MaxRetentionIsMost DEF MaxAge
<1>3. \A k \in DOMAIN ages : aged[k] \in Ages(back)
  BY <1>1, <1>2 DEF Ages
<1>4. aged \in Seq(Ages(back)) /\ Len(aged) = Len(ages)
  BY <1>1, <1>3
<1>5. ASSUME NEW k \in (-back)..MaxRetention
      PROVE  CountIn(aged, UpTo(k)) <= k + 0 + back
  <2>1. Places(aged, UpTo(k)) = Places(ages, UpTo(k - 1))
    BY <1>1, <1>2 DEF Places, UpTo, Ages
  <2>2. CountIn(aged, UpTo(k)) = CountIn(ages, UpTo(k - 1))
    BY <2>1 DEF CountIn
  <2>3. CASE k = -back
    <3>1. UpTo(k - 1) \cap Ages(back) = {}
      BY <1>2, <2>3 DEF UpTo, Ages
    <3>2. CountIn(ages, UpTo(k - 1)) = 0
      BY <1>1, <3>1, CountNone
    <3>3. QED
      BY <2>2, <2>3, <3>2
  <2>4. CASE k # -back
    <3> DEFINE m == k - 1
    <3>1. m \in (-back)..MaxRetention /\ k = m + 1
      BY <1>2, <2>4
    <3>2. CountIn(ages, UpTo(m)) <= m + slack + back /\ CountIn(ages, UpTo(m)) \in Nat
      BY <1>1, <3>1, CountType DEF Fits
    <3>3. QED
      BY <1>2, <2>2, <3>1, <3>2
  <2>5. QED
    BY <2>3, <2>4
<1> HIDE DEF aged
<1>6. QED
  BY <1>4, <1>5 DEF Fits, aged

\* A clock that is set back makes every record younger.
LEMMA SetBackFits ==
    ASSUME NEW back \in Nat, NEW slack \in {0, 1}, NEW ages, Fits(ages, back, slack),
           Len(ages) <= MaxRetention + 1 + back
    PROVE  LET aged == [k \in DOMAIN ages |-> ages[k] - 1]
           IN  Fits(aged, back + 1, slack) /\ Len(aged) = Len(ages)
<1> DEFINE aged == [k \in DOMAIN ages |-> ages[k] - 1]
<1>1. /\ ages \in Seq(Ages(back)) /\ Len(ages) \in Nat /\ DOMAIN ages = 1..Len(ages)
      /\ \A k \in DOMAIN ages : ages[k] \in Ages(back)
  BY DEF Fits
<1>2. MaxAge = MaxRetention + 1 /\ MaxRetention \in Nat
  BY MaxRetentionIsMost DEF MaxAge
<1>3. \A k \in DOMAIN ages : aged[k] \in Ages(back + 1)
  BY <1>1, <1>2 DEF Ages
<1>4. aged \in Seq(Ages(back + 1)) /\ Len(aged) = Len(ages)
  BY <1>1, <1>3
<1>5. ASSUME NEW k \in (-(back + 1))..MaxRetention
      PROVE  CountIn(aged, UpTo(k)) <= k + slack + (back + 1)
  <2>1. CASE k = MaxRetention
    <3>1. CountIn(aged, UpTo(k)) <= Len(aged) /\ CountIn(aged, UpTo(k)) \in Nat
      BY <1>4, CountType
    <3>2. QED
      BY <1>1, <1>2, <1>4, <2>1, <3>1
  <2>2. CASE k # MaxRetention
    <3> DEFINE m == k + 1
    <3>1. m \in (-back)..MaxRetention /\ k = m - 1
      BY <1>2, <2>2
    <3>2. Places(aged, UpTo(k)) = Places(ages, UpTo(m))
      BY <1>1, <1>2 DEF Places, UpTo, Ages
    <3>3. CountIn(ages, UpTo(m)) <= m + slack + back /\ CountIn(ages, UpTo(m)) \in Nat
      BY <1>1, <3>1, CountType DEF Fits
    <3>4. CountIn(aged, UpTo(k)) = CountIn(ages, UpTo(m))
      BY <3>2 DEF CountIn
    <3> HIDE DEF aged, m
    <3>5. QED
      BY <1>2, <3>1, <3>3, <3>4
  <2>3. QED
    BY <2>1, <2>2
<1> HIDE DEF aged
<1>6. QED
  BY <1>4, <1>5 DEF Fits, aged

-----------------------------------------------------------------------------
(* Steps that leave the records or the chart alone. *)

LEMMA SlackKinds == Slack \in {0, 1}
  BY DEF Slack

\* What is known of the records of an interface.
LEMMA RecordsOf ==
    ASSUME IInv, NEW i \in Iface
    PROVE  /\ setBacks \in Nat /\ retention \in Nat /\ retention <= MaxRetention
           /\ Fits(history[i], setBacks, Slack) /\ Fits(history[i], setBacks, 1)
           /\ Len(history[i]) \in Nat /\ Len(history[i]) <= retention + 1 + setBacks
<1>1. setBacks \in Nat /\ retention \in Nat /\ retention <= MaxRetention
  BY MaxRetentionIsMost DEF IInv, KindInv
<1>2. Fits(history[i], setBacks, Slack) /\ Len(history[i]) <= retention + 1 + setBacks
  BY DEF IInv, HistoryInv, HistoryBounded
<1>3. Fits(history[i], setBacks, 1)
  BY <1>1, <1>2, SlackKinds, FitsWithSlack
<1>4. Len(history[i]) \in Nat
  BY <1>2, LenProperties DEF Fits
<1>5. QED
  BY <1>1, <1>2, <1>3, <1>4

LEMMA RecordsKept ==
    ASSUME IInv, UNCHANGED <<history, setBacks, retention>>, Slack' = 1 \/ Slack' = Slack
    PROVE  HistoryInv' /\ HistoryBounded'
<1>1. ASSUME NEW i \in Iface
      PROVE  Fits(history[i], setBacks, Slack') /\ Len(history[i]) <= retention + 1 + setBacks
  BY RecordsOf
<1>2. HistoryInv'
  BY <1>1 DEF HistoryInv
<1>3. HistoryBounded'
  BY <1>1 DEF HistoryBounded
<1>4. QED
  BY <1>2, <1>3

\* The records are pruned and nothing is added.
LEMMA RecordsPruned ==
    ASSUME IInv, UNCHANGED setBacks, retention' \in Retentions, Slack' = 1 \/ Slack' = Slack,
           history' = [i \in Iface |-> Prune(history[i], retention')]
    PROVE  HistoryInv' /\ HistoryBounded'
<1>1. ASSUME NEW i \in Iface
      PROVE  Fits(history'[i], setBacks, Slack') /\ Len(history'[i]) <= retention' + 1 + setBacks
  <2>1. Fits(history[i], setBacks, Slack') /\ setBacks \in Nat /\ Slack' \in {0, 1}
    BY RecordsOf, SlackKinds
  <2>2. Fits(history[i], setBacks, 1)
    BY RecordsOf
  <2>3. Fits(Prune(history[i], retention'), setBacks, Slack')
    BY <2>1, PruneFits
  <2>4. Len(Prune(history[i], retention')) <= retention' + 1 + setBacks
    BY <2>1, <2>2, PruneFits
  <2>5. QED
    BY <2>3, <2>4
<1>2. HistoryInv'
  BY <1>1 DEF HistoryInv
<1>3. HistoryBounded'
  BY <1>1 DEF HistoryBounded
<1>4. QED
  BY <1>2, <1>3

LEMMA OldKept ==
    ASSUME IInv, UNCHANGED <<chart, queue, inFlight>>, OldTick' = 0 \/ OldTick' = OldTick
    PROVE  ClearInv'
<1>1. ASSUME NEW i \in Iface
      PROVE  chart[i].old + CountIn(queue, OldTicks) + OldTick' <= inFlight
  <2>1. chart[i].old \in Nat /\ CountIn(queue, OldTicks) \in Nat /\ inFlight \in Nat
    BY CountType DEF IInv, KindInv
  <2>2. chart[i].old + CountIn(queue, OldTicks) + OldTick <= inFlight
    BY DEF IInv, ClearInv
  <2>3. OldTick = 0 \/ OldTick = 1
    BY DEF OldTick
  <2>4. QED
    BY <2>1, <2>2, <2>3
<1>2. QED
  BY <1>1 DEF ClearInv

LEMMA NoTickIsATick == NoTick \in Ticks /\ ~NoTick.old
<1>1. DOMAIN Empty = {}
  BY DEF Empty
<1>2. NoTick \in [list : [Iface -> Type] \cup {Empty}, enabled : SUBSET Iface,
                  sampled : SUBSET Iface, old : BOOLEAN]
  BY DEF NoTick
<1>3. Snapshot(NoTick)
  BY <1>1 DEF NoTick, Snapshot
<1>4. QED
  BY <1>2, <1>3 DEF Ticks, NoTick

LEMMA RowsOfList ==
    ASSUME NEW list, NEW enabled, NEW all
    PROVE  DOMAIN Rows(list, enabled, all) \subseteq DOMAIN list
  BY DEF Rows, VisibleByDefault

LEMMA InitEstablishes == Init => IInv
<1> SUFFICES ASSUME Init PROVE IInv
  OBVIOUS
<1>1. KindInv
  <2>1. DOMAIN Empty = {}
    BY DEF Empty
  <2>2. queue \in Seq(Ticks) /\ Len(queue) = 0
    BY DEF Init
  <2>3. chart \in [Iface -> [old : Nat, new : BOOLEAN]]
    BY DEF Init, NoPoints
  <2>4. DOMAIN history = Iface /\ history = [i \in Iface |-> history[i]]
    BY DEF Init, NoRecords
  <2>5. /\ tick \in Ticks
        /\ latest.enabled = {} /\ DOMAIN latest.list = {} /\ DOMAIN table = {} /\ DOMAIN overrides = {}
    BY <2>1, NoTickIsATick DEF Init
  <2>6. /\ at \in {"off", "sleep", "measure", "emit"}
        /\ connected \in BOOLEAN /\ warm \in BOOLEAN /\ showAll \in BOOLEAN
        /\ retention \in Retentions /\ setBacks = 0 /\ inFlight = 0
    BY DEF Init
  <2>7. QED
    BY <2>2, <2>3, <2>4, <2>5, <2>6 DEF KindInv
<1>2. \A i \in Iface : history[i] = << >>
  BY DEF Init, NoRecords
<1>3. HistoryInv
  <2>1. setBacks \in Nat
    BY DEF Init
  <2>2. QED
    BY <1>2, <2>1, NoRecordFits, SlackKinds DEF HistoryInv
<1>4. HistoryBounded
  BY <1>2, MaxRetentionIsMost DEF Init, HistoryBounded
<1>5. ClearInv
  <2>1. CountIn(queue, OldTicks) = 0
    BY CountEmpty DEF Init
  <2>2. \A i \in Iface : chart[i].old = 0
    BY DEF Init, NoPoints
  <2>3. OldTick = 0 /\ inFlight = 0
    BY DEF Init, OldTick
  <2>4. QED
    BY <2>1, <2>2, <2>3 DEF ClearInv
<1>6. QED
  BY <1>1, <1>3, <1>4, <1>5 DEF IInv

-----------------------------------------------------------------------------
(* The worker. *)

LEMMA MeasureKeeps ==
    ASSUME IInv, NEW classified \in BOOLEAN, NEW sampled \in SUBSET Iface,
           Measure(classified, sampled)
    PROVE  IInv'
<1> DEFINE list == [i \in Iface |-> IF classified THEN TypeOf[i] ELSE "other"]
           enabled == EnabledIn(list, overrides)
<1>1. /\ at = "measure" /\ at' = "emit" /\ warm' = TRUE /\ sampled \in Sampled(enabled)
      /\ tick' = [list |-> list, enabled |-> enabled, sampled |-> sampled, old |-> FALSE]
      /\ history' = IF sampled = {} THEN history
                    ELSE [i \in Iface |-> IF i \in sampled THEN Written(i)
                                          ELSE Prune(history[i], retention)]
      /\ UNCHANGED <<connected, queue, selectVars, retention, chart, setBacks, inFlight>>
  BY DEF Measure
<1>2. tick' \in Ticks /\ ~tick'.old
  <2>1. list \in [Iface -> Type]
    BY DEF Type
  <2>2. enabled \subseteq Iface
    BY DEF EnabledIn
  <2>3. sampled \subseteq enabled
    BY <1>1 DEF Sampled
  <2>4. DOMAIN list = Iface
    OBVIOUS
  <2> HIDE DEF list, enabled
  <2>5. QED
    BY <1>1, <2>1, <2>2, <2>3, <2>4 DEF Ticks, Snapshot
<1> HIDE DEF list, enabled
<1>3. KindInv'
  BY <1>1, <1>2 DEF IInv, KindInv, selectVars
<1>4. HistoryInv' /\ HistoryBounded'
  <2>1. Slack' = 1
    BY <1>1 DEF Slack
  <2>2. CASE sampled = {}
    BY <1>1, <2>1, <2>2, RecordsKept
  <2>3. CASE sampled # {}
    <3>1. Slack = 0
      BY <1>1, <2>3 DEF Sampled, Slack
    <3>2. ASSUME NEW i \in Iface
          PROVE  Fits(history'[i], setBacks, 1) /\ Len(history'[i]) <= retention + 1 + setBacks
      <4>1. /\ setBacks \in Nat /\ retention \in Retentions
            /\ Fits(history[i], setBacks, 0) /\ Fits(history[i], setBacks, 1)
        BY <3>1, RecordsOf DEF IInv, KindInv
      <4>2. CASE i \in sampled
        <5>1. Fits(<<0>> \o history[i], setBacks, 1)
          BY <4>1, RecordFits
        <5>2. /\ Fits(Prune(<<0>> \o history[i], retention), setBacks, 1)
              /\ Len(Prune(<<0>> \o history[i], retention)) <= retention + 1 + setBacks
          BY <4>1, <5>1, PruneFits
        <5>3. history'[i] = Prune(<<0>> \o history[i], retention)
          BY <1>1, <2>3, <4>2 DEF Written
        <5>4. QED
          BY <5>2, <5>3
      <4>3. CASE i \notin sampled
        <5>1. /\ Fits(Prune(history[i], retention), setBacks, 1)
              /\ Len(Prune(history[i], retention)) <= retention + 1 + setBacks
          BY <4>1, PruneFits
        <5>2. history'[i] = Prune(history[i], retention)
          BY <1>1, <2>3, <4>3
        <5>3. QED
          BY <5>1, <5>2
      <4>4. QED
        BY <4>2, <4>3
    <3>3. HistoryInv'
      BY <1>1, <2>1, <3>2 DEF HistoryInv
    <3>4. HistoryBounded'
      BY <1>1, <3>2 DEF HistoryBounded
    <3>5. QED
      BY <3>3, <3>4
  <2>4. QED
    BY <2>2, <2>3
<1>5. ClearInv'
  <2>1. OldTick' = 0
    BY <1>2 DEF OldTick
  <2>2. QED
    BY <1>1, <2>1, OldKept
<1>6. QED
  BY <1>3, <1>4, <1>5 DEF IInv

LEMMA EmitKeeps ==
    ASSUME IInv, Emit
    PROVE  IInv'
<1>1. /\ at = "emit" /\ at' = "sleep" /\ tick' = NoTick
      /\ queue' = IF connected THEN Append(queue, tick) ELSE queue
      /\ connected => Len(queue) < MaxQueue
      /\ UNCHANGED <<connected, warm, selectVars, timeVars>>
  BY DEF Emit
<1>2. tick \in Ticks /\ queue \in Seq(Ticks) /\ Len(queue) \in Nat /\ Len(queue) <= MaxQueue
  BY LenProperties DEF IInv, KindInv
<1>3. queue' \in Seq(Ticks) /\ Len(queue') <= MaxQueue
  <2>1. CASE connected
    BY <1>1, <1>2, <2>1, AppendProperties
  <2>2. CASE ~connected
    BY <1>1, <1>2, <2>2
  <2>3. QED
    BY <2>1, <2>2
<1>4. KindInv'
  BY <1>1, <1>3, NoTickIsATick DEF IInv, KindInv, selectVars, timeVars
<1>5. HistoryInv' /\ HistoryBounded'
  <2>1. Slack' = 1
    BY <1>1 DEF Slack
  <2>2. QED
    BY <1>1, <2>1, RecordsKept DEF timeVars
<1>6. CountIn(queue', OldTicks) <= CountIn(queue, OldTicks) + OldTick
  <2>1. CountIn(queue, OldTicks) \in Nat
    BY <1>2, CountType
  <2>2. CASE connected
    <3>1. queue' = queue \o <<tick>>
      BY <1>1, <1>2, <2>2, AppendIsConcat
    <3>2. CountIn(queue \o <<tick>>, OldTicks) = CountIn(queue, OldTicks) + CountIn(<<tick>>, OldTicks)
      <4>1. <<tick>> \in Seq(Ticks)
        BY <1>2
      <4>2. QED
        BY <1>2, <4>1, CountConcat
    <3>3. CountIn(<<tick>>, OldTicks) = IF tick \in OldTicks THEN 1 ELSE 0
      BY CountSingle
    <3>4. OldTick = IF tick \in OldTicks THEN 1 ELSE 0
      BY <1>1, <1>2 DEF OldTick, OldTicks
    <3>5. QED
      BY <2>1, <3>1, <3>2, <3>3, <3>4
  <2>3. CASE ~connected
    BY <1>1, <2>1, <2>3 DEF OldTick
  <2>4. QED
    BY <2>2, <2>3
<1>7. ClearInv'
  <2>1. ASSUME NEW i \in Iface
        PROVE  chart[i].old + CountIn(queue', OldTicks) + OldTick' <= inFlight
    <3>1. /\ chart[i].old \in Nat /\ CountIn(queue, OldTicks) \in Nat /\ inFlight \in Nat
          /\ CountIn(queue', OldTicks) \in Nat
      BY <1>2, <1>3, CountType DEF IInv, KindInv
    <3>2. chart[i].old + CountIn(queue, OldTicks) + OldTick <= inFlight
      BY DEF IInv, ClearInv
    <3>3. OldTick' = 0 /\ (OldTick = 0 \/ OldTick = 1)
      BY <1>1 DEF OldTick
    <3>4. QED
      BY <1>6, <3>1, <3>2, <3>3
  <2>2. chart' = chart /\ inFlight' = inFlight
    BY <1>1 DEF timeVars
  <2>3. QED
    BY <2>1, <2>2 DEF ClearInv
<1>8. QED
  BY <1>4, <1>5, <1>7 DEF IInv

LEMMA FailKeeps ==
    ASSUME IInv, Fail
    PROVE  IInv'
<1>1. KindInv'
  BY NoTickIsATick DEF IInv, KindInv, Fail, selectVars, timeVars
<1>2. HistoryInv' /\ HistoryBounded'
  <2>1. Slack' = 1
    BY DEF Fail, Slack
  <2>2. QED
    BY <2>1, RecordsKept DEF Fail, timeVars
<1>3. ClearInv'
  <2>1. OldTick' = 0
    BY DEF Fail, OldTick
  <2>2. QED
    BY <2>1, OldKept DEF Fail, timeVars
<1>4. QED
  BY <1>1, <1>2, <1>3 DEF IInv

LEMMA FinishKeeps ==
    ASSUME IInv, Finish
    PROVE  IInv'
<1>1. KindInv'
  BY DEF IInv, KindInv, Finish, selectVars, timeVars
<1>2. HistoryInv' /\ HistoryBounded'
  <2>1. Slack' = 1
    BY DEF Finish, Slack
  <2>2. QED
    BY <2>1, RecordsKept DEF Finish, timeVars
<1>3. ClearInv'
  <2>1. OldTick' = 0
    BY DEF Finish, OldTick
  <2>2. QED
    BY <2>1, OldKept DEF Finish, timeVars
<1>4. QED
  BY <1>1, <1>2, <1>3 DEF IInv

-----------------------------------------------------------------------------
(* The window. *)

LEMMA StartKeeps ==
    ASSUME IInv, Start
    PROVE  IInv'
<1>1. KindInv'
  BY DEF IInv, KindInv, Start, selectVars
<1>2. HistoryInv' /\ HistoryBounded'
  <2>1. Slack' = 1
    BY DEF Start, Slack
  <2>2. /\ setBacks' = setBacks /\ retention' = retention /\ retention \in Retentions
        /\ history' = [i \in Iface |-> Prune(history[i], retention)]
    BY DEF Start, IInv, KindInv
  <2>3. QED
    BY <2>1, <2>2, RecordsPruned
<1>3. ClearInv'
  <2>1. OldTick' = 0
    BY DEF Start, OldTick
  <2>2. QED
    BY <2>1, OldKept DEF Start
<1>4. QED
  BY <1>1, <1>2, <1>3 DEF IInv

LEMMA StopKeeps ==
    ASSUME IInv, Stop
    PROVE  IInv'
<1>1. queue' = queue \/ queue' = << >>
  BY DEF Stop
<1>2. UNCHANGED <<at, warm, tick, selectVars, timeVars>> /\ connected' = FALSE
  BY DEF Stop
<1>3. KindInv'
  <2>1. queue' \in Seq(Ticks) /\ Len(queue') <= MaxQueue
    <3>1. CASE queue' = queue
      BY <3>1 DEF IInv, KindInv
    <3>2. CASE queue' = << >>
      <4>1. << >> \in Seq(Ticks) /\ Len(<< >>) = 0
        OBVIOUS
      <4>2. QED
        BY <3>2, <4>1
    <3>3. QED
      BY <1>1, <3>1, <3>2
  <2>2. QED
    BY <1>2, <2>1 DEF IInv, KindInv, selectVars, timeVars
<1>4. HistoryInv' /\ HistoryBounded'
  <2>1. Slack' = Slack
    BY <1>2 DEF Slack
  <2>2. QED
    BY <1>2, <2>1, RecordsKept DEF timeVars
<1>5. ClearInv'
  <2>1. CountIn(queue', OldTicks) = CountIn(queue, OldTicks) \/ CountIn(queue', OldTicks) = 0
    BY <1>1, CountEmpty
  <2>2. ASSUME NEW i \in Iface
        PROVE  chart[i].old + CountIn(queue', OldTicks) + OldTick <= inFlight
    <3>1. chart[i].old \in Nat /\ CountIn(queue, OldTicks) \in Nat /\ inFlight \in Nat
      BY CountType DEF IInv, KindInv
    <3>2. chart[i].old + CountIn(queue, OldTicks) + OldTick <= inFlight
      BY DEF IInv, ClearInv
    <3>3. OldTick = 0 \/ OldTick = 1
      BY DEF OldTick
    <3>4. QED
      BY <2>1, <3>1, <3>2, <3>3
  <2>3. OldTick' = OldTick /\ chart' = chart /\ inFlight' = inFlight
    BY <1>2 DEF OldTick, timeVars
  <2>4. QED
    BY <2>2, <2>3 DEF ClearInv
<1>6. QED
  BY <1>3, <1>4, <1>5 DEF IInv

\* A snapshot from before Clear leaves the queue and comes into the chart.
LEMMA RenderKeeps ==
    ASSUME IInv, Render
    PROVE  IInv'
<1> DEFINE s == Head(queue)
<1>1. /\ queue # << >> /\ queue' = Tail(queue)
      /\ latest' = [list |-> s.list, enabled |-> s.enabled]
      /\ table' = Rows(s.list, s.enabled, showAll)
      /\ chart' = [i \in Iface |-> IF i \in s.sampled THEN Plotted(chart[i], s) ELSE chart[i]]
      /\ UNCHANGED <<workerVars, overrides, showAll, retention, history, setBacks, inFlight>>
  BY DEF Render
<1>2. /\ queue \in Seq(Ticks) /\ s \in Ticks /\ queue' \in Seq(Ticks)
      /\ Len(queue) \in Nat /\ Len(queue') = Len(queue) - 1 /\ Len(queue) <= MaxQueue
  BY <1>1, HeadTailProperties DEF IInv, KindInv
<1>3. CountIn(queue, OldTicks) = CountIn(<<s>>, OldTicks) + CountIn(queue', OldTicks)
  <2>1. queue = <<s>> \o queue'
    <3>1. <<s>> \in Seq(Ticks)
      BY <1>2
    <3>2. /\ <<s>> \o queue' \in Seq(Ticks) /\ Len(<<s>> \o queue') = Len(queue)
      BY <1>2, <3>1, ConcatProperties
    <3>3. ASSUME NEW k \in 1..Len(queue) PROVE queue[k] = (<<s>> \o queue')[k]
      <4>1. (<<s>> \o queue')[k] = IF k <= 1 THEN s ELSE queue'[k - 1]
        BY <1>2, <3>1, ConcatProperties
      <4>2. CASE k = 1
        BY <1>2, <4>1, <4>2
      <4>3. CASE k # 1
        <5>1. k - 1 \in 1..Len(queue') /\ (k - 1) + 1 = k
          BY <1>2, <4>3
        <5>2. queue'[k - 1] = queue[(k - 1) + 1]
          BY <1>1, <1>2, <5>1, HeadTailProperties
        <5>3. QED
          BY <4>1, <4>3, <5>1, <5>2
      <4>4. QED
        BY <4>2, <4>3
    <3>4. QED
      BY <1>2, <3>2, <3>3, SeqEqual
  <2>2. <<s>> \in Seq(Ticks)
    BY <1>2
  <2> HIDE DEF s
  <2>3. CountIn(<<s>> \o queue', OldTicks) = CountIn(<<s>>, OldTicks) + CountIn(queue', OldTicks)
    BY <1>2, <2>2, CountConcat
  <2>4. QED
    BY <2>1, <2>3
<1> HIDE DEF s
<1>4. CountIn(<<s>>, OldTicks) = IF s.old THEN 1 ELSE 0
  BY <1>2, CountSingle DEF OldTicks
<1>5. ASSUME NEW i \in Iface
      PROVE  /\ chart'[i] \in [old : Nat, new : BOOLEAN]
             /\ chart'[i].old = chart[i].old \/ (s.old /\ chart'[i].old = chart[i].old + 1)
  <2>1. chart[i] \in [old : Nat, new : BOOLEAN]
    BY DEF IInv, KindInv
  <2>2. chart'[i] = IF i \in s.sampled THEN Plotted(chart[i], s) ELSE chart[i]
    BY <1>1
  <2>3. CASE i \notin s.sampled
    <3>1. chart'[i] = chart[i]
      BY <2>2, <2>3
    <3>2. QED
      BY ONLY <2>1, <3>1
  <2>4. CASE i \in s.sampled /\ s.old
    <3>1. chart'[i] = [chart[i] EXCEPT !.old = @ + 1]
      BY <2>2, <2>4 DEF Plotted
    <3>2. chart'[i] \in [old : Nat, new : BOOLEAN] /\ chart'[i].old = chart[i].old + 1
      BY ONLY <2>1, <3>1
    <3>3. QED
      BY <2>4, <3>2
  <2>5. CASE i \in s.sampled /\ ~s.old
    <3>1. chart'[i] = [chart[i] EXCEPT !.new = TRUE]
      BY <2>2, <2>5 DEF Plotted
    <3>2. chart'[i] \in [old : Nat, new : BOOLEAN] /\ chart'[i].old = chart[i].old
      BY ONLY <2>1, <3>1
    <3>3. QED
      BY <3>2
  <2>6. QED
    BY <2>3, <2>4, <2>5
<1>6. KindInv'
  <2>1. chart' \in [Iface -> [old : Nat, new : BOOLEAN]]
    BY <1>1, <1>5
  <2>2. s.enabled \subseteq DOMAIN s.list /\ DOMAIN s.list \subseteq Iface
    BY <1>2 DEF Ticks, Snapshot
  <2>3. /\ latest'.enabled \subseteq DOMAIN latest'.list /\ DOMAIN latest'.list \subseteq Iface
        /\ DOMAIN table' \subseteq DOMAIN latest'.list
    BY <1>1, <2>2, RowsOfList
  <2>4. queue' \in Seq(Ticks) /\ Len(queue') <= MaxQueue
    BY <1>2
  <2>5. QED
    BY <1>1, <2>1, <2>3, <2>4 DEF IInv, KindInv, workerVars
<1>7. HistoryInv' /\ HistoryBounded'
  <2>1. Slack' = Slack
    BY <1>1 DEF Slack, workerVars
  <2>2. QED
    BY <1>1, <2>1, RecordsKept
<1>8. ClearInv'
  <2>1. ASSUME NEW i \in Iface
        PROVE  chart'[i].old + CountIn(queue', OldTicks) + OldTick <= inFlight
    <3>1. /\ chart[i].old \in Nat /\ CountIn(queue', OldTicks) \in Nat /\ inFlight \in Nat
      BY <1>2, CountType DEF IInv, KindInv
    <3>2. chart[i].old + CountIn(queue, OldTicks) + OldTick <= inFlight
      BY DEF IInv, ClearInv
    <3>3. OldTick = 0 \/ OldTick = 1
      BY DEF OldTick
    <3>4. QED
      BY <1>3, <1>4, <1>5, <3>1, <3>2, <3>3
  <2>2. OldTick' = OldTick /\ inFlight' = inFlight
    BY <1>1 DEF OldTick, workerVars
  <2>3. QED
    BY <2>1, <2>2 DEF ClearInv
<1>9. QED
  BY <1>6, <1>7, <1>8 DEF IInv

\* The user selects.
LEMMA SelectKeeps ==
    ASSUME IInv,
           \/ \E i \in Iface : Click(i)
           \/ SelectPhysicalDefaults \/ DeselectAll \/ ToggleShowAll
    PROVE  IInv'
<1>1. UNCHANGED <<workerVars, queue, latest, timeVars>> /\ showAll' \in BOOLEAN
  BY DEF Click, SelectPhysicalDefaults, DeselectAll, ChooseMany, ToggleShowAll, IInv, KindInv
<1>2. /\ DOMAIN overrides' \subseteq Iface
      /\ \A i \in DOMAIN overrides' : overrides'[i] \in BOOLEAN
  <2>1. ASSUME NEW choices, DOMAIN choices \subseteq Iface,
               \A i \in DOMAIN choices : choices[i] \in BOOLEAN,
               overrides' = With(overrides, choices)
        PROVE  /\ DOMAIN overrides' \subseteq Iface
               /\ \A i \in DOMAIN overrides' : overrides'[i] \in BOOLEAN
    BY <2>1 DEF With, IInv, KindInv
  <2>2. ASSUME NEW i \in Iface, Click(i)
        PROVE  \E choices : /\ DOMAIN choices \subseteq Iface
                            /\ \A j \in DOMAIN choices : choices[j] \in BOOLEAN
                            /\ overrides' = With(overrides, choices)
    <3> DEFINE choices == [j \in {i} |-> ~table[i]]
    <3>1. overrides' = With(overrides, choices)
      BY <2>2 DEF Click, Chosen
    <3>2. DOMAIN choices \subseteq Iface /\ \A j \in DOMAIN choices : choices[j] \in BOOLEAN
      OBVIOUS
    <3> HIDE DEF choices
    <3>3. QED
      BY <3>1, <3>2
  <2>3. ASSUME SelectPhysicalDefaults
        PROVE  \E choices : /\ DOMAIN choices \subseteq Iface
                            /\ \A j \in DOMAIN choices : choices[j] \in BOOLEAN
                            /\ overrides' = With(overrides, choices)
    <3> DEFINE choices == [j \in DOMAIN latest.list |-> EnabledByDefault(latest.list[j])]
    <3>1. overrides' = With(overrides, choices)
      BY <2>3 DEF SelectPhysicalDefaults, ChooseMany, PhysicalChosen
    <3>2. DOMAIN choices \subseteq Iface
      BY DEF IInv, KindInv
    <3>3. \A t : EnabledByDefault(t) \in BOOLEAN
      BY SMT DEF EnabledByDefault
    <3>4. \A j \in DOMAIN choices : choices[j] \in BOOLEAN
      BY <3>3
    <3> HIDE DEF choices
    <3>5. QED
      BY <3>1, <3>2, <3>4
  <2>4. ASSUME DeselectAll
        PROVE  \E choices : /\ DOMAIN choices \subseteq Iface
                            /\ \A j \in DOMAIN choices : choices[j] \in BOOLEAN
                            /\ overrides' = With(overrides, choices)
    <3> DEFINE choices == [j \in DOMAIN latest.list |-> FALSE]
    <3>1. overrides' = With(overrides, choices)
      BY <2>4 DEF DeselectAll, ChooseMany, NoneChosen
    <3>2. DOMAIN choices \subseteq Iface /\ \A j \in DOMAIN choices : choices[j] \in BOOLEAN
      BY DEF IInv, KindInv
    <3> HIDE DEF choices
    <3>3. QED
      BY <3>1, <3>2
  <2>5. ASSUME ToggleShowAll PROVE overrides' = overrides
    BY <2>5 DEF ToggleShowAll
  <2>6. QED
    BY <2>1, <2>2, <2>3, <2>4, <2>5 DEF IInv, KindInv
<1>3. DOMAIN table' \subseteq DOMAIN latest.list
  <2>1. ASSUME NEW i \in Iface, Click(i) PROVE DOMAIN table' = DOMAIN table
    BY <2>1 DEF Click
  <2>2. ASSUME SelectPhysicalDefaults \/ DeselectAll \/ ToggleShowAll
        PROVE  \E enabled, all : table' = Rows(latest.list, enabled, all)
    BY <2>2 DEF SelectPhysicalDefaults, DeselectAll, ChooseMany, ToggleShowAll
  <2>3. QED
    BY <2>1, <2>2, RowsOfList DEF IInv, KindInv
<1>4. KindInv'
  BY <1>1, <1>2, <1>3 DEF IInv, KindInv, workerVars, timeVars
<1>5. HistoryInv' /\ HistoryBounded'
  <2>1. Slack' = Slack
    BY <1>1 DEF Slack, workerVars
  <2>2. QED
    BY <1>1, <2>1, RecordsKept DEF timeVars
<1>6. ClearInv'
  <2>1. OldTick' = OldTick
    BY <1>1 DEF OldTick, workerVars
  <2>2. QED
    BY <1>1, <2>1, OldKept DEF timeVars
<1>7. QED
  BY <1>4, <1>5, <1>6 DEF IInv

LEMMA SetRetentionKeeps ==
    ASSUME IInv, SetRetention
    PROVE  IInv'
<1>1. retention' \in Retentions
  BY DEF SetRetention
<1>2. KindInv'
  BY <1>1 DEF IInv, KindInv, SetRetention, workerVars, selectVars
<1>3. HistoryInv' /\ HistoryBounded'
  <2>1. Slack' = Slack
    BY DEF SetRetention, Slack, workerVars
  <2>2. QED
    BY <1>1, <2>1, RecordsPruned DEF SetRetention
<1>4. ClearInv'
  <2>1. OldTick' = OldTick
    BY DEF SetRetention, OldTick, workerVars
  <2>2. QED
    BY <2>1, OldKept DEF SetRetention
<1>5. QED
  BY <1>2, <1>3, <1>4 DEF IInv

LEMMA AsOldIsATick ==
    ASSUME NEW s \in Ticks
    PROVE  AsOld(s) \in Ticks
  BY DEF AsOld, Ticks, Snapshot

\* Clear counts what is under way.
LEMMA ClearKeeps ==
    ASSUME IInv, Clear
    PROVE  IInv'
<1>1. /\ history' = NoRecords /\ chart' = NoPoints /\ inFlight' = UnderWay
      /\ queue' = [k \in DOMAIN queue |-> AsOld(queue[k])]
      /\ tick' = IF at = "emit" THEN AsOld(tick) ELSE tick
      /\ UNCHANGED <<at, connected, warm, selectVars, retention, setBacks>>
  BY DEF Clear, PointsCleared
<1>2. queue \in Seq(Ticks) /\ Len(queue) \in Nat /\ Len(queue) <= MaxQueue
  BY LenProperties DEF IInv, KindInv
<1>3. queue' \in Seq(Ticks) /\ Len(queue') = Len(queue)
  <2>1. \A k \in 1..Len(queue) : AsOld(queue[k]) \in Ticks
    BY <1>2, AsOldIsATick
  <2>2. QED
    BY <1>1, <1>2, <2>1
<1>4. inFlight' \in 0..(MaxQueue + 1) /\ OldTick' \in {0, 1} /\ Len(queue) + OldTick' <= inFlight'
  BY <1>1, <1>2 DEF UnderWay, OldTick
<1>5. KindInv'
  <2>1. tick' \in Ticks
    BY <1>1, AsOldIsATick DEF IInv, KindInv
  <2>2. chart' \in [Iface -> [old : Nat, new : BOOLEAN]]
    BY <1>1 DEF NoPoints
  <2>3. QED
    BY <1>1, <1>2, <1>3, <1>4, <2>1, <2>2 DEF IInv, KindInv, NoRecords, selectVars
<1>6. HistoryInv'
  <2>1. Slack' \in {0, 1} /\ setBacks' \in Nat
    BY <1>1, MaxRetentionIsMost DEF Slack, IInv, KindInv
  <2>2. \A i \in Iface : history'[i] = << >>
    BY <1>1 DEF NoRecords
  <2>3. QED
    BY <2>1, <2>2, NoRecordFits DEF HistoryInv
<1>7. HistoryBounded'
  <2>1. retention' \in Nat /\ setBacks' \in Nat
    BY <1>1 DEF IInv, KindInv
  <2>2. \A i \in Iface : Len(history'[i]) = 0
    BY <1>1 DEF NoRecords
  <2>3. QED
    BY <2>1, <2>2 DEF HistoryBounded
<1>8. ClearInv'
  <2>1. CountIn(queue', OldTicks) \in Nat /\ CountIn(queue', OldTicks) <= Len(queue)
    BY <1>3, CountType
  <2>2. \A i \in Iface : chart'[i].old = 0
    BY <1>1 DEF NoPoints
  <2>3. QED
    BY <1>2, <1>4, <2>1, <2>2 DEF ClearInv
<1>9. QED
  BY <1>5, <1>6, <1>7, <1>8 DEF IInv

-----------------------------------------------------------------------------
(* The clock. *)

LEMMA ElapseKeeps ==
    ASSUME IInv, Elapse
    PROVE  IInv'
<1>1. KindInv'
  BY DEF IInv, KindInv, Elapse, selectVars
<1>2. ASSUME NEW i \in Iface
      PROVE  Fits(history'[i], setBacks, 0) /\ Len(history'[i]) = Len(history[i])
  <2>1. history'[i] = [k \in DOMAIN history[i] |->
                          IF history[i][k] < MaxAge THEN history[i][k] + 1 ELSE MaxAge]
    BY DEF Elapse
  <2>2. setBacks \in Nat /\ Slack \in {0, 1} /\ Fits(history[i], setBacks, Slack)
    BY RecordsOf, SlackKinds
  <2>3. QED
    BY <2>1, <2>2, ElapseFits
<1>3. HistoryInv'
  <2>1. ASSUME NEW i \in Iface PROVE Fits(history'[i], setBacks, Slack')
    <3>1. setBacks \in Nat /\ Slack' \in {0, 1}
      BY RecordsOf DEF Slack
    <3>2. QED
      BY <1>2, <3>1, FitsWithSlack
  <2>2. setBacks' = setBacks
    BY DEF Elapse
  <2>3. QED
    BY <2>1, <2>2 DEF HistoryInv
<1>4. HistoryBounded'
  BY <1>2 DEF Elapse, IInv, HistoryBounded
<1>5. ClearInv'
  <2>1. OldTick' = 0
    BY DEF Elapse, OldTick
  <2>2. QED
    BY <2>1, OldKept DEF Elapse
<1>6. QED
  BY <1>1, <1>3, <1>4, <1>5 DEF IInv

LEMMA SetBackKeeps ==
    ASSUME IInv, SetBack
    PROVE  IInv'
<1>1. KindInv'
  BY DEF IInv, KindInv, SetBack, workerVars, selectVars
<1>2. setBacks' = setBacks + 1 /\ retention' = retention /\ Slack' = Slack
  BY DEF SetBack, Slack, workerVars
<1>3. ASSUME NEW i \in Iface
      PROVE  Fits(history'[i], setBacks + 1, Slack) /\ Len(history'[i]) = Len(history[i])
  <2>1. history'[i] = [k \in DOMAIN history[i] |-> history[i][k] - 1]
    BY DEF SetBack
  <2>2. setBacks \in Nat /\ Slack \in {0, 1} /\ Fits(history[i], setBacks, Slack)
    BY RecordsOf, SlackKinds
  <2>3. Len(history[i]) <= MaxRetention + 1 + setBacks
    BY RecordsOf, MaxRetentionIsMost
  <2>4. QED
    BY <2>1, <2>2, <2>3, SetBackFits
<1>4. HistoryInv'
  BY <1>2, <1>3 DEF HistoryInv
<1>5. HistoryBounded'
  <2>1. ASSUME NEW i \in Iface PROVE Len(history'[i]) <= retention + 1 + (setBacks + 1)
    BY <1>3, RecordsOf
  <2>2. QED
    BY <1>2, <2>1 DEF HistoryBounded
<1>6. ClearInv'
  <2>1. OldTick' = OldTick
    BY DEF SetBack, OldTick, workerVars
  <2>2. QED
    BY <2>1, OldKept DEF SetBack
<1>7. QED
  BY <1>1, <1>4, <1>5, <1>6 DEF IInv

LEMMA StutterKeeps ==
    ASSUME IInv, UNCHANGED vars
    PROVE  IInv'
<1>1. KindInv'
  BY DEF IInv, KindInv, vars, workerVars, selectVars, timeVars
<1>2. HistoryInv' /\ HistoryBounded'
  <2>1. Slack' = Slack
    BY DEF Slack, vars, workerVars
  <2>2. QED
    BY <2>1, RecordsKept DEF vars, timeVars
<1>3. ClearInv'
  <2>1. OldTick' = OldTick
    BY DEF OldTick, vars, workerVars
  <2>2. QED
    BY <2>1, OldKept DEF vars, timeVars
<1>4. QED
  BY <1>1, <1>2, <1>3 DEF IInv

LEMMA StepKeeps ==
    ASSUME IInv, [Next]_vars
    PROVE  IInv'
<1>1. CASE Measures
  BY <1>1, MeasureKeeps DEF Measures
<1>2. CASE Emit \/ Fail \/ Finish \/ Start \/ Stop \/ Render
  BY <1>2, EmitKeeps, FailKeeps, FinishKeeps, StartKeeps, StopKeeps, RenderKeeps
<1>3. CASE SelectPhysicalDefaults \/ DeselectAll \/ ToggleShowAll \/ \E i \in Iface : Click(i)
  BY <1>3, SelectKeeps
<1>4. CASE SetRetention \/ Clear \/ Elapse \/ SetBack
  BY <1>4, SetRetentionKeeps, ClearKeeps, ElapseKeeps, SetBackKeeps
<1>5. CASE UNCHANGED vars
  BY <1>5, StutterKeeps
<1>6. QED
  BY <1>1, <1>2, <1>3, <1>4, <1>5 DEF Next

-----------------------------------------------------------------------------
LEMMA Invariance == Spec => []IInv
  BY InitEstablishes, StepKeeps, PTL DEF Spec

\* Every variable keeps to its kind: no record gets older than the oldest
\* that is kept, and the queue and the table stay those of a list.
THEOREM TypeCorrect == Spec => []TypeOK
<1>1. IInv => TypeOK
  <2> SUFFICES ASSUME IInv PROVE TypeOK
    OBVIOUS
  <2>1. history \in [Iface -> Seq(Age)]
    <3>1. ASSUME NEW i \in Iface PROVE history[i] \in Seq(Age)
      <4>1. history[i] \in Seq(Ages(setBacks))
        BY DEF IInv, HistoryInv, Fits
      <4>2. Ages(setBacks) \subseteq Age
        BY MaxRetentionIsMost DEF Ages, Age, MaxAge, IInv, KindInv
      <4>3. QED
        BY <4>1, <4>2
    <3>2. history = [i \in Iface |-> history[i]]
      BY DEF IInv, KindInv
    <3>3. QED
      BY <3>1, <3>2
  <2>2. Snapshot(tick) /\ \A k \in DOMAIN queue : Snapshot(queue[k])
    BY DEF IInv, KindInv, Ticks
  <2>3. QED
    BY <2>1, <2>2 DEF IInv, KindInv, TypeOK
<1>2. QED
  BY <1>1, Invariance, PTL

\* The store does not grow: of an interface it holds at most a record for each
\* unit of the retention and the present one, and one more for each unit the
\* clock was set back (storage/history_store.py, _prune_locked).
THEOREM HistoryAlwaysBounded == Spec => []HistoryBounded
<1>1. IInv => HistoryBounded
  BY DEF IInv
<1>2. QED
  BY <1>1, Invariance, PTL

\* After Clear, only what was under way comes back into the chart
\* (gui/main_window.py, _on_clear_history).
THEOREM ClearAlwaysHolds == Spec => []ClearHolds
<1>1. IInv => ClearHolds
  <2> SUFFICES ASSUME IInv, NEW i \in Iface
      PROVE chart[i].old + Cardinality({k \in DOMAIN queue : queue[k].old}) <= inFlight
    BY DEF ClearHolds
  <2>1. queue \in Seq(Ticks) /\ chart[i].old \in Nat /\ inFlight \in Nat
    BY DEF IInv, KindInv
  <2>2. \A k \in DOMAIN queue : queue[k] \in Ticks
    BY <2>1
  <2>3. {k \in DOMAIN queue : queue[k].old} = Places(queue, OldTicks)
    BY <2>2 DEF Places, OldTicks
  <2>4. CountIn(queue, OldTicks) \in Nat /\ (OldTick = 0 \/ OldTick = 1)
    BY <2>1, CountType DEF OldTick
  <2>5. chart[i].old + CountIn(queue, OldTicks) + OldTick <= inFlight
    BY DEF IInv, ClearInv
  <2>6. Cardinality({k \in DOMAIN queue : queue[k].old}) = CountIn(queue, OldTicks)
    BY <2>3 DEF CountIn
  <2>7. QED
    BY <2>1, <2>4, <2>5, <2>6
<1>2. QED
  BY <1>1, Invariance, PTL
=============================================================================
