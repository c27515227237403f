---------------------------- MODULE TrafficProofs ----------------------------
(***************************************************************************)
(* Theorems about Traffic, for any interfaces, selection, traffic, resets  *)
(* and failures.                                                           *)
(***************************************************************************)
EXTENDS Traffic, FoldLemmas

\* What the worker remembers of each counter and what has happened to it since.
BaselineInv ==
    /\ DOMAIN previous = lastRead
    /\ \A i \in DOMAIN previous, d \in Direction :
           /\ i \notin reset => count[i][d] = previous[i][d] + moved[i][d]
           /\ i \in reset => count[i][d] <= moved[i][d]

TrueFor(bytes, i) ==
    \A d \in Direction :
        /\ bytes[d] <= span.moved[i][d]
        /\ i \notin span.reset => bytes[d] = span.moved[i][d]

\* The rates of a tick, between the reading and the record.
RatesInv ==
    /\ \A i \in DOMAIN rates : ~rates[i].first => TrueFor(rates[i].bytes, i)
    /\ at \in {"record", "emit"} =>
           /\ enabled \cap lastRead \subseteq DOMAIN rates
           /\ \A i \in DOMAIN rates : rates[i].first => i \notin span.lastRead

\* Before the counters are read there is nothing to show or to write.
BlankInv ==
    /\ at \in {"discover", "count"} =>
           DOMAIN rates \cup DOMAIN shares \cup DOMAIN typeShares \cup DOMAIN connections = {}
    /\ at # "emit" => DOMAIN written = {}

IInv ==
    /\ TypeOK /\ BaselineInv /\ RatesInv /\ BlankInv
    /\ RecordsAreTrue /\ NothingMissed /\ OneSelection /\ SharesAddUp

-----------------------------------------------------------------------------
(* Shares. *)

\* Parts of a total, which is their sum, add up to it.
LEMMA SharesOfTotal ==
    ASSUME NEW S, IsFiniteSet(S), NEW f, \A x \in S : f[x] \in Nat, NEW m,
           NEW s, DOMAIN s = S,
           \A x \in S : s[x][m] = Share(f[x], SumOf(Restrict(f, S)))
    PROVE  /\ AddsUp(s, m)
           /\ \A x \in S : s[x][m].part = f[x]
<1> DEFINE total == SumOf(Restrict(f, S))
<1>1. total \in Nat
  BY SumType
<1>2. \A x \in S : f[x] <= total
  BY SumBounds
<1>3. \A x \in S : s[x][m] = Share(f[x], total)
  OBVIOUS
<1> HIDE DEF total
<1>4. ASSUME NEW x \in S
      PROVE  s[x][m].part = f[x] /\ (total > 0 => s[x][m].of = total)
  <2>1. /\ Share(f[x], total).part = f[x]
        /\ total > 0 => Share(f[x], total).of = total
    BY <1>1, <1>2 DEF Share
  <2>2. QED
    BY <1>3, <2>1
<1>5. CASE total > 0
  <2>1. \A x \in S : s[x][m].of = total
    BY <1>4, <1>5
  <2>2. [x \in DOMAIN s |-> s[x][m].part] = Restrict(f, S)
    BY <1>4 DEF Restrict
  <2>3. SumOf([x \in DOMAIN s |-> s[x][m].part]) = total
    BY <2>2 DEF total
  <2>4. QED
    BY <1>4, <2>1, <2>3 DEF AddsUp
<1>6. CASE total = 0
  BY <1>1, <1>2, <1>4, <1>6 DEF AddsUp
<1>7. QED
  BY <1>1, <1>5, <1>6

\* The shares of any rates add up, and each type has those of its interfaces.
LEMMA DistributionAddsUp ==
    ASSUME NEW r, IsFiniteSet(DOMAIN r), \A i \in DOMAIN r : r[i] \in Rate, NEW m \in Metric
    PROVE  /\ AddsUp(Distribution(r), m) /\ AddsUp(DistributionByType(r), m)
           /\ \A t \in DOMAIN DistributionByType(r) :
                  DistributionByType(r)[t][m].part =
                  SumOf([i \in {j \in DOMAIN r : TypeIn(j) = t} |-> Distribution(r)[i][m].part])
<1> DEFINE S == DOMAIN r
           f == [i \in S |-> Amount(r[i], m)]
           K == {TypeIn(i) : i \in S}
           part == [t \in K |-> {i \in S : TypeIn(i) = t}]
           q == [t \in K |-> SumOf(Restrict(f, part[t]))]
           total == SumOf(Restrict(f, S))
<1>1. \A i \in S : f[i] \in Nat
  BY DEF Rate, Bytes, Direction, Metric, Amount
<1>2. IsFiniteSet(S) /\ IsFiniteSet(K)
  <2>1. [i \in S |-> TypeIn(i)] \in Surjection(S, K)
    BY DEF Surjection
  <2>2. QED
    BY <2>1, FS_Surjection
<1>3. \A T \in SUBSET S : AmountOf(r, T, m) = SumOf(Restrict(f, T))
  <2> TAKE T \in SUBSET S
  <2>1. [i \in T |-> Amount(r[i], m)] = Restrict(f, T)
    BY DEF Restrict
  <2>2. QED
    BY <2>1 DEF AmountOf
<1>4. /\ DOMAIN Distribution(r) = S
      /\ \A i \in S : Distribution(r)[i][m] = Share(f[i], total)
  BY <1>3 DEF Distribution
<1>5. DOMAIN DistributionByType(r) = K
  BY DEF DistributionByType
<1>6. ASSUME NEW t \in K PROVE DistributionByType(r)[t][m] = Share(q[t], total)
  <2>1. DistributionByType(r)[t][m] =
            Share(AmountOf(r, {i \in S : TypeIn(i) = t}, m), AmountOf(r, S, m))
    BY DEF DistributionByType
  <2>2. part[t] = {i \in S : TypeIn(i) = t}
    OBVIOUS
  <2>3. AmountOf(r, S, m) = total /\ AmountOf(r, part[t], m) = q[t]
    BY <1>3
  <2>4. QED
    BY <2>1, <2>2, <2>3
<1>7. \A t \in K : q[t] \in Nat
  <2> TAKE t \in K
  <2>1. part[t] \in SUBSET S /\ IsFiniteSet(part[t])
    BY FS_Subset
  <2> HIDE DEF f, part
  <2>2. SumOf(Restrict(f, part[t])) \in Nat
    BY <1>1, <2>1, SumType
  <2>3. QED
    BY <2>2
<1>8. SumOf(Restrict(q, K)) = total
  <2>1. /\ \A t \in K : part[t] \subseteq S
        /\ \A i \in S : \E t \in K : i \in part[t]
        /\ \A t, u \in K : t # u => part[t] \cap part[u] = {}
    OBVIOUS
  <2>2. \A t \in K : q[t] = SumOf(Restrict(f, part[t]))
    OBVIOUS
  <2> HIDE DEF S, K, f, q, part
  <2>3. \A i \in S : f[i] \in Int
    BY <1>1
  <2>4. QED
    BY <1>2, <2>1, <2>2, <2>3, SumByParts
<1>9. AddsUp(Distribution(r), m) /\ \A i \in S : Distribution(r)[i][m].part = f[i]
  <2> DEFINE s == Distribution(r)
  <2>1. DOMAIN s = S /\ \A i \in S : s[i][m] = Share(f[i], SumOf(Restrict(f, S)))
    BY <1>4
  <2> HIDE DEF f, S, K, s
  <2>2. IsFiniteSet(S) /\ \A i \in S : f[i] \in Nat
    BY <1>1, <1>2
  <2>3. DOMAIN s = S
    BY <2>1
  <2>4. \A i \in S : s[i][m] = Share(f[i], SumOf(Restrict(f, S)))
    BY <2>1
  <2>5. AddsUp(s, m)
    BY <2>2, <2>3, <2>4, SharesOfTotal
  <2>6. \A i \in S : s[i][m].part = f[i]
    BY <2>2, <2>3, <2>4, SharesOfTotal
  <2>7. QED
    BY <2>5, <2>6 DEF s
<1>10. AddsUp(DistributionByType(r), m) /\ \A t \in K : DistributionByType(r)[t][m].part = q[t]
  <2>1. \A t \in K : DistributionByType(r)[t][m] = Share(q[t], SumOf(Restrict(q, K)))
    BY <1>6, <1>8
  <2> HIDE DEF q, K
  <2>2. QED
    BY <1>2, <1>5, <1>7, <2>1, SharesOfTotal
<1>11. ASSUME NEW t \in K
       PROVE  DistributionByType(r)[t][m].part =
              SumOf([i \in {j \in DOMAIN r : TypeIn(j) = t} |-> Distribution(r)[i][m].part])
  <2>1. [i \in {j \in DOMAIN r : TypeIn(j) = t} |-> Distribution(r)[i][m].part] =
            Restrict(f, part[t])
    BY <1>9 DEF Restrict
  <2>2. QED
    BY <1>10, <2>1
<1>12. QED
  BY <1>5, <1>9, <1>10, <1>11

-----------------------------------------------------------------------------
USE TrafficAssumption

LEMMA EmptyDomain == DOMAIN Empty = {}
  BY DEF Empty

LEMMA InitEstablishes == Init => IInv
<1> SUFFICES ASSUME Init PROVE IInv
  OBVIOUS
<1>1. TypeOK
  BY EmptyDomain DEF Init, TypeOK, Zero, Bytes, NoSpan, Direction
<1>2. BaselineInv /\ RatesInv /\ BlankInv
  BY EmptyDomain DEF Init, BaselineInv, RatesInv, BlankInv
<1>3. RecordsAreTrue /\ NothingMissed
  BY EmptyDomain DEF Init, RecordsAreTrue, NothingMissed
<1>4. OneSelection
  BY EmptyDomain DEF Init, OneSelection
<1>5. SharesAddUp
  BY EmptyDomain DEF Init, SharesAddUp, AddsUp
<1>6. QED
  BY <1>1, <1>2, <1>3, <1>4, <1>5 DEF IInv

-----------------------------------------------------------------------------
(* Windows and the user. *)

\* The shares add up as long as none of them changes.
LEMMA SharesUnmoved ==
    ASSUME SharesAddUp, UNCHANGED <<found, shares, typeShares>>
    PROVE  SharesAddUp'
  BY DEF SharesAddUp, AddsUp

LEMMA WorkerUnmoved ==
    ASSUME IInv, UNCHANGED workerVars, UNCHANGED lastRead
    PROVE  /\ RatesInv' /\ BlankInv'
           /\ RecordsAreTrue' /\ NothingMissed' /\ OneSelection' /\ SharesAddUp'
<1>1. RatesInv' /\ BlankInv' /\ RecordsAreTrue' /\ NothingMissed' /\ OneSelection'
  BY DEF IInv, RatesInv, TrueFor, BlankInv, RecordsAreTrue, NothingMissed, OneSelection,
         workerVars, tickVars
<1>2. SharesAddUp'
  BY SharesUnmoved DEF IInv, workerVars, tickVars
<1>3. QED
  BY <1>1, <1>2

LEMMA TransferKeeps ==
    ASSUME IInv, NEW i \in Iface, NEW d \in Direction, Transfer(i, d)
    PROVE  IInv'
<1>1. TypeOK'
  BY DEF IInv, TypeOK, Transfer, Bytes, workerVars, tickVars
<1>2. ASSUME NEW j \in DOMAIN previous', NEW e \in Direction
      PROVE  /\ j \notin reset' => count'[j][e] = previous'[j][e] + moved'[j][e]
             /\ j \in reset' => count'[j][e] <= moved'[j][e]
  BY <1>2 DEF IInv, TypeOK, BaselineInv, Transfer, Bytes, workerVars
<1>3. BaselineInv'
  BY <1>2 DEF IInv, BaselineInv, Transfer, workerVars
<1>4. QED
  BY <1>1, <1>3, WorkerUnmoved DEF Transfer, IInv

LEMMA RestartKeeps ==
    ASSUME IInv, NEW i \in Iface, Restart(i)
    PROVE  IInv'
<1>1. TypeOK'
  BY DEF IInv, TypeOK, Restart, Bytes, Zero, workerVars, tickVars
<1>2. BaselineInv'
  BY DEF IInv, TypeOK, BaselineInv, Restart, Bytes, Zero, workerVars
<1>3. QED
  BY <1>1, <1>2, WorkerUnmoved DEF Restart, IInv

LEMMA RelistKeeps ==
    ASSUME IInv, NEW i \in Iface, Relist(i)
    PROVE  IInv'
<1>1. TypeOK'
  BY DEF IInv, TypeOK, Relist, workerVars, tickVars, ghostVars
<1>2. BaselineInv'
  BY DEF IInv, BaselineInv, Relist, workerVars, ghostVars
<1>3. QED
  BY <1>1, <1>2, WorkerUnmoved DEF Relist, IInv, ghostVars

LEMMA ChooseKeeps ==
    ASSUME IInv, NEW i \in Iface, Choose(i)
    PROVE  IInv'
<1>1. PICK choice \in Overrides[i] : overrides' = Chosen(overrides, i, choice)
  BY DEF Choose
<1>2. choice \in BOOLEAN
  BY <1>1
<1>3. /\ DOMAIN overrides' \subseteq Iface
      /\ \A j \in DOMAIN overrides' : overrides'[j] \in BOOLEAN
  BY <1>1, <1>2 DEF Chosen, With, IInv, TypeOK
<1>4. TypeOK'
  BY <1>3 DEF IInv, TypeOK, Choose, osVars, workerVars, tickVars, ghostVars
<1>5. BaselineInv'
  BY DEF IInv, BaselineInv, Choose, osVars, workerVars, ghostVars
<1>6. QED
  BY <1>4, <1>5, WorkerUnmoved DEF Choose, IInv, ghostVars

-----------------------------------------------------------------------------
(* The tick. *)

LEMMA DiscoverKeeps ==
    ASSUME IInv, NEW classified \in BOOLEAN, Discover(classified)
    PROVE  IInv'
<1>1. /\ DOMAIN found' \subseteq Iface /\ \A i \in DOMAIN found' : found'[i] \in Type
      /\ enabled' \subseteq DOMAIN found'
  BY DEF IInv, TypeOK, Discover, EnabledIn, Type
<1>2. TypeOK'
  BY <1>1 DEF IInv, TypeOK, Discover, osVars, ghostVars
<1>3. BaselineInv'
  BY DEF IInv, BaselineInv, Discover, osVars, ghostVars
<1>4. RatesInv' /\ BlankInv'
  BY DEF IInv, RatesInv, BlankInv, Discover
<1>5. RecordsAreTrue' /\ NothingMissed' /\ OneSelection'
  BY DEF IInv, BlankInv, RecordsAreTrue, NothingMissed, OneSelection, Discover
<1>6. SharesAddUp'
  BY DEF IInv, BlankInv, SharesAddUp, AddsUp, Discover
<1>7. QED
  BY <1>2, <1>3, <1>4, <1>5, <1>6 DEF IInv

\* What a reading gives: samples of interfaces, which are the next baseline.
LEMMA SamplesAreCounts ==
    ASSUME TypeOK, NEW works \in BOOLEAN
    PROVE  /\ DOMAIN Samples(works) \subseteq Iface
           /\ \A i \in DOMAIN Samples(works) :
                  Samples(works)[i] = count[i] /\ count[i] \in Bytes
  BY DEF TypeOK, Samples

\* The heart of the matter: since the baseline is the last reading, a delta
\* is the traffic since, or less if the counter has restarted.
LEMMA DeltaIsTrue ==
    ASSUME IInv, NEW i \in DOMAIN previous, NEW d \in Direction
    PROVE  /\ Delta(count[i][d], previous[i][d]) \in Nat
           /\ Delta(count[i][d], previous[i][d]) <= moved[i][d]
           /\ i \notin reset => Delta(count[i][d], previous[i][d]) = moved[i][d]
<1>1. /\ count[i][d] \in Nat /\ previous[i][d] \in Nat /\ moved[i][d] \in Nat
  BY DEF IInv, TypeOK, Bytes
<1>2. /\ i \notin reset => count[i][d] = previous[i][d] + moved[i][d]
      /\ i \in reset => count[i][d] <= moved[i][d]
  BY DEF IInv, BaselineInv
<1>3. QED
  BY <1>1, <1>2 DEF Delta

LEMMA DeltasAreTrue ==
    ASSUME IInv, NEW works \in BOOLEAN, NEW i \in DOMAIN Deltas(Samples(works))
    PROVE  LET r == Deltas(Samples(works))[i]
           IN  /\ i \in listed /\ r \in Rate /\ (r.first <=> i \notin DOMAIN previous)
               /\ ~r.first => \A d \in Direction :
                      /\ r.bytes[d] <= moved[i][d]
                      /\ i \notin reset => r.bytes[d] = moved[i][d]
<1> DEFINE r == Deltas(Samples(works))[i]
<1>1. i \in DOMAIN Samples(works) /\ i \in listed
  BY DEF Deltas, Samples
<1>2. Samples(works)[i] = count[i]
  BY <1>1, SamplesAreCounts DEF IInv
<1>3. /\ r = [first |-> i \notin DOMAIN previous, bytes |-> r.bytes]
      /\ r.bytes \in [Direction -> {r.bytes[d] : d \in Direction}]
      /\ \A d \in Direction :
             r.bytes[d] = IF i \in DOMAIN previous THEN Delta(count[i][d], previous[i][d]) ELSE 0
  BY <1>1, <1>2 DEF Deltas
<1>4. \A d \in Direction : r.bytes[d] \in Nat
  BY <1>3, DeltaIsTrue
<1>5. r.bytes \in Bytes
  BY <1>3, <1>4 DEF Bytes
<1>6. r.first \in BOOLEAN /\ (r.first <=> i \notin DOMAIN previous)
  <2>1. r.first = (i \notin DOMAIN previous)
    BY <1>1, Zenon DEF Deltas
  <2>2. QED
    BY <2>1, Zenon
<1>7. r \in Rate
  BY <1>3, <1>5, <1>6 DEF Rate
<1>8. ASSUME ~r.first, NEW d \in Direction
      PROVE  /\ r.bytes[d] <= moved[i][d]
             /\ i \notin reset => r.bytes[d] = moved[i][d]
  BY <1>3, <1>6, <1>8, DeltaIsTrue
<1> HIDE DEF r
<1>9. QED
  BY <1>1, <1>6, <1>7, <1>8 DEF r

LEMMA CountKeeps ==
    ASSUME IInv, NEW works \in BOOLEAN, Count(works)
    PROVE  IInv'
<1>1. /\ DOMAIN rates' = DOMAIN Samples(works) \cap enabled
      /\ \A i \in DOMAIN rates' :
             i \in DOMAIN Deltas(Samples(works)) /\ rates'[i] = Deltas(Samples(works))[i]
  BY DEF Count, OfEnabled, Deltas
<1>2. /\ previous' = Samples(works) /\ lastRead' = DOMAIN Samples(works)
      /\ moved' = [i \in Iface |-> Zero] /\ reset' = {}
      /\ span' = [moved |-> moved, reset |-> reset, lastRead |-> lastRead]
      /\ at = "count" /\ at' = "record"
      /\ UNCHANGED <<osVars, overrides, found, enabled, written>>
  BY DEF Count, Baseline
<1>3. TypeOK'
  <2>1. DOMAIN rates' \subseteq Iface /\ \A i \in DOMAIN rates' : rates'[i] \in Rate
    BY <1>1, DeltasAreTrue, SamplesAreCounts DEF IInv
  <2>2. DOMAIN previous' \subseteq Iface /\ \A i \in DOMAIN previous' : previous'[i] \in Bytes
    BY <1>2, SamplesAreCounts DEF IInv
  <2>3. /\ moved' \in [Iface -> Bytes] /\ reset' \subseteq Iface /\ lastRead' \subseteq Iface
        /\ span' \in [moved : [Iface -> Bytes], reset : SUBSET Iface, lastRead : SUBSET Iface]
    BY <1>2, SamplesAreCounts DEF IInv, TypeOK, Zero, Bytes
  <2>4. QED
    BY <1>2, <2>1, <2>2, <2>3 DEF IInv, TypeOK, osVars
<1>4. BaselineInv'
  <2>1. \A i \in DOMAIN previous', d \in Direction :
            count'[i][d] = previous'[i][d] + moved'[i][d] /\ i \notin reset'
    BY <1>2, SamplesAreCounts DEF IInv, TypeOK, osVars, Zero, Bytes
  <2>2. QED
    BY <1>2, <2>1 DEF BaselineInv
<1>5. RatesInv'
  <2>1. ASSUME NEW i \in DOMAIN rates', ~rates'[i].first
        PROVE  TrueFor(rates[i].bytes, i)'
    BY <1>1, <1>2, <2>1, DeltasAreTrue DEF TrueFor
  <2>2. \A i \in DOMAIN rates' : rates'[i].first => i \notin span'.lastRead
    BY <1>1, <1>2, DeltasAreTrue DEF IInv, BaselineInv
  <2>3. QED
    BY <1>1, <1>2, <2>1, <2>2 DEF RatesInv
<1>6. BlankInv' /\ RecordsAreTrue' /\ NothingMissed'
  BY <1>2 DEF IInv, BlankInv, RecordsAreTrue, NothingMissed
<1>8. SharesAddUp'
  <2>1. /\ shares' = Distribution(rates') /\ typeShares' = DistributionByType(rates')
        /\ DOMAIN rates' \subseteq Iface /\ \A i \in DOMAIN rates' : rates'[i] \in Rate
    BY <1>3 DEF Count, TypeOK
  <2>2. IsFiniteSet(DOMAIN rates')
    BY <2>1, FS_Subset
  <2>3. \A i \in DOMAIN rates' : TypeIn(i) = found'[i]
    BY <1>1, <1>2 DEF TypeIn
  <2>4. ASSUME NEW m \in Metric
        PROVE  /\ AddsUp(shares', m) /\ AddsUp(typeShares', m)
               /\ \A t \in DOMAIN typeShares' :
                      typeShares'[t][m].part =
                      SumOf([i \in {j \in DOMAIN rates' : TypeIn(j) = t} |-> shares'[i][m].part])
    BY <2>1, <2>2, DistributionAddsUp
  <2>5. DOMAIN shares' = DOMAIN rates'
    BY <2>1 DEF Distribution
  <2>6. ASSUME NEW m \in Metric, NEW t \in DOMAIN typeShares'
        PROVE  typeShares'[t][m].part =
               SumOf([i \in {j \in DOMAIN shares' : found'[j] = t} |-> shares'[i][m].part])
    <3>1. {j \in DOMAIN shares' : found'[j] = t} = {j \in DOMAIN rates' : TypeIn(j) = t}
      BY <2>3, <2>5
    <3>2. QED
      BY <2>4, <3>1
  <2>7. QED
    BY <2>4, <2>6 DEF SharesAddUp
<1>7. OneSelection'
  <2>1. DOMAIN rates' \cup DOMAIN shares' \cup DOMAIN written' \subseteq enabled'
    BY <1>1, <1>2 DEF IInv, BlankInv, Count, Distribution
  <2>2. DOMAIN typeShares' = {TypeIn(i) : i \in DOMAIN rates'}
    BY DEF Count, DistributionByType
  <2>3. \A i \in DOMAIN rates' : TypeIn(i) = found'[i]
    BY <1>1, <1>2 DEF TypeIn
  <2>4. {found'[i] : i \in DOMAIN rates'} = DOMAIN typeShares'
    BY <2>2, <2>3
  <2>5. \A a \in DOMAIN connections' : a \in DOMAIN found' => a \in enabled'
    <3>1. connections' = Displayed(Attributed) /\ Elsewhere \notin DOMAIN found
      BY DEF Count, IInv, TypeOK
    <3>2. QED
      BY <1>2, <3>1 DEF Displayed, Attributed
  <2>6. QED
    BY <2>1, <2>4, <2>5 DEF OneSelection
<1>9. QED
  BY <1>3, <1>4, <1>5, <1>6, <1>7, <1>8 DEF IInv

LEMMA RecordKeeps ==
    ASSUME IInv, Record
    PROVE  IInv'
<1>1. /\ DOMAIN written' = {i \in DOMAIN rates : ~rates[i].first}
      /\ \A i \in DOMAIN written' : written'[i] = rates[i].bytes
  BY DEF Record
<1>2. TypeOK'
  BY <1>1 DEF IInv, TypeOK, Record, Rate, osVars, ghostVars
<1>3. BaselineInv' /\ RatesInv' /\ BlankInv'
  BY DEF IInv, BaselineInv, RatesInv, TrueFor, BlankInv, Record, osVars, ghostVars
<1>4. RecordsAreTrue'
  BY <1>1 DEF IInv, RatesInv, TrueFor, RecordsAreTrue, Record
<1>5. NothingMissed'
  BY <1>1 DEF IInv, RatesInv, NothingMissed, Record, ghostVars
<1>6. OneSelection'
  BY <1>1 DEF IInv, OneSelection, Record
<1>7. SharesAddUp'
  BY SharesUnmoved DEF IInv, Record
<1>8. QED
  BY <1>2, <1>3, <1>4, <1>5, <1>6, <1>7 DEF IInv

LEMMA EndTickKeeps ==
    ASSUME IInv, EndTick
    PROVE  IInv'
<1>1. TypeOK'
  BY EmptyDomain
  DEF IInv, TypeOK, EndTick, TickVarsCleared, NoSpan, Zero, Bytes, osVars, ghostVars
<1>2. BaselineInv'
  BY DEF IInv, BaselineInv, EndTick, osVars, ghostVars
<1>3. RatesInv' /\ BlankInv' /\ RecordsAreTrue' /\ NothingMissed' /\ OneSelection'
  BY EmptyDomain
  DEF EndTick, TickVarsCleared, RatesInv, BlankInv, RecordsAreTrue, NothingMissed, OneSelection
<1>4. SharesAddUp'
  BY EmptyDomain DEF EndTick, TickVarsCleared, SharesAddUp, AddsUp
<1>5. QED
  BY <1>1, <1>2, <1>3, <1>4 DEF IInv

LEMMA NewWorkerKeeps ==
    ASSUME IInv, NewWorker
    PROVE  IInv'
<1>1. TypeOK'
  BY EmptyDomain DEF IInv, TypeOK, NewWorker, osVars, tickVars
<1>2. BaselineInv'
  BY EmptyDomain DEF BaselineInv, NewWorker
<1>3. RatesInv' /\ BlankInv' /\ RecordsAreTrue' /\ NothingMissed' /\ OneSelection'
  BY DEF IInv, NewWorker, tickVars, RatesInv, BlankInv, RecordsAreTrue, NothingMissed,
         OneSelection
<1>4. SharesAddUp'
  BY SharesUnmoved DEF IInv, NewWorker, tickVars
<1>5. QED
  BY <1>1, <1>2, <1>3, <1>4 DEF IInv

LEMMA StepKeeps ==
    ASSUME IInv, [Next]_vars
    PROVE  IInv'
<1>1. CASE UNCHANGED vars
  <2>1. TypeOK' /\ BaselineInv'
    BY <1>1 DEF IInv, TypeOK, BaselineInv, vars, osVars, workerVars, tickVars, ghostVars
  <2>2. QED
    BY <1>1, <2>1, WorkerUnmoved DEF IInv, vars, ghostVars
<1>2. CASE Next
  BY <1>2, TransferKeeps, RestartKeeps, RelistKeeps, ChooseKeeps, DiscoverKeeps, CountKeeps,
     RecordKeeps, EndTickKeeps, NewWorkerKeeps DEF Next
<1>3. QED
  BY <1>1, <1>2

-----------------------------------------------------------------------------
LEMMA Invariance == Spec => []IInv
  BY InitEstablishes, StepKeeps, PTL DEF Spec

\* Every variable keeps to its kind: no reading gives a negative delta.
THEOREM TypeCorrect == Spec => []TypeOK
<1>1. IInv => TypeOK
  BY DEF IInv
<1>2. QED
  BY <1>1, Invariance, PTL

\* No record tells of more traffic than there was, and without a restart of
\* the counters none tells of less (monitoring/counters.py).
THEOREM RecordsAlwaysTrue == Spec => []RecordsAreTrue
<1>1. IInv => RecordsAreTrue
  BY DEF IInv
<1>2. QED
  BY <1>1, Invariance, PTL

\* Every enabled interface that was read twice has its record (gui/worker.py).
THEOREM NothingEverMissed == Spec => []NothingMissed
<1>1. IInv => NothingMissed
  BY DEF IInv
<1>2. QED
  BY <1>1, Invariance, PTL

\* A snapshot never mixes two selections (gui/worker.py).
THEOREM AlwaysOneSelection == Spec => []OneSelection
<1>1. IInv => OneSelection
  BY DEF IInv
<1>2. QED
  BY <1>1, Invariance, PTL

\* The shares of a snapshot add up to all of its traffic, and each type has
\* the shares of its interfaces (monitoring/distribution.py).
THEOREM SharesAlwaysAddUp == Spec => []SharesAddUp
<1>1. IInv => SharesAddUp
  BY DEF IInv
<1>2. QED
  BY <1>1, Invariance, PTL
=============================================================================
