--------------------------- MODULE MainWindowProofs ---------------------------
(***************************************************************************)
(* Theorems about MainWindow and the MonitorWorker under it, for any       *)
(* number of workers, nested waits, chunks and queued snapshots.           *)
(***************************************************************************)
EXTENDS MainWindow, SequenceTheorems, TLAPS

USE WorkerAssumption, WindowAssumption

\* A session that is off tells the truth about what it still holds.
SessionInv == ~enabled => ~shown /\ (restored <=> holder = Nobody)

\* Only the newest worker can be the window's, and a thread that runs is the
\* window's unless the process has died, and all its activations with it.
OwnerInv ==
    /\ latest = 0 => thread = "none"
    /\ window = "aborted" => frames = <<>>
    /\ window # "aborted" /\ worker = 0 => ~Running

\* An activation that is past its wait has seen its thread finish.
WaitInv ==
    \A k \in 1..Len(frames) :
        /\ frames[k].worker <= latest
        /\ frames[k].at = "finish" => Finished(frames[k].worker)

IInv ==
    /\ TypeOK /\ SessionInv /\ OwnerInv /\ WaitInv
    /\ FinishedIsClean /\ ClosedMeansStopped

-----------------------------------------------------------------------------
(* Sequences. *)

LEMMA HeadReplaced ==
    ASSUME NEW S, NEW s \in Seq(S), s # <<>>, NEW e \in S
    PROVE  LET t == <<e>> \o Tail(s)
           IN  /\ t \in Seq(S) /\ Len(t) = Len(s) /\ Len(t) >= 1
               /\ t[1] = e /\ \A k \in 2..Len(s) : t[k] = s[k]
  OBVIOUS

LEMMA Pushed ==
    ASSUME NEW S, NEW s \in Seq(S), NEW e \in S
    PROVE  LET t == <<e>> \o s
           IN  /\ t \in Seq(S) /\ Len(t) = Len(s) + 1
               /\ t[1] = e /\ \A k \in 2..Len(t) : t[k] = s[k - 1]
  OBVIOUS

LEMMA Popped ==
    ASSUME NEW S, NEW s \in Seq(S), s # <<>>
    PROVE  /\ Tail(s) \in Seq(S) /\ Len(Tail(s)) = Len(s) - 1
           /\ \A k \in 1..Len(Tail(s)) : Tail(s)[k] = s[k + 1]
           /\ Head(s) = s[1] /\ Head(s) \in S /\ Len(s) >= 1
  OBVIOUS

-----------------------------------------------------------------------------
(* The steering session. *)

LEMMA SessionStep ==
    ASSUME Steering!TypeOK, SessionInv,
           \/ Steering!Accept \/ Steering!Refuse \/ Steering!Disable
           \/ Steering!Proceed \/ Steering!Take \/ Steering!Release \/ Steering!Keep
           \/ Steering!Renew \/ UNCHANGED session
    PROVE  Steering!TypeOK' /\ SessionInv'
<1> USE DEF Steering!TypeOK, SessionInv
<1>1. CASE Steering!Accept
  BY <1>1 DEF Steering!Accept
<1>2. CASE Steering!Refuse
  BY <1>2 DEF Steering!Refuse
<1>3. CASE Steering!Disable
  BY <1>3 DEF Steering!Disable
<1>4. CASE Steering!Proceed
  BY <1>4 DEF Steering!Proceed
<1>5. CASE Steering!Take
  BY <1>5 DEF Steering!Take
<1>6. CASE Steering!Release
  BY <1>6 DEF Steering!Release
<1>7. CASE Steering!Keep
  BY <1>7 DEF Steering!Keep
<1>8. CASE Steering!Renew
  BY <1>8 DEF Steering!Renew
<1>9. CASE UNCHANGED session
  BY <1>9 DEF session
<1>10. QED
  BY <1>1, <1>2, <1>3, <1>4, <1>5, <1>6, <1>7, <1>8, <1>9

LEMMA DisablingCleans ==
    ASSUME Steering!TypeOK, SessionInv, DisableSteering
    PROVE  /\ Steering!TypeOK' /\ SessionInv'
           /\ ~enabled' /\ ~shown' /\ (restored' <=> holder' = Nobody)
<1>1. Steering!TypeOK' /\ SessionInv'
  BY SessionStep DEF DisableSteering
<1>2. ~enabled'
  BY DEF DisableSteering, Steering!Disable, session
<1>3. QED
  BY <1>1, <1>2 DEF SessionInv

LEMMA ServingKeeps ==
    ASSUME Steering!TypeOK, SessionInv, NEW request, Serve(request)
    PROVE  Steering!TypeOK' /\ SessionInv'
  BY SessionStep, DisablingCleans DEF Serve

-----------------------------------------------------------------------------
LEMMA InitEstablishes == Init => IInv
<1> SUFFICES ASSUME Init PROVE IInv
  OBVIOUS
<1> USE DEF Init, InitWorker, Steering!Init
<1>1. TypeOK
  <2>1. queue \in Seq(BOOLEAN) /\ Len(queue) <= MaxQueue
    BY EmptySeq
  <2>2. frames \in Seq(Frame) /\ Len(frames) <= MaxNested
    BY EmptySeq
  <2>3. Steering!TypeOK
    BY DEF Steering!TypeOK
  <2>4. latest \in 0..MaxStarts /\ worker \in {0, latest}
    OBVIOUS
  <2> HIDE DEF Init, InitWorker, Steering!Init
  <2>5. QED
    BY <2>1, <2>2, <2>3, <2>4 DEF TypeOK, Init, InitWorker
<1>2. SessionInv /\ OwnerInv /\ WaitInv
  BY DEF SessionInv, OwnerInv, WaitInv, Running
<1>3. FinishedIsClean /\ ClosedMeansStopped
  BY DEF FinishedIsClean, ClosedMeansStopped
<1>4. QED
  BY <1>1, <1>2, <1>3 DEF IInv

-----------------------------------------------------------------------------
(* The worker. *)

LEMMA PostedTyped ==
    ASSUME NEW q \in Seq(BOOLEAN), Len(q) <= MaxQueue, NEW b \in BOOLEAN
    PROVE  Posted(q, b) \in Seq(BOOLEAN) /\ Len(Posted(q, b)) <= MaxQueue
<1>1. CASE Len(q) < MaxQueue
  <2>1. Posted(q, b) = Append(q, b)
    BY <1>1 DEF Posted
  <2>2. Append(q, b) \in Seq(BOOLEAN) /\ Len(Append(q, b)) = Len(q) + 1
    OBVIOUS
  <2>3. QED
    BY <1>1, <2>1, <2>2, LenProperties
<1>2. CASE ~(Len(q) < MaxQueue)
  <2>1. Posted(q, b) = Append(Tail(q), b)
    BY <1>2 DEF Posted
  <2>2. q # <<>> /\ Len(q) = MaxQueue
    BY <1>2, EmptySeq, LenProperties
  <2>3. Tail(q) \in Seq(BOOLEAN) /\ Len(Tail(q)) = Len(q) - 1
    BY <2>2, Popped
  <2>4. Append(Tail(q), b) \in Seq(BOOLEAN) /\ Len(Append(Tail(q), b)) = Len(q) - 1 + 1
    BY <2>3
  <2>5. QED
    BY <2>1, <2>2, <2>4
<1>3. QED
  BY <1>1, <1>2

LEMMA WorkerKeeps ==
    ASSUME IInv, window # "aborted", WorkerStep, UNCHANGED windowVars
    PROVE  IInv'
<1> USE DEF windowVars
<1>1. /\ TypeOK /\ Steering!TypeOK /\ SessionInv /\ OwnerInv /\ WaitInv
      /\ FinishedIsClean /\ ClosedMeansStopped
  BY DEF IInv, TypeOK
<1>2. CASE BeginTick
  <2>1. Steering!TypeOK' /\ SessionInv'
    BY <1>1, <1>2, ServingKeeps DEF BeginTick
  <2>2. TypeOK'
    BY <1>1, <1>2, <2>1 DEF TypeOK, BeginTick
  <2>3. OwnerInv' /\ WaitInv' /\ FinishedIsClean' /\ ClosedMeansStopped'
    BY <1>1, <1>2
    DEF BeginTick, OwnerInv, WaitInv, Finished, Running, FinishedIsClean, ClosedMeansStopped
  <2>4. QED
    BY <2>1, <2>2, <2>3 DEF IInv
<1>3. CASE Steer
  <2>1. Steering!TypeOK' /\ SessionInv'
    BY <1>1, <1>3, SessionStep DEF Steer
  <2>2. TypeOK'
    BY <1>1, <1>3, <2>1 DEF TypeOK, Steer
  <2>3. OwnerInv' /\ WaitInv' /\ FinishedIsClean' /\ ClosedMeansStopped'
    BY <1>1, <1>3
    DEF Steer, OwnerInv, WaitInv, Finished, Running, FinishedIsClean, ClosedMeansStopped
  <2>4. QED
    BY <2>1, <2>2, <2>3 DEF IInv
<1>4. CASE EndTick
  <2>1. queue' \in Seq(BOOLEAN) /\ Len(queue') <= MaxQueue
    BY <1>1, <1>4, PostedTyped DEF EndTick, TypeOK, Steering!TypeOK
  <2>2. Steering!TypeOK' /\ SessionInv'
    BY <1>1, <1>4, SessionStep DEF EndTick
  <2>3. TypeOK'
    BY <1>1, <1>4, <2>1, <2>2 DEF TypeOK, EndTick
  <2>4. OwnerInv' /\ WaitInv' /\ FinishedIsClean' /\ ClosedMeansStopped'
    BY <1>1, <1>4
    DEF EndTick, OwnerInv, WaitInv, Finished, Running, FinishedIsClean, ClosedMeansStopped
  <2>5. QED
    BY <2>2, <2>3, <2>4 DEF IInv
<1>5. CASE TickFails \/ Leave
  <2>1. Steering!TypeOK' /\ SessionInv'
    BY <1>1, <1>5, SessionStep DEF TickFails, Leave
  <2>2. TypeOK'
    BY <1>1, <1>5, <2>1 DEF TypeOK, TickFails, Leave
  <2>3. OwnerInv' /\ WaitInv' /\ FinishedIsClean' /\ ClosedMeansStopped'
    BY <1>1, <1>5
    DEF TickFails, Leave, OwnerInv, WaitInv, Finished, Running, FinishedIsClean,
        ClosedMeansStopped
  <2>4. QED
    BY <2>1, <2>2, <2>3 DEF IInv
<1>6. CASE Finally
  <2>1. /\ Steering!TypeOK' /\ SessionInv' /\ FinishedIsClean'
    BY <1>1, <1>6, DisablingCleans DEF Finally, FinishedIsClean
  <2>2. TypeOK'
    BY <1>1, <1>6, <2>1 DEF TypeOK, Finally
  <2>3. OwnerInv' /\ WaitInv' /\ ClosedMeansStopped'
    BY <1>1, <1>6
    DEF Finally, OwnerInv, WaitInv, Finished, Running, ClosedMeansStopped
  <2>4. QED
    BY <2>1, <2>2, <2>3 DEF IInv
<1>7. QED
  BY <1>2, <1>3, <1>4, <1>5, <1>6 DEF WorkerStep

-----------------------------------------------------------------------------
(* The window. *)

LEMMA Idle ==
    ASSUME IInv, UNCHANGED session
    PROVE  Steering!TypeOK' /\ SessionInv'
  BY SessionStep DEF IInv, TypeOK

LEMMA StartKeeps ==
    ASSUME IInv, ClickStart
    PROVE  IInv'
<1>1. Steering!TypeOK' /\ SessionInv'
  BY SessionStep DEF IInv, TypeOK, ClickStart, Launch
<1>2. latest \in 0..MaxStarts /\ latest < MaxStarts /\ latest' = latest + 1
  BY DEF IInv, TypeOK, ClickStart
<1>3. TypeOK'
  <2>1. latest' \in 0..MaxStarts /\ worker' \in {0, latest'}
    BY <1>2 DEF ClickStart
  <2>2. QED
    BY <1>1, <2>1 DEF IInv, TypeOK, ClickStart, Launch
<1>4. OwnerInv'
  BY <1>2 DEF OwnerInv, ClickStart, Clickable
<1>5. WaitInv'
  <2> SUFFICES ASSUME NEW k \in 1..Len(frames)
               PROVE  frames[k].worker <= latest' /\ frames[k].worker < latest'
    BY DEF ClickStart, WaitInv, Finished
  <2>1. frames[k] \in Frame /\ frames[k].worker <= latest
    BY DEF IInv, TypeOK, WaitInv
  <2>2. QED
    BY <1>2, <2>1 DEF Frame
<1>6. FinishedIsClean' /\ ClosedMeansStopped'
  BY DEF ClickStart, Launch, Clickable, FinishedIsClean, ClosedMeansStopped
<1>7. QED
  BY <1>1, <1>3, <1>4, <1>5, <1>6 DEF IInv

LEMMA BeginStopKeeps ==
    ASSUME IInv, window = "open", NEW close \in BOOLEAN, BeginStop(close)
    PROVE  IInv'
<1> DEFINE f == [worker |-> worker, close |-> close, left |-> MaxChunks, at |-> "wait"]
<1>1. Steering!TypeOK' /\ SessionInv'
  BY Idle DEF BeginStop
<1>2. worker = latest /\ worker \in 1..MaxStarts
  BY DEF IInv, TypeOK, BeginStop
<1>3. f \in Frame
  BY <1>2 DEF Frame
<1>4. frames \in Seq(Frame) /\ frames' = <<f>> \o frames
  BY DEF IInv, TypeOK, BeginStop
<1> HIDE DEF f
<1>5. /\ frames' \in Seq(Frame) /\ Len(frames') = Len(frames) + 1
      /\ frames'[1] = f /\ \A k \in 2..Len(frames') : frames'[k] = frames[k - 1]
  BY <1>3, <1>4, Pushed
<1>6. Len(frames) \in Nat /\ Len(frames) < MaxNested
  BY <1>4, LenProperties DEF BeginStop
<1>7. TypeOK'
  <2>1. Len(frames') <= MaxNested
    BY <1>5, <1>6
  <2>2. QED
    BY <1>1, <1>5, <2>1 DEF IInv, TypeOK, BeginStop
<1>8. WaitInv'
  <2> SUFFICES ASSUME NEW k \in 1..Len(frames')
               PROVE  /\ frames'[k].worker <= latest
                      /\ frames'[k].at = "finish" => Finished(frames'[k].worker)
    BY DEF BeginStop, WaitInv, Finished
  <2>1. CASE k = 1
    BY <1>2, <1>5, <2>1 DEF f
  <2>2. CASE k # 1
    <3>1. k - 1 \in 1..Len(frames) /\ frames'[k] = frames[k - 1]
      BY <1>5, <1>6, <2>2
    <3>2. QED
      BY <3>1 DEF IInv, WaitInv
  <2>3. QED
    BY <2>1, <2>2
<1>9. OwnerInv' /\ FinishedIsClean' /\ ClosedMeansStopped'
  BY DEF IInv, OwnerInv, BeginStop, FinishedIsClean, ClosedMeansStopped, Running, session
<1>10. QED
  BY <1>1, <1>7, <1>8, <1>9 DEF IInv

\* What every step of the topmost activation begins with.
LEMMA TopFacts ==
    ASSUME IInv, At # "nowhere"
    PROVE  /\ frames \in Seq(Frame) /\ frames # <<>>
           /\ Top \in Frame /\ Top = frames[1] /\ Len(frames) >= 1
           /\ At = Top.at /\ Top.worker <= latest
           /\ At = "finish" => Finished(Top.worker)
<1>1. frames \in Seq(Frame) /\ frames # <<>> /\ At = Top.at
  BY DEF At, IInv, TypeOK
<1>2. Top \in Frame /\ Top = frames[1] /\ Len(frames) >= 1
  BY <1>1, Popped DEF Top
<1>3. QED
  BY <1>1, <1>2, LenProperties DEF IInv, WaitInv

\* The topmost activation goes on, or returns.
LEMMA TopGoesOn ==
    ASSUME IInv, At # "nowhere", NEW f \in Frame,
           f.worker = Top.worker, f.at = "finish" => Finished(f.worker),
           frames' = <<f>> \o Tail(frames), UNCHANGED <<latest, thread>>
    PROVE  frames' \in Seq(Frame) /\ Len(frames') <= MaxNested /\ WaitInv'
<1>1. /\ frames' \in Seq(Frame) /\ Len(frames') = Len(frames) /\ Len(frames') >= 1
      /\ frames'[1] = f /\ \A k \in 2..Len(frames) : frames'[k] = frames[k]
  BY TopFacts, HeadReplaced
<1>2. ASSUME NEW k \in 1..Len(frames')
      PROVE  /\ frames'[k].worker <= latest
             /\ frames'[k].at = "finish" => Finished(frames'[k].worker)
  <2>1. CASE k = 1
    BY <1>1, <2>1, TopFacts
  <2>2. CASE k # 1
    <3>1. k \in 2..Len(frames) /\ k \in 1..Len(frames)
      BY <1>1, <2>2, TopFacts, LenProperties
    <3>2. QED
      BY <1>1, <3>1 DEF IInv, WaitInv
  <2>3. QED
    BY <2>1, <2>2
<1>3. QED
  BY <1>1, <1>2 DEF IInv, TypeOK, WaitInv, Finished

LEMMA TopReturns ==
    ASSUME IInv, At # "nowhere", frames' = Tail(frames), UNCHANGED <<latest, thread>>
    PROVE  frames' \in Seq(Frame) /\ Len(frames') <= MaxNested /\ WaitInv'
<1>1. /\ frames' \in Seq(Frame) /\ Len(frames') = Len(frames) - 1 /\ Len(frames) >= 1
      /\ \A k \in 1..Len(frames') : frames'[k] = frames[k + 1]
  BY TopFacts, Popped
<1>2. Len(frames) \in Nat /\ Len(frames) <= MaxNested
  BY TopFacts, LenProperties DEF IInv, TypeOK
<1>3. \A k \in 1..Len(frames') : k + 1 \in 1..Len(frames)
  BY <1>1, <1>2
<1>4. WaitInv'
  BY <1>1, <1>3 DEF IInv, WaitInv, Finished
<1>5. QED
  BY <1>1, <1>2, <1>4

LEMMA WaitKeeps ==
    ASSUME IInv, ChunkOver \/ WaitOver
    PROVE  IInv'
<1> DEFINE f(at) == [Top EXCEPT !.at = at]
<1>1. PICK at \in {"pump", "finish"} :
          /\ frames' = <<f(at)>> \o Tail(frames)
          /\ at = "finish" => Finished(Top.worker)
  BY DEF ChunkOver, WaitOver, Advance
<1>2. At # "nowhere" /\ UNCHANGED <<workerVars, window, latest, worker, startOn, enableOn>>
  BY DEF ChunkOver, WaitOver
<1>3. f(at) \in Frame /\ f(at).worker = Top.worker /\ f(at).at = at
  BY <1>2, TopFacts DEF Frame
<1> HIDE DEF f
<1>4. frames' \in Seq(Frame) /\ Len(frames') <= MaxNested /\ WaitInv'
  BY <1>1, <1>2, <1>3, TopGoesOn DEF workerVars
<1>5. Steering!TypeOK' /\ SessionInv'
  BY <1>2, Idle DEF workerVars
<1>6. TypeOK'
  BY <1>2, <1>4, <1>5 DEF IInv, TypeOK, workerVars
<1>7. OwnerInv' /\ FinishedIsClean' /\ ClosedMeansStopped'
  BY <1>2, TopFacts
  DEF IInv, OwnerInv, FinishedIsClean, ClosedMeansStopped, Running, workerVars, session
<1>8. QED
  BY <1>4, <1>5, <1>6, <1>7 DEF IInv

LEMMA PumpKeeps ==
    ASSUME IInv, PumpOver
    PROVE  IInv'
<1>1. /\ At = "pump" /\ UNCHANGED <<thread, stop, pending, session, queue, latest, worker,
                                    startOn, enableOn>>
  BY DEF PumpOver
<1>2. window # "aborted" /\ Top \in Frame
  BY <1>1, TopFacts DEF IInv, OwnerInv
<1>3. /\ connected' \in BOOLEAN /\ window' \in {"open", "closed"}
      /\ window' # window => worker = 0
  BY <1>2 DEF PumpOver, IInv, TypeOK
<1>4. frames' \in Seq(Frame) /\ Len(frames') <= MaxNested /\ WaitInv'
  <2>1. CASE Top.left > 1 /\ frames' = <<[Top EXCEPT !.at = "wait", !.left = @ - 1]>> \o Tail(frames)
    <3> DEFINE f == [Top EXCEPT !.at = "wait", !.left = @ - 1]
    <3>1. f \in Frame /\ f.worker = Top.worker /\ f.at = "wait"
      <4>1. Top.left - 1 \in 1..MaxChunks
        BY <1>2, <2>1 DEF Frame
      <4>2. QED
        BY <1>2, <4>1 DEF Frame
    <3> HIDE DEF f
    <3>2. frames' = <<f>> \o Tail(frames)
      BY <2>1 DEF f
    <3>3. QED
      BY <1>1, <3>1, <3>2, TopGoesOn
  <2>2. CASE frames' = Tail(frames)
    BY <1>1, <2>2, TopReturns
  <2>3. QED
    BY <2>1, <2>2 DEF PumpOver
<1>5. Steering!TypeOK' /\ SessionInv'
  BY <1>1, Idle
<1>6. TypeOK'
  BY <1>1, <1>3, <1>4, <1>5 DEF IInv, TypeOK
<1>7. OwnerInv' /\ FinishedIsClean' /\ ClosedMeansStopped'
  BY <1>1, <1>2, <1>3
  DEF IInv, OwnerInv, FinishedIsClean, ClosedMeansStopped, Running, session
<1>8. QED
  BY <1>4, <1>5, <1>6, <1>7 DEF IInv

LEMMA FinishKeeps ==
    ASSUME IInv, FinishStop
    PROVE  IInv'
<1>1. At = "finish" /\ UNCHANGED <<workerVars, latest>>
  BY DEF FinishStop
<1>2. Steering!TypeOK' /\ SessionInv'
  BY <1>1, Idle DEF workerVars
<1>3. frames' \in Seq(Frame) /\ Len(frames') <= MaxNested /\ WaitInv'
  <2>1. CASE frames' = <<>>
    BY <2>1, EmptySeq DEF WaitInv
  <2>2. CASE frames' = Tail(frames)
    BY <1>1, <2>2, TopReturns DEF workerVars
  <2>3. QED
    BY <2>1, <2>2 DEF FinishStop
<1>4. TypeOK'
  BY <1>1, <1>2, <1>3 DEF IInv, TypeOK, FinishStop, AfterDrop, workerVars
<1>5. /\ window # "aborted" /\ (window' # "aborted" => ~Running)
      /\ window' = "aborted" => frames' = <<>>
  <2>1. window # "aborted"
    BY <1>1, TopFacts DEF IInv, OwnerInv
  <2>2. worker \in {0, latest} /\ (worker = 0 => ~Running)
    BY <2>1 DEF IInv, TypeOK, OwnerInv
  <2>3. QED
    BY <2>1, <2>2 DEF FinishStop, AfterDrop
<1>6. OwnerInv' /\ FinishedIsClean' /\ ClosedMeansStopped'
  BY <1>1, <1>5
  DEF IInv, OwnerInv, FinishedIsClean, ClosedMeansStopped, Running, workerVars, session
<1>7. QED
  BY <1>2, <1>3, <1>4, <1>6 DEF IInv

LEMMA ButtonsKeep ==
    ASSUME IInv, ClickEnable \/ ClickDisable
    PROVE  IInv'
<1>1. UNCHANGED <<thread, stop, session, connected, queue, window, latest, worker, frames,
                  startOn>>
  BY DEF ClickEnable, ClickDisable
<1>2. pending' \in {"none", "enable", "disable"} /\ enableOn' \in BOOLEAN
  BY DEF IInv, TypeOK, ClickEnable, ClickDisable
<1>3. Steering!TypeOK' /\ SessionInv'
  BY <1>1, Idle
<1>4. TypeOK'
  BY <1>1, <1>2, <1>3 DEF IInv, TypeOK
<1>5. OwnerInv' /\ WaitInv' /\ FinishedIsClean' /\ ClosedMeansStopped'
  BY <1>1
  DEF IInv, OwnerInv, WaitInv, Finished, FinishedIsClean, ClosedMeansStopped, Running, session
<1>6. QED
  BY <1>3, <1>4, <1>5 DEF IInv

LEMMA DeliverKeeps ==
    ASSUME IInv, Deliver
    PROVE  IInv'
<1>1. UNCHANGED <<thread, stop, pending, session, connected, window, latest, worker, frames,
                  startOn>>
  BY DEF Deliver
<1>2. /\ queue' \in Seq(BOOLEAN) /\ Len(queue') <= MaxQueue
      /\ Head(queue) \in BOOLEAN
  <2>1. /\ queue \in Seq(BOOLEAN) /\ Len(queue) <= MaxQueue
        /\ queue # <<>> /\ queue' = Tail(queue)
    BY DEF IInv, TypeOK, Deliver
  <2>2. /\ Tail(queue) \in Seq(BOOLEAN) /\ Len(Tail(queue)) = Len(queue) - 1
        /\ Head(queue) \in BOOLEAN /\ Len(queue) \in Nat
    BY <2>1, Popped, LenProperties
  <2>3. QED
    BY <2>1, <2>2
<1>3. enableOn' \in BOOLEAN
  BY <1>2 DEF IInv, TypeOK, Deliver
<1>4. Steering!TypeOK' /\ SessionInv'
  BY <1>1, Idle
<1>5. TypeOK'
  BY <1>1, <1>2, <1>3, <1>4 DEF IInv, TypeOK
<1>6. OwnerInv' /\ WaitInv' /\ FinishedIsClean' /\ ClosedMeansStopped'
  BY <1>1
  DEF IInv, OwnerInv, WaitInv, Finished, FinishedIsClean, ClosedMeansStopped, Running, session
<1>7. QED
  BY <1>4, <1>5, <1>6 DEF IInv

\* The window closes with no worker left.
LEMMA CloseKeeps ==
    ASSUME IInv, window = "open", worker = 0, window' = "closed",
           UNCHANGED <<workerVars, latest, worker, frames, startOn, enableOn>>
    PROVE  IInv'
<1>1. Steering!TypeOK' /\ SessionInv'
  BY Idle DEF workerVars
<1>2. TypeOK'
  BY <1>1 DEF IInv, TypeOK, workerVars
<1>3. OwnerInv' /\ WaitInv' /\ FinishedIsClean' /\ ClosedMeansStopped'
  BY DEF IInv, OwnerInv, WaitInv, Finished, FinishedIsClean, ClosedMeansStopped, Running,
         workerVars, session
<1>4. QED
  BY <1>1, <1>2, <1>3 DEF IInv

LEMMA ClickKeeps ==
    ASSUME IInv, Click
    PROVE  IInv'
<1>1. CASE ClickStart
  BY <1>1, StartKeeps
<1>2. CASE ClickStop
  BY <1>2, BeginStopKeeps DEF ClickStop, Clickable
<1>3. CASE ClickClose
  BY <1>3, BeginStopKeeps, CloseKeeps DEF ClickClose, Clickable
<1>4. CASE ClickEnable \/ ClickDisable
  BY <1>4, ButtonsKeep
<1>5. QED
  BY <1>1, <1>2, <1>3, <1>4 DEF Click

LEMMA StepKeeps ==
    ASSUME IInv, [Next]_vars
    PROVE  IInv'
<1>1. CASE UNCHANGED vars
  <2>1. Steering!TypeOK' /\ SessionInv'
    BY <1>1, Idle DEF vars, workerVars
  <2>2. TypeOK'
    BY <1>1, <2>1 DEF IInv, TypeOK, vars, workerVars, windowVars
  <2>3. OwnerInv' /\ WaitInv' /\ FinishedIsClean' /\ ClosedMeansStopped'
    BY <1>1 DEF IInv, OwnerInv, WaitInv, Finished, FinishedIsClean, ClosedMeansStopped,
                Running, vars, workerVars, windowVars, session
  <2>4. QED
    BY <2>1, <2>2, <2>3 DEF IInv
<1>2. CASE Click
  BY <1>2, ClickKeeps
<1>3. CASE WindowStep
  BY <1>3, WaitKeeps, PumpKeeps, FinishKeeps, DeliverKeeps DEF WindowStep
<1>4. CASE window # "aborted" /\ WorkerStep /\ UNCHANGED windowVars
  BY <1>4, WorkerKeeps
<1>5. QED
  BY <1>1, <1>2, <1>3, <1>4 DEF Next

-----------------------------------------------------------------------------
LEMMA Invariance == Spec => []IInv
  BY InitEstablishes, StepKeeps, PTL DEF Spec

\* Every variable keeps to its kind.
THEOREM TypeCorrect == Spec => []TypeOK
<1>1. IInv => TypeOK
  BY DEF IInv
<1>2. QED
  BY <1>1, Invariance, PTL

\* When run() has returned steering is off, and what is still held is
\* reported (gui/worker.py, finally).
THEOREM AlwaysFinishedClean == Spec => []FinishedIsClean
<1>1. IInv => FinishedIsClean
  BY DEF IInv
<1>2. QED
  BY <1>1, Invariance, PTL

\* The window never closes over a running thread (gui/main_window.py,
\* closeEvent).
THEOREM AlwaysClosedStopped == Spec => []ClosedMeansStopped
<1>1. IInv => ClosedMeansStopped
  BY DEF IInv
<1>2. QED
  BY <1>1, Invariance, PTL

\* An activation of stop_monitoring() that reads the final status of the
\* newest worker does so after its thread has finished.
THEOREM ReportAlwaysFinal == Spec => StopReportIsFinal
<1>1. ASSUME IInv, [Next]_vars
      PROVE  [At = "finish" /\ frames' = Tail(frames)
                /\ Top.worker = latest => thread = "finished"]_vars
  <2>1. ASSUME At = "finish", Top.worker = latest
        PROVE  thread = "finished"
    <3>1. Finished(Top.worker) /\ latest \in Nat
      BY <1>1, <2>1, TopFacts DEF IInv, TypeOK
    <3>2. QED
      BY <2>1, <3>1 DEF Finished
  <2>2. QED
    BY <2>1
<1>2. QED
  BY <1>1, Invariance, PTL DEF Spec, StopReportIsFinal
=============================================================================
