----------------------------- MODULE MainWindow -----------------------------
(***************************************************************************)
(* Start, Stop, close and the steering buttons of gui/main_window.py,      *)
(* against the worker thread.                                              *)
(*                                                                         *)
(* stop_monitoring() waits for the thread in chunks and pumps the event    *)
(* queue between them, so every handler of the window, stop_monitoring()   *)
(* included, may run inside it: its activations form a stack, and only the *)
(* topmost one makes progress.                                             *)
(***************************************************************************)
EXTENDS MonitorWorker

CONSTANTS
    MaxStarts,   \* bound: workers ever started
    MaxNested,   \* bound: activations of stop_monitoring() at once
    MaxChunks    \* chunks until the wait gives up (60000 ms / 2000 ms)

ASSUME WindowAssumption ==
    /\ MaxStarts \in Nat
    /\ MaxNested \in Nat
    /\ MaxChunks \in Nat \ {0}

VARIABLES
    window,      \* "open", "closed", or "aborted": the process died because
                 \* a QThread object was destroyed while its thread ran
    latest,      \* number of workers started; the newest has this number
    worker,      \* self.worker: the number of a worker, or 0
    frames,      \* activations of stop_monitoring(), the topmost first
    startOn,     \* the Start button is enabled, and Stop is not
    enableOn     \* the Enable button is enabled, and Disable is not

windowVars == <<window, latest, worker, frames, startOn, enableOn>>
vars == <<workerVars, windowVars>>

\* worker: the local it was called for; close: called by closeEvent();
\* left: chunks left; at: where it is.
Frame == [worker : 1..MaxStarts, close : BOOLEAN, left : 1..MaxChunks,
          at : {"wait", "pump", "finish"}]

Top == Head(frames)

At == IF frames = <<>> THEN "nowhere" ELSE Top.at

Advance(at) == frames' = <<[Top EXCEPT !.at = at]>> \o Tail(frames)

Init ==
    /\ InitWorker
    /\ window = "open" /\ latest = 0 /\ worker = 0
    /\ frames = <<>> /\ startOn = TRUE /\ enableOn = TRUE

\* Events are handled by the event loop or while stop_monitoring() pumps.
Pumping == At \in {"nowhere", "pump"}
Clickable == window = "open" /\ Pumping

Finished(w) == w < latest \/ thread = "finished"

-----------------------------------------------------------------------------
\* start_monitoring().
ClickStart ==
    /\ Clickable /\ startOn
    /\ worker = 0 \/ ~Running
    /\ latest < MaxStarts
    /\ latest' = latest + 1 /\ worker' = latest + 1
    /\ startOn' = FALSE
    /\ Launch
    /\ UNCHANGED <<queue, window, frames, enableOn>>

\* stop_monitoring() up to its first wait: disconnect and ask the thread to
\* stop.
BeginStop(close) ==
    /\ worker # 0
    /\ Len(frames) < MaxNested
    /\ frames' = <<[worker |-> worker, close |-> close, left |-> MaxChunks,
                    at |-> "wait"]>> \o frames
    /\ connected' = FALSE /\ stop' = TRUE
    /\ UNCHANGED <<thread, pending, session, queue, window, latest, worker,
                   startOn, enableOn>>

\* Only the newest worker can be the window's, so stop is that worker's.
ClickStop == Clickable /\ ~startOn /\ BeginStop(FALSE)

\* closeEvent().
ClickClose ==
    /\ Clickable
    /\ \/ BeginStop(TRUE)
       \/ /\ worker = 0 /\ window' = "closed"
          /\ UNCHANGED <<workerVars, latest, worker, frames, startOn, enableOn>>

\* Mutant: one wait, and then on as if the thread had finished.
ChunkOverGoesOn ==
    /\ At = "wait" /\ ~Finished(Top.worker)
    /\ Advance("finish")
    /\ UNCHANGED <<workerVars, window, latest, worker, startOn, enableOn>>

\* worker.wait(chunk) timed out: pump.
ChunkOver ==
    /\ At = "wait" /\ ~Finished(Top.worker)
    /\ Advance("pump")
    /\ UNCHANGED <<workerVars, window, latest, worker, startOn, enableOn>>

\* worker.wait(chunk) saw the thread finish.
WaitOver ==
    /\ At = "wait" /\ Finished(Top.worker)
    /\ Advance("finish")
    /\ UNCHANGED <<workerVars, window, latest, worker, startOn, enableOn>>

\* Mutant: the wait never gives up.
PumpOverForever ==
    /\ At = "pump"
    /\ Advance("wait")
    /\ UNCHANGED <<workerVars, window, latest, worker, startOn, enableOn>>

\* Mutant: the window closes although stop_monitoring() gave up.
PumpOverCloses ==
    /\ At = "pump"
    /\ \/ /\ Top.left > 1
          /\ frames' = <<[Top EXCEPT !.at = "wait", !.left = @ - 1]>> \o Tail(frames)
          /\ UNCHANGED <<connected, window>>
       \/ /\ Top.left = 1
          /\ frames' = Tail(frames)
          /\ connected' = (connected \/ Top.worker = latest)
          /\ window' = IF Top.close THEN "closed" ELSE window
    /\ UNCHANGED <<thread, stop, pending, session, queue, latest, worker, startOn, enableOn>>

\* Mutant: the wait gives up one chunk late.
PumpOverLate ==
    /\ At = "pump"
    /\ \/ /\ Top.left > 0
          /\ frames' = <<[Top EXCEPT !.at = "wait", !.left = @ - 1]>> \o Tail(frames)
          /\ UNCHANGED <<connected, window>>
       \/ /\ Top.left = 0
          /\ frames' = Tail(frames)
          /\ connected' = (connected \/ Top.worker = latest)
          /\ window' = IF Top.close /\ worker = 0 THEN "closed" ELSE window
    /\ UNCHANGED <<thread, stop, pending, session, queue, latest, worker, startOn, enableOn>>

\* processEvents() returned: wait again, or give up without another look,
\* reconnect and return.  closeEvent() closes if there is no worker any more.
PumpOver ==
    /\ At = "pump"
    /\ \/ /\ Top.left > 1
          /\ frames' = <<[Top EXCEPT !.at = "wait", !.left = @ - 1]>> \o Tail(frames)
          /\ UNCHANGED <<connected, window>>
       \/ /\ Top.left = 1
          /\ frames' = Tail(frames)
          /\ connected' = (connected \/ Top.worker = latest)
          /\ window' = IF Top.close /\ worker = 0 THEN "closed" ELSE window
    /\ UNCHANGED <<thread, stop, pending, session, queue, latest, worker, startOn, enableOn>>

\* Letting go of a worker whose thread runs destroys a live QThread.
AfterDrop(close) ==
    IF worker = latest /\ latest # 0 /\ Running THEN "aborted"
    ELSE IF close THEN "closed" ELSE window

\* The rest of stop_monitoring(), and of closeEvent() if that called it: drop
\* the reference, reset the buttons and render the final status.  If that
\* kills the process, no activation goes on.
FinishStop ==
    /\ At = "finish"
    /\ window' = AfterDrop(Top.close)
    /\ worker' = 0
    /\ startOn' = TRUE /\ enableOn' = TRUE
    /\ frames' = IF window' = "aborted" THEN <<>> ELSE Tail(frames)
    /\ UNCHANGED <<workerVars, latest>>

\* _on_enable_steering_clicked(), confirmed by the user.
ClickEnable ==
    /\ Clickable /\ enableOn
    /\ worker # 0 /\ Running
    /\ pending' = "enable" /\ enableOn' = FALSE
    /\ UNCHANGED <<thread, stop, session, connected, queue, window, latest, worker, frames,
                   startOn>>

\* _on_disable_steering_clicked().
ClickDisable ==
    /\ Clickable /\ ~enableOn
    /\ pending' = IF worker = 0 THEN pending ELSE "disable"
    /\ enableOn' = TRUE
    /\ UNCHANGED <<thread, stop, session, connected, queue, window, latest, worker, frames,
                   startOn>>

\* Mutant: only a status that says disabled moves the buttons.
DeliverOnlyDisabled ==
    /\ Pumping /\ window # "aborted" /\ queue # <<>>
    /\ queue' = Tail(queue)
    /\ enableOn' \in {enableOn \/ ~Head(queue)} \cup (IF connected THEN {} ELSE {enableOn})
    /\ UNCHANGED <<thread, stop, pending, session, connected, window, latest, worker,
                   frames, startOn>>

\* _on_snapshot(), through _render_steering_status().  A snapshot that was
\* posted before the disconnect may still be delivered after it.
Deliver ==
    /\ Pumping /\ window # "aborted" /\ queue # <<>>
    /\ queue' = Tail(queue)
    /\ enableOn' \in {~Head(queue)} \cup (IF connected THEN {} ELSE {enableOn})
    /\ UNCHANGED <<thread, stop, pending, session, connected, window, latest, worker,
                   frames, startOn>>

Click == ClickStart \/ ClickStop \/ ClickClose \/ ClickEnable \/ ClickDisable

WindowStep == ChunkOver \/ WaitOver \/ PumpOver \/ FinishStop \/ Deliver

Next ==
    \/ Click
    \/ WindowStep
    \/ window # "aborted" /\ WorkerStep /\ UNCHANGED windowVars

Spec == Init /\ [][Next]_vars

\* The event loop keeps running.
WindowFairness ==
    /\ WF_vars(ChunkOver \/ WaitOver \/ PumpOver \/ FinishStop)
    /\ WF_vars(Deliver)

\* The worker keeps running; how a tick ends is left open.  This is assumed
\* only where a property says so: a PowerShell command may hang for long.
WorkerFairness ==
    /\ WF_vars(window # "aborted" /\ (BeginTick \/ Leave \/ Finally) /\ UNCHANGED windowVars)
    /\ WF_vars(window # "aborted" /\ (EndTick \/ TickFails) /\ UNCHANGED windowVars)

FairSpec == Spec /\ WindowFairness

-----------------------------------------------------------------------------
(* Properties. *)

\* Every variable holds a value of its kind.
TypeOK ==
    /\ thread \in {"none", "loop", "tick", "ending", "finished"}
    /\ stop \in BOOLEAN /\ connected \in BOOLEAN
    /\ pending \in {"none", "enable", "disable"}
    /\ Steering!TypeOK
    /\ queue \in Seq(BOOLEAN) /\ Len(queue) <= MaxQueue
    /\ window \in {"open", "closed", "aborted"}
    /\ latest \in 0..MaxStarts /\ worker \in {0, latest}
    /\ frames \in Seq(Frame) /\ Len(frames) <= MaxNested
    /\ startOn \in BOOLEAN /\ enableOn \in BOOLEAN

\* When run() has returned, steering is off, and what could not be given back
\* is reported (worker.py 243-251).
FinishedIsClean ==
    thread = "finished" => ~enabled /\ ~shown /\ (restored <=> holder = Nobody)

\* stop_monitoring() reads the final status of its worker only after the
\* thread has finished, so the status it shows is the last word
\* (main_window.py 96-106).
StopReportIsFinal ==
    [][At = "finish" /\ frames' = Tail(frames)
         /\ Top.worker = latest => thread = "finished"]_vars

\* The window closes only when no thread runs any more (main_window.py
\* 636-647).
ClosedMeansStopped == window = "closed" => ~Running

\* The thread finishes once it has been asked to.
StopFinishes == WorkerFairness => (stop ~> thread = "finished" \/ window = "aborted")

\* The window does not hang on a worker that does: once the user stops
\* clicking, every activation of stop_monitoring() returns.
StopReturns == <>[][~Click]_vars => (frames # <<>> ~> frames = <<>>)

\* Once the user leaves a running window alone and ticks succeed, the buttons
\* come to agree with the status the controller publishes.
ButtonsSettle ==
    /\ WorkerFairness
    /\ <>[](window = "open" /\ frames = <<>> /\ connected /\ Running)
    /\ <>[][~Click]_vars /\ <>[][~TickFails]_vars
    => <>[](enableOn = ~shown)

\* A live worker is never abandoned (main_window.py 99-106; README, GUI usage,
\* item 6).
NeverAbandoned == window # "aborted"
=============================================================================
