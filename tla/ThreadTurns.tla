----------------------------- MODULE ThreadTurns -----------------------------
(***************************************************************************)
(* The turns of one thread as the frontend knows them: sending and         *)
(* steering (useThreadMessaging.ts), stopping, the app-server's turn       *)
(* events (useThreadTurnEvents.ts), automatic continuation after an error  *)
(* (useThreadAutoContinue.ts) and the reducer's part of it.  Handlers run  *)
(* to their next await; what they dispatch is visible to later ones only   *)
(* after React's next commit, so the hooks also keep refs of their own.    *)
(* A turn is named after the call that asks for it.                        *)
(***************************************************************************)
EXTENDS Naturals, Sequences, FiniteSets, SequencesExt

CONSTANTS Sends,        \* messages the user sends, one call each
          Autos,        \* continuations the timer may send
          Steering,     \* steerEnabled
          MaxStops,     \* bound on the user's stops
          Unset, None, Pending

Calls == Sends \cup Autos
Turns == Calls

ASSUME TurnsAssumption ==
  /\ Sends \cap Autos = {} /\ MaxStops \in Nat /\ Steering \in BOOLEAN
  /\ {Unset, None, Pending} \cap Calls = {} /\ Unset # None /\ Pending # None

VARIABLES
  turn,     \* the reducer's view: isProcessing, activeTurnId
  shown,    \* the view of the last commit, which refs and closures hold
  refs,     \* the hook's refs
  record,   \* the current TurnExecutionSummary
  auto,     \* useThreadAutoContinue: its switch, its timer and the fence that
            \* was in force when the timer was set (its phase is only shown)
  fence,    \* manualStopFenceByThreadRef has an entry (its number is only compared
            \* with one captured while there was none)
  barred,   \* manuallyStoppedTurnRef
  call,     \* each send
  stop,     \* the interruption in flight: interruptInFlightRef
  stops,
  orders,   \* turn/interrupt requests on their way
  running,  \* the turn the app-server works on
  wire,     \* its notifications and replies on their way
  halted,   \* the user has stopped the thread and asked for no turn since
  doomed,   \* sends that were under way when the user stopped
  calm      \* every turn was asked for with nothing on its way, and after every
            \* error the app-server has said the thread's status

uiVars     == <<turn, shown, refs, record>>
autoVars   == <<auto, fence, barred>>
serverVars == <<orders, running, wire>>
vars == <<uiVars, autoVars, call, stop, stops, serverVars, halted, doomed, calm>>

Idle == [processing |-> FALSE, active |-> None]

Line(kind, t, how) == [kind |-> kind, turn |-> t, how |-> how]

CallSteps == {"idle", "preflight", "start", "steer", "answer", "resume", "done"}

TypeOK ==
  /\ {turn, shown} \subseteq [processing : BOOLEAN, active : Turns \cup {None}]
  /\ refs \in [known : Turns \cup {Unset, None}, adopted : Turns \cup {Unset, None},
               ahead : BOOLEAN, continues : BOOLEAN, pendingStop : BOOLEAN,
               execution : Turns \cup {None}, finalized : Turns \cup {None}]
  /\ record \in [turn : Turns \cup {None},
                 status : {"none", "active", "completed", "interrupted", "failed"}]
  /\ auto \in [enabled : BOOLEAN, timer : BOOLEAN, fence : BOOLEAN]
  /\ fence \in BOOLEAN /\ barred \subseteq Turns
  /\ call \in [Calls -> [at : CallSteps, steers : Turns \cup {None}, recovered : BOOLEAN]]
  /\ stop \in Turns \cup {None, Pending} /\ stops \in 0 .. MaxStops
  /\ orders \subseteq Turns \cup {Pending}
  /\ running \in Turns \cup {None}
  /\ halted \in BOOLEAN /\ doomed \subseteq Calls /\ calm \in BOOLEAN

Init ==
  /\ turn = Idle /\ shown = Idle
  /\ refs = [known |-> Unset, adopted |-> Unset, ahead |-> FALSE, continues |-> FALSE,
             pendingStop |-> FALSE, execution |-> None, finalized |-> None]
  /\ record = [turn |-> None, status |-> "none"]
  /\ auto = [enabled |-> Autos # {}, timer |-> FALSE, fence |-> FALSE]
  /\ fence = FALSE /\ barred = {}
  /\ call = [k \in Calls |-> [at |-> "idle", steers |-> None, recovered |-> FALSE]]
  /\ stop = None /\ stops = 0
  /\ orders = {} /\ running = None /\ wire = <<>>
  /\ halted = FALSE /\ doomed = {} /\ calm = TRUE

\* React renders what the handlers have dispatched.
Commit == shown # turn /\ shown' = turn
          /\ UNCHANGED <<turn, refs, record, autoVars, call, stop, stops, serverVars,
                         halted, doomed, calm>>

-----------------------------------------------------------------------------
(* Which turn is active: what this hook wrote, as long as the reducer has   *)
(* not caught up or been changed by somebody else.                          *)

Adopt(r) ==
  IF r.adopted = shown.active THEN r
  ELSE [r EXCEPT !.adopted = shown.active, !.known = shown.active]

LookUp(r) ==
  IF ~r.ahead \/ r.known = Unset THEN Adopt(r)
  ELSE IF shown.active = r.known THEN Adopt([r EXCEPT !.ahead = FALSE])
  ELSE IF r.adopted # Unset /\ shown.active # r.adopted
       THEN Adopt([r EXCEPT !.ahead = FALSE, !.known = shown.active])
  ELSE [r EXCEPT !.adopted = shown.active]

KnownTurn(r) == IF r.known = Unset THEN shown.active ELSE LookUp(r).known

-----------------------------------------------------------------------------
(* The reducer's execution summary. *)

StartExecutionOnce(r, t, continues) ==
  IF r.status = "active" /\ (r.turn = t \/ continues) THEN r
  ELSE [turn |-> t, status |-> "active"]

StartExecution(r, t, continues) ==
  IF r.status = "active" /\ (r.turn = t \/ continues)
  THEN [r EXCEPT !.turn = t]
  ELSE [turn |-> t, status |-> "active"]

CompleteExecution(r, t, how) ==
  IF r.turn = t /\ r.status = "active" THEN [r EXCEPT !.status = how] ELSE r

\* finalizeTerminalTurn: a turn is finalized once.
Finalize(t, how) ==
  IF t = None \/ t = refs.finalized THEN record ELSE CompleteExecution(record, t, how)

Finalized(r, t) == IF t = None THEN r ELSE [r EXCEPT !.finalized = t]

ResetRefsOnly(r) == [r EXCEPT !.ahead = FALSE, !.pendingStop = FALSE]

\* resetThreadTurnState.
Reset(r) == [r EXCEPT !.known = None, !.ahead = FALSE, !.pendingStop = FALSE]

-----------------------------------------------------------------------------
(* Automatic continuation. *)

\* clearTimer; scheduleRetry, which does nothing when switched off.
Quiet     == [auto EXCEPT !.timer = FALSE]
Scheduled == [auto EXCEPT !.timer = auto.enabled, !.fence = fence]

ContinuesAfter(t) == auto.enabled /\ ~fence /\ t \notin barred

AutoErrorUnfenced(t) ==
  /\ barred' = barred \ {t} /\ UNCHANGED fence
  /\ auto' = IF t \in barred \/ ~auto.enabled THEN auto ELSE Scheduled

AutoError(t) ==
  IF fence THEN barred' = barred \cup {t} /\ UNCHANGED <<auto, fence>>
  ELSE /\ barred' = barred \ {t} /\ UNCHANGED fence
       /\ auto' = IF t \in barred \/ ~auto.enabled THEN auto ELSE Scheduled

-----------------------------------------------------------------------------
(* What arrives, notifications and replies in one stream: the turn/started  *)
(* that the app-server sends right behind a turn/start's reply may come     *)
(* before it.                                                               *)

MayArrive(i) ==
  \/ i = 1
  \/ i = 2 /\ wire[1].kind = "accepted" /\ wire[2] = Line("started", wire[1].turn, "")

Arrives(i, kind) ==
  /\ i \in DOMAIN wire /\ wire[i].kind = kind /\ MayArrive(i)
  /\ wire' = RemoveAt(wire, i)

UserFrame == UNCHANGED <<stops, halted, doomed, calm>>

OnTurnStarted(i) ==
  LET t == wire[i].turn
      begun == StartExecution(record, t, refs.continues)
      seen == [refs EXCEPT !.execution = t, !.continues = FALSE] IN
  /\ Arrives(i, "started")
  /\ IF refs.pendingStop
     THEN /\ refs' = [seen EXCEPT !.pendingStop = FALSE]
          /\ record' = CompleteExecution(begun, t, "interrupted")
          /\ orders' = orders \cup {t} /\ UNCHANGED turn
     ELSE /\ refs' = [seen EXCEPT !.adopted = shown.active, !.ahead = TRUE, !.known = t]
          /\ record' = begun
          /\ turn' = [processing |-> TRUE, active |-> t] /\ UNCHANGED orders
  /\ auto' = Quiet
  /\ UNCHANGED <<shown, fence, barred, call, stop, running>> /\ UserFrame

OnTurnCompleted(i) ==
  LET t == wire[i].turn  active == KnownTurn(refs) IN
  /\ Arrives(i, "completed")
  /\ IF active \notin {None, t} THEN refs' = LookUp(refs) /\ UNCHANGED <<turn, record>>
     ELSE /\ record' = Finalize(t, wire[i].how)
          /\ refs' = Reset([Finalized(LookUp(refs), t) EXCEPT !.continues = FALSE])
          /\ turn' = Idle
  /\ auto' = Quiet
  /\ UNCHANGED <<shown, fence, barred, call, stop, orders, running>> /\ UserFrame

OnTurnError(i) ==
  LET t == wire[i].turn  active == KnownTurn(refs) IN
  /\ Arrives(i, "error")
  /\ IF wire[i].how = "willRetry"
     THEN /\ refs' = [refs EXCEPT !.continues = TRUE] /\ UNCHANGED <<turn, record, auto, fence>>
          /\ barred' = IF fence THEN barred \cup {t} ELSE barred
     ELSE /\ AutoError(t)
          /\ IF ContinuesAfter(t)
             THEN refs' = [refs EXCEPT !.continues = TRUE] /\ UNCHANGED <<turn, record>>
             ELSE IF active \notin {None, t}
             THEN refs' = LookUp(refs) /\ UNCHANGED <<turn, record>>
             ELSE /\ record' = Finalize(t, "failed")
                  /\ refs' = Reset([Finalized(LookUp(refs), t) EXCEPT !.continues = FALSE])
                  /\ turn' = Idle
  /\ UNCHANGED <<shown, call, stop, orders, running>> /\ UserFrame

\* The last turn is over and nothing continues it: an "active" is an echo.
OnlyStatus ==
  /\ refs.execution # None /\ refs.finalized = refs.execution
  /\ KnownTurn(refs) = None /\ ~refs.continues

OnStatusActive(i) ==
  /\ Arrives(i, "active")
  /\ refs' = LookUp(refs)
  /\ turn' = IF OnlyStatus THEN turn ELSE [turn EXCEPT !.processing = TRUE]
  /\ UNCHANGED <<shown, record, autoVars, call, stop, orders, running>> /\ UserFrame

IdleUnlessContinued == IF refs.continues THEN turn ELSE Idle
NoLongerProcessing == Idle

OnStatusIdle(i) ==
  LET active == KnownTurn(refs)
      t == IF active # None THEN active ELSE refs.execution IN
  /\ Arrives(i, "idle")
  /\ IF refs.continues THEN record' = record /\ refs' = Reset(LookUp(refs))
     ELSE record' = Finalize(t, wire[i].how) /\ refs' = Reset(Finalized(LookUp(refs), t))
  /\ turn' = NoLongerProcessing
  /\ UNCHANGED <<shown, autoVars, call, stop, orders, running>> /\ UserFrame

OnThreadClosed(i) ==
  LET active == KnownTurn(refs)
      t == IF active # None THEN active ELSE refs.execution IN
  /\ Arrives(i, "closed")
  /\ record' = Finalize(t, "failed")
  /\ refs' = Reset([Finalized(LookUp(refs), t) EXCEPT !.continues = FALSE])
  /\ turn' = Idle
  /\ auto' = [Quiet EXCEPT !.enabled = FALSE]
  /\ fence' = FALSE /\ barred' = {}
  /\ UNCHANGED <<shown, call, stop, orders, running>> /\ UserFrame

-----------------------------------------------------------------------------
(* Sending: sendMessageToThread from one await to the next. *)

At(k, label) == call' = [call EXCEPT ![k].at = label]
Done(k) == At(k, "done")
Under(k) == call[k].at \notin {"idle", "done"}

\* onUserTurnRequested: a turn is asked for, so a stop no longer holds.
Asked == fence' = FALSE /\ barred' = {}

\* Nothing the user has not seen is on its way.
Settled == shown = turn /\ wire = <<>> /\ \A k \in Calls : ~Under(k)

Send(k) ==
  /\ call[k].at = "idle"
  /\ \/ /\ ~shown.processing
        /\ Asked /\ halted' = FALSE
        /\ At(k, "preflight") /\ UNCHANGED turn
     \/ /\ Steering /\ shown.processing /\ KnownTurn(refs) # None
        /\ call' = [call EXCEPT ![k].at = "steer", ![k].steers = KnownTurn(refs)]
        /\ turn' = [turn EXCEPT !.processing = TRUE]
        /\ UNCHANGED <<fence, barred, halted>>
  /\ refs' = LookUp(refs) /\ calm' = (calm /\ Settled)
  /\ UNCHANGED <<shown, record, auto, stop, stops, serverVars, doomed>>

\* The timer of scheduleRetry, which holds the fence it was set under.
AutoFires(k) ==
  /\ auto.timer /\ auto.enabled /\ fence = auto.fence
  /\ IF shown.processing \/ shown.active # None
     THEN UNCHANGED <<auto, fence, barred, call, refs, calm>>
     ELSE /\ call[k].at = "idle" /\ calm' = (calm /\ Settled)
          /\ auto' = Quiet
          /\ Asked /\ refs' = LookUp(refs) /\ At(k, "preflight")
  /\ UNCHANGED <<turn, shown, record, stop, stops, serverVars, halted, doomed>>

\* What a call's end means to the timer that made it.
AutoAfter(k, sent) == auto' = IF k \in Autos /\ ~sent /\ ~fence THEN Scheduled ELSE auto

Preflight(k) ==
  /\ call[k].at = "preflight"
  /\ \/ /\ At(k, "start") /\ turn' = [turn EXCEPT !.processing = TRUE] /\ UNCHANGED auto
     \/ Done(k) /\ AutoAfter(k, FALSE) /\ UNCHANGED turn
  /\ UNCHANGED <<shown, refs, record, fence, barred, stop, serverVars>> /\ UserFrame

ReplyFrame == UNCHANGED <<shown, refs, record, fence, barred, stop, orders, running>> /\ UserFrame

StartAccepted(i) ==
  /\ Arrives(i, "accepted")
  /\ turn' = [turn EXCEPT !.active = wire[i].turn]
  /\ Done(wire[i].turn) /\ AutoAfter(wire[i].turn, TRUE) /\ ReplyFrame

StartRefused(i) ==
  /\ Arrives(i, "refused")
  /\ turn' = Idle
  /\ Done(wire[i].turn) /\ AutoAfter(wire[i].turn, FALSE) /\ ReplyFrame

\* recoverMissingThreadRuntime: the thread is resumed once, then asked again.
StartNotFound(i) ==
  LET k == wire[i].turn IN
  /\ Arrives(i, "notFound")
  /\ IF call[k].recovered
     THEN turn' = Idle /\ Done(k) /\ AutoAfter(k, FALSE)
     ELSE /\ call' = [call EXCEPT ![k].at = "resume", ![k].recovered = TRUE]
          /\ UNCHANGED <<turn, auto>>
  /\ ReplyFrame

Resumed(k) ==
  /\ call[k].at = "resume"
  /\ \/ At(k, "start") /\ turn' = [turn EXCEPT !.processing = TRUE] /\ UNCHANGED auto
     \/ turn' = Idle /\ Done(k) /\ AutoAfter(k, FALSE)
  /\ UNCHANGED wire /\ ReplyFrame

SteerAccepted(i) ==
  /\ Arrives(i, "steered")
  /\ turn' = [turn EXCEPT !.active = call[wire[i].turn].steers]
  /\ Done(wire[i].turn) /\ UNCHANGED auto /\ ReplyFrame

SteerStale(i) ==
  /\ Arrives(i, "stale")
  /\ turn' = Idle
  /\ Done(wire[i].turn) /\ UNCHANGED auto /\ ReplyFrame

\* The user switches automatic continuation on or off.
SetEnabled ==
  /\ Autos # {}
  /\ auto' = [Quiet EXCEPT !.enabled = ~auto.enabled]
  /\ halted' = (halted /\ auto.enabled)
  /\ UNCHANGED <<uiVars, fence, barred, call, stop, stops, serverVars, doomed, calm>>

-----------------------------------------------------------------------------
(* Stopping: useThreads.interruptTurn, then useThreadMessaging.interruptTurn. *)

Barring(t)    == IF t = None THEN {} ELSE {t}

\* pendingInterruptsRef: the next turn/started is to be interrupted.
NoteNothing(r)  == r
NoteInterrupt(r) == [r EXCEPT !.pendingStop = TRUE]

Stop ==
  LET t == KnownTurn(refs) IN
  /\ stops < MaxStops /\ stops' = stops + 1
  /\ fence' = TRUE /\ halted' = TRUE
  /\ auto' = Quiet
  /\ barred' = barred \cup Barring(shown.active)
  /\ doomed' = doomed \cup {k \in Calls : Under(k)}
  /\ IF stop # None THEN UNCHANGED <<turn, refs, stop, orders>>
     ELSE IF t = None
     THEN /\ refs' = NoteInterrupt(LookUp(refs))
          /\ turn' = Idle
          /\ stop' = Pending /\ orders' = orders \cup {Pending}
     ELSE /\ refs' = LookUp(refs)
          /\ stop' = t /\ orders' = orders \cup {t} /\ UNCHANGED turn
  /\ UNCHANGED <<shown, record, call, running, wire, calm>>

StopAnswered(i) ==
  /\ Arrives(i, "stopped") \/ Arrives(i, "unstopped")
  /\ IF wire[i].kind = "stopped" /\ stop # Pending
     THEN record' = CompleteExecution(record, stop, "interrupted") /\ turn' = Idle
     ELSE UNCHANGED <<turn, record>>
  /\ stop' = None
  /\ UNCHANGED <<shown, refs, autoVars, call, orders, running>> /\ UserFrame

-----------------------------------------------------------------------------
(* The app-server, behind the backend. *)

Emits(lines) == wire' = wire \o lines
ServerFrame == UNCHANGED <<uiVars, autoVars, stop>> /\ UserFrame

\* Its status follows the turn.
Accept(k) ==
  /\ call[k].at = "start" /\ running = None
  /\ running' = k /\ At(k, "answer")
  /\ Emits(<<Line("accepted", k, ""), Line("started", k, ""), Line("active", k, "")>>)
  /\ UNCHANGED orders /\ ServerFrame

Decline(k) ==
  /\ call[k].at = "start"
  /\ \E reply \in {"refused", "notFound"} : Emits(<<Line(reply, k, "")>>)
  /\ At(k, "answer") /\ UNCHANGED <<orders, running>> /\ ServerFrame

Steer(k) ==
  /\ call[k].at = "steer"
  /\ Emits(<<Line(IF running = call[k].steers THEN "steered" ELSE "stale", k, "")>>)
  /\ At(k, "answer") /\ UNCHANGED <<orders, running>> /\ ServerFrame

Over(how) == <<Line("completed", running, how), Line("idle", running, "completed")>>

End ==
  /\ running # None /\ running' = None
  /\ Emits(Over("completed"))
  /\ UNCHANGED <<call, orders>> /\ ServerFrame

\* After an error: turn/completed and the status, the status alone, or nothing
\* when the process has ended.
Fail ==
  /\ running # None /\ running' = None
  /\ LET error == <<Line("error", running, "")>> IN
     \/ Emits(error \o Over("failed")) /\ UNCHANGED calm
     \/ Emits(error \o <<Line("idle", running, "failed")>>) /\ UNCHANGED calm
     \/ Emits(error) /\ calm' = FALSE
  /\ UNCHANGED <<uiVars, autoVars, call, stop, stops, orders, halted, doomed>>

Interrupt(o) ==
  /\ o \in orders /\ orders' = orders \ {o}
  /\ LET hit == running # None /\ o \in {running, Pending}
         reply == IF o # stop THEN <<>>
                  ELSE <<Line(IF hit THEN "stopped" ELSE "unstopped", None, "")>> IN
     /\ Emits(IF hit THEN Over("interrupted") \o reply ELSE reply)
     /\ running' = IF hit THEN None ELSE running
  /\ UNCHANGED call /\ ServerFrame

\* It tries again by itself: the turn goes on.
Retry ==
  /\ running # None /\ wire = <<>>
  /\ Emits(<<Line("error", running, "willRetry")>>)
  /\ UNCHANGED <<call, orders, running>> /\ ServerFrame

Close ==
  /\ \A k \in Calls : ~Under(k)
  /\ orders = {} /\ wire = <<>>
  /\ running' = None /\ Emits(<<Line("closed", None, "")>>)
  /\ UNCHANGED <<call, orders>> /\ ServerFrame

Server == End \/ Fail \/ Retry \/ Close \/ (\E k \in Calls : Accept(k) \/ Decline(k) \/ Steer(k))
          \/ \E o \in Turns \cup {Pending} : Interrupt(o)

Handle ==
  \E i \in DOMAIN wire :
    \/ OnTurnStarted(i) \/ OnTurnCompleted(i) \/ OnTurnError(i)
    \/ OnStatusActive(i) \/ OnStatusIdle(i) \/ OnThreadClosed(i)
    \/ StartAccepted(i) \/ StartRefused(i) \/ StartNotFound(i)
    \/ SteerAccepted(i) \/ SteerStale(i) \/ StopAnswered(i)

User == (\E k \in Sends : Send(k)) \/ Stop \/ SetEnabled

Next ==
  \/ Commit
  \/ Handle
  \/ \E k \in Calls : Preflight(k) \/ Resumed(k)
  \/ \E k \in Autos : AutoFires(k)
  \/ User
  \/ Server

Spec == Init /\ [][Next]_vars

Fairness ==
  /\ WF_vars(Commit) /\ WF_vars(Handle)
  /\ \A k \in Calls : WF_vars(Preflight(k)) /\ WF_vars(Resumed(k))
                      /\ WF_vars(Accept(k) \/ Decline(k)) /\ WF_vars(Steer(k))
  /\ \A k \in Autos : WF_vars(AutoFires(k))
  /\ \A o \in Turns \cup {Pending} : WF_vars(Interrupt(o))

FairSpec == Spec /\ Fairness

-----------------------------------------------------------------------------
(* Properties. *)

Answered == wire = <<>> /\ orders = {} /\ stop = None /\ \A k \in Calls : ~Under(k)

\* A user who waits for what is on its way sees what the app-server does: when
\* everything asked has been answered and everything said has been heard, a stop
\* would name the turn that runs, committed or not, and once committed the thread
\* shows as processing that turn, or as idle when none runs.
Agrees ==
  calm /\ Answered =>
    /\ KnownTurn(refs) = running
    /\ shown = turn => turn = [processing |-> running # None, active |-> running]

\* The execution record is of the turn that runs, and is closed when none does,
\* however the last one ended; it stays open only over an error that a further
\* turn is to continue.
RecordFollows ==
  calm /\ Answered /\ shown = turn =>
    IF running # None THEN record = [turn |-> running, status |-> "active"]
    ELSE record.status = "active" => refs.continues

\* After a stop nothing continues the thread by itself until the user asks for
\* a turn: no timer set before, no error reported late and no continuation
\* that was refused meanwhile.
StopHolds ==
  [][\A k \in Autos : halted /\ call[k].at = "idle" => call'[k].at = "idle"]_vars

\* A stop ends the turn it meets or the one about to start, even when it comes
\* before the app-server has accepted the turn.
StopEnds == \A k \in Calls : k \in doomed ~> running # k /\ ~Under(k)

\* A continuation that is due is sent, unless the user or the app-server makes
\* it needless.
RetryComesThrough ==
  auto.timer ~> ~auto.timer \/ \A k \in Autos : call[k].at # "idle"
=============================================================================
