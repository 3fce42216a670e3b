-------------------------- MODULE AppServerSession --------------------------
(***************************************************************************)
(* The request half of WorkspaceSession (backend/app_server.rs): callers   *)
(* that send JSON-RPC requests to one app-server process, the reader task  *)
(* that owns its stdout, and the three maps they share, each behind its    *)
(* own lock: pending, request_context and active_turns.  An action is what *)
(* runs between two lock acquisitions or awaits.  The process itself is    *)
(* external: it answers, announces turns and exits as it pleases.          *)
(***************************************************************************)
EXTENDS Naturals, Sequences, FiniteSets

CONSTANTS Requests,      \* calls of send_request_for_workspace, one id each
          Threads,
          Turns,         \* turn ids the process may hand out
          Methods,       \* the methods callers use, a subset of AllMethods
          Serial,        \* callers start no turn on a thread that has one
          RetryErrors,   \* the process sends `error` with willRetry = true
          Timeouts,      \* REQUEST_TIMEOUT may fire
          MaxOutput,     \* bound on unread stdout lines
          PendingTurn,   \* PENDING_TURN_ID
          NoTurn         \* no entry in active_turns; "" in an event

AllMethods == {"turn/start", "turn/steer", "review/start", "other"}

ASSUME MethodsAssumption == Methods \subseteq AllMethods
ASSUME FlagsAssumption == {Serial, RetryErrors, Timeouts} \subseteq BOOLEAN
ASSUME TurnsAssumption == /\ PendingTurn \notin Turns
                          /\ NoTurn \notin Turns
                          /\ PendingTurn # NoTurn
ASSUME MaxOutputAssumption == MaxOutput \in Nat \ {0}

VARIABLES
  pc,            \* where each caller is in send_request_for_workspace
  call,          \* the method and the thread of each call
  rx,            \* the oneshot channel of each call
  outcome,       \* what each call returned
  pending, context, active, outputClosed,  \* fields of WorkspaceSession
  stdin,         \* the caller holding the stdin lock: at most one
  reader,        \* where the reader task is
  held,          \* what it drained at the end of output
  emitted,       \* synthetic error events sent to the frontend
  shown,         \* what the frontend has been told of each turn
  alive, inbox, stdout, turn               \* the process and its pipes

callerVars == <<pc, call, rx, outcome>>
mapVars    == <<pending, context, active>>
readerVars == <<reader, held, emitted, shown>>
procVars   == <<alive, inbox, stdout, turn>>
vars == <<callerVars, mapVars, outputClosed, stdin, readerVars, procVars>>

CallerPCs == {"idle", "admitted", "marked", "pendingIn", "registered",
              "queued", "writing", "waiting",
              "unpend", "uncontext", "unmark", "done"}
InFlight  == CallerPCs \ {"idle", "done"}
ReaderPCs == {"reading", "deliver", "eof", "drainPending", "drainContext",
              "drainActive", "reply", "emit", "done"}
Replies   == {"result", "error", "stopped"}
Outcomes  == {"none", "refused", "timeout"} \cup Replies
Entry     == Turns \cup {PendingTurn, NoTurn}
Lines     == [kind : {"response"}, id : Requests, reply : {"result", "error"}]
               \cup [kind : {"started", "completed", "failed", "retrying"},
                     turn : Turns]

TypeOK ==
  /\ pc \in [Requests -> CallerPCs]
  /\ call \in [Requests -> [method : AllMethods, thread : Threads]]
  /\ rx \in [Requests -> {"empty"} \cup Replies]
  /\ outcome \in [Requests -> Outcomes]
  /\ pending \subseteq Requests
  /\ context \subseteq Requests
  /\ active \in [Threads -> Entry]
  /\ outputClosed \in BOOLEAN
  /\ stdin \subseteq Requests
  /\ reader \in ReaderPCs
  /\ held \in [pending : SUBSET Requests, context : SUBSET Requests,
               active : [Threads -> Entry]]
  /\ emitted \subseteq [thread : Threads, turn : Entry]
  /\ shown \in [Turns -> {"unseen", "started", "over"}]
  /\ alive \in BOOLEAN
  /\ inbox \subseteq Requests
  /\ stdout \in Seq(Lines)
  /\ turn \in [Turns -> [state : {"unused", "accepted", "running", "ended"},
                         thread : Threads]]

Init ==
  /\ pc = [r \in Requests |-> "idle"]
  /\ call \in {[r \in Requests |-> [method |-> "other", thread |-> t]] : t \in Threads}
  /\ rx = [r \in Requests |-> "empty"]
  /\ outcome = [r \in Requests |-> "none"]
  /\ pending = {} /\ context = {}
  /\ active = [t \in Threads |-> NoTurn]
  /\ outputClosed = FALSE
  /\ stdin = {}
  /\ reader = "reading"
  /\ held = [pending |-> {}, context |-> {}, active |-> [t \in Threads |-> NoTurn]]
  /\ emitted = {}
  /\ shown = [u \in Turns |-> "unseen"]
  /\ alive = TRUE /\ inbox = {} /\ stdout = <<>>
  /\ turn \in {[u \in Turns |-> [state |-> "unused", thread |-> t]] : t \in Threads}

-----------------------------------------------------------------------------
(* The callers. *)

StartsTurn(r) == call[r].method \in {"turn/start", "review/start"}
Marks(r)      == call[r].method = "turn/start"

Goto(r, label) == pc' = [pc EXCEPT ![r] = label]
Return(r, what) == outcome' = [outcome EXCEPT ![r] = what]

\* What the frontend does in front of the call: one turn per thread.
ThreadFree(t) ==
  /\ active[t] = NoTurn
  /\ \A r \in Requests : StartsTurn(r) /\ call[r].thread = t => pc[r] \notin InFlight

Call(r, m, t) ==
  /\ pc[r] = "idle"
  /\ Serial /\ m \in {"turn/start", "review/start"} => ThreadFree(t)
  /\ call' = [call EXCEPT ![r] = [method |-> m, thread |-> t]]
  /\ IF outputClosed
       THEN Goto(r, "done") /\ Return(r, "refused")
       ELSE Goto(r, "admitted") /\ UNCHANGED outcome
  /\ UNCHANGED <<rx, mapVars, outputClosed, stdin, readerVars, procVars>>

SetPendingMarker(r) ==
  /\ pc[r] = "admitted"
  /\ active' = IF Marks(r) THEN [active EXCEPT ![call[r].thread] = PendingTurn]
                           ELSE active
  /\ Goto(r, "marked")
  /\ UNCHANGED <<call, rx, outcome, pending, context, outputClosed, stdin,
                 readerVars, procVars>>

\* mutant: the reply channel is filed under the thread instead of the id
InsertPendingByThread(r) ==
  /\ pc[r] = "marked"
  /\ pending' = pending \cup {call[r].thread}
  /\ Goto(r, "pendingIn")
  /\ UNCHANGED <<call, rx, outcome, context, active, outputClosed, stdin,
                 readerVars, procVars>>

InsertPending(r) ==
  /\ pc[r] = "marked"
  /\ pending' = pending \cup {r}
  /\ Goto(r, "pendingIn")
  /\ UNCHANGED <<call, rx, outcome, context, active, outputClosed, stdin,
                 readerVars, procVars>>

InsertContext(r) ==
  /\ pc[r] = "pendingIn"
  /\ context' = context \cup {r}
  /\ Goto(r, "registered")
  /\ UNCHANGED <<call, rx, outcome, pending, active, outputClosed, stdin,
                 readerVars, procVars>>

\* write_message, before the stdin lock.
CheckBeforeLock(r) ==
  /\ pc[r] = "registered"
  /\ IF outputClosed
       THEN Goto(r, "unpend") /\ Return(r, "stopped")
       ELSE Goto(r, "queued") /\ UNCHANGED outcome
  /\ UNCHANGED <<call, rx, mapVars, outputClosed, stdin, readerVars, procVars>>

\* write_message, holding the stdin lock.
LockStdin(r) ==
  /\ pc[r] = "queued"
  /\ stdin = {}
  /\ IF outputClosed
       THEN Goto(r, "unpend") /\ Return(r, "stopped") /\ UNCHANGED stdin
       ELSE Goto(r, "writing") /\ stdin' = {r} /\ UNCHANGED outcome
  /\ UNCHANGED <<call, rx, mapVars, outputClosed, readerVars, procVars>>

\* A line written to a process that has exited may still fit in the pipe.
WriteSucceeds(r) ==
  /\ pc[r] = "writing"
  /\ stdin' = {}
  /\ inbox' = IF alive THEN inbox \cup {r} ELSE inbox
  /\ Goto(r, "waiting")
  /\ UNCHANGED <<call, rx, outcome, mapVars, outputClosed, readerVars,
                 alive, stdout, turn>>

WriteFails(r) ==
  /\ pc[r] = "writing"
  /\ ~alive
  /\ stdin' = {}
  /\ Goto(r, "unpend") /\ Return(r, "stopped")
  /\ UNCHANGED <<call, rx, mapVars, outputClosed, readerVars, procVars>>

\* mutant: an error reply does not clear the marker
ReceiveReplyKeepsMarker(r) ==
  /\ pc[r] = "waiting"
  /\ rx[r] # "empty"
  /\ Return(r, rx[r])
  /\ Goto(r, "done")
  /\ UNCHANGED <<call, rx, mapVars, outputClosed, stdin, readerVars, procVars>>

ReceiveReply(r) ==
  /\ pc[r] = "waiting"
  /\ rx[r] # "empty"
  /\ Return(r, rx[r])
  /\ Goto(r, IF rx[r] = "result" THEN "done" ELSE "unmark")
  /\ UNCHANGED <<call, rx, mapVars, outputClosed, stdin, readerVars, procVars>>

\* mutant: a timeout leaves its entries behind
TimeOutKeepsEntries(r) ==
  /\ Timeouts
  /\ pc[r] = "waiting"
  /\ rx[r] = "empty"
  /\ Goto(r, "unmark") /\ Return(r, "timeout")
  /\ UNCHANGED <<call, rx, mapVars, outputClosed, stdin, readerVars, procVars>>

TimeOut(r) ==
  /\ Timeouts
  /\ pc[r] = "waiting"
  /\ rx[r] = "empty"
  /\ Goto(r, "unpend") /\ Return(r, "timeout")
  /\ UNCHANGED <<call, rx, mapVars, outputClosed, stdin, readerVars, procVars>>

RemovePending(r) ==
  /\ pc[r] = "unpend"
  /\ pending' = pending \ {r}
  /\ Goto(r, "uncontext")
  /\ UNCHANGED <<call, rx, outcome, context, active, outputClosed, stdin,
                 readerVars, procVars>>

RemoveContext(r) ==
  /\ pc[r] = "uncontext"
  /\ context' = context \ {r}
  /\ Goto(r, "unmark")
  /\ UNCHANGED <<call, rx, outcome, pending, active, outputClosed, stdin,
                 readerVars, procVars>>

\* remove_matching_active_turn
ClearedIf(t, u) == IF active[t] = u THEN [active EXCEPT ![t] = NoTurn] ELSE active

\* mutant: any failed call removes its thread's entry, whatever it holds
ClearAnyTurn(r) ==
  /\ pc[r] = "unmark"
  /\ active' = [active EXCEPT ![call[r].thread] = NoTurn]
  /\ Goto(r, "done")
  /\ UNCHANGED <<call, rx, outcome, pending, context, outputClosed, stdin,
                 readerVars, procVars>>

ClearPendingMarker(r) ==
  /\ pc[r] = "unmark"
  /\ active' = IF Marks(r) THEN ClearedIf(call[r].thread, PendingTurn) ELSE active
  /\ Goto(r, "done")
  /\ UNCHANGED <<call, rx, outcome, pending, context, outputClosed, stdin,
                 readerVars, procVars>>

CallerStep(r) ==
  \/ SetPendingMarker(r) \/ InsertPending(r) \/ InsertContext(r)
  \/ CheckBeforeLock(r) \/ LockStdin(r) \/ WriteSucceeds(r) \/ WriteFails(r)
  \/ ReceiveReply(r) \/ RemovePending(r) \/ RemoveContext(r)
  \/ ClearPendingMarker(r)

-----------------------------------------------------------------------------
(* The reader task. *)

Reading(kind) == reader = "reading" /\ stdout # <<>> /\ Head(stdout).kind = kind

\* A response takes its context at once and its pending entry last; the
\* line stays at the head of stdout in between.
ReadResponse ==
  /\ Reading("response")
  /\ context' = context \ {Head(stdout).id}
  /\ reader' = "deliver"
  /\ UNCHANGED <<callerVars, pending, active, outputClosed, stdin,
                 held, emitted, shown, procVars>>

DeliverResponse ==
  /\ reader = "deliver"
  /\ LET id == Head(stdout).id IN
       /\ rx' = IF id \in pending THEN [rx EXCEPT ![id] = Head(stdout).reply] ELSE rx
       /\ pending' = pending \ {id}
  /\ stdout' = Tail(stdout)
  /\ reader' = "reading"
  /\ UNCHANGED <<pc, call, outcome, context, active, outputClosed, stdin,
                 held, emitted, shown, alive, inbox, turn>>

\* track_active_turn_event, and the notification passed on to the frontend.
ReadTurnStarted ==
  /\ Reading("started")
  /\ LET u == Head(stdout).turn IN
       /\ active' = [active EXCEPT ![turn[u].thread] = u]
       /\ shown' = [shown EXCEPT ![u] = "started"]
  /\ stdout' = Tail(stdout)
  /\ UNCHANGED <<callerVars, pending, context, outputClosed, stdin,
                 reader, held, emitted, alive, inbox, turn>>

ReadTurnCompleted ==
  /\ Reading("completed")
  /\ LET u == Head(stdout).turn IN
       /\ active' = ClearedIf(turn[u].thread, u)
       /\ shown' = [shown EXCEPT ![u] = "over"]
  /\ stdout' = Tail(stdout)
  /\ UNCHANGED <<callerVars, pending, context, outputClosed, stdin,
                 reader, held, emitted, alive, inbox, turn>>

\* An `error` line clears the turn whatever its willRetry says; the frontend
\* takes a turn for over only when willRetry is false.
ReadTurnError ==
  /\ Reading("failed") \/ Reading("retrying")
  /\ LET u == Head(stdout).turn IN
       /\ active' = ClearedIf(turn[u].thread, u)
       /\ shown' = IF Head(stdout).kind = "failed"
                     THEN [shown EXCEPT ![u] = "over"] ELSE shown
  /\ stdout' = Tail(stdout)
  /\ UNCHANGED <<callerVars, pending, context, outputClosed, stdin,
                 reader, held, emitted, alive, inbox, turn>>

\* End of file, or a line that cannot be read.
EndOfOutput ==
  /\ reader = "reading"
  /\ stdout = <<>> => ~alive
  /\ reader' = "eof"
  /\ UNCHANGED <<callerVars, mapVars, outputClosed, stdin,
                 held, emitted, shown, procVars>>

\* mutant: the drain starts without raising the flag
MarkNothing ==
  /\ reader = "eof"
  /\ reader' = "drainPending"
  /\ UNCHANGED <<callerVars, mapVars, outputClosed, stdin, held, emitted, shown,
                 procVars>>

MarkOutputClosed ==
  /\ reader = "eof"
  /\ outputClosed' = TRUE
  /\ reader' = "drainPending"
  /\ UNCHANGED <<callerVars, mapVars, stdin, held, emitted, shown, procVars>>

DrainPending ==
  /\ reader = "drainPending"
  /\ held' = [held EXCEPT !.pending = pending]
  /\ pending' = {}
  /\ reader' = "drainContext"
  /\ UNCHANGED <<callerVars, context, active, outputClosed, stdin,
                 emitted, shown, procVars>>

DrainContext ==
  /\ reader = "drainContext"
  /\ held' = [held EXCEPT !.context = context]
  /\ context' = {}
  /\ reader' = "drainActive"
  /\ UNCHANGED <<callerVars, pending, active, outputClosed, stdin,
                 emitted, shown, procVars>>

DrainActive ==
  /\ reader = "drainActive"
  /\ held' = [held EXCEPT !.active = active]
  /\ active' = [t \in Threads |-> NoTurn]
  /\ reader' = "reply"
  /\ UNCHANGED <<callerVars, pending, context, outputClosed, stdin,
                 emitted, shown, procVars>>

\* mutant: the drained senders get no reply
ReplyNothing ==
  /\ reader = "reply"
  /\ reader' = "emit"
  /\ UNCHANGED <<callerVars, mapVars, outputClosed, stdin, held, emitted, shown,
                 procVars>>

ReplyStopped ==
  /\ reader = "reply"
  /\ rx' = [r \in Requests |-> IF r \in held.pending THEN "stopped" ELSE rx[r]]
  /\ reader' = "emit"
  /\ UNCHANGED <<pc, call, outcome, mapVars, outputClosed, stdin,
                 held, emitted, shown, procVars>>

\* mutant: any request of the thread keeps its turn from being reported
PendingOnAny(t, m) == \E r \in held.context : call[r].thread = t

\* collect_output_end_turn_error_targets
PendingOn(t, m) == \E r \in held.context : call[r].method = m /\ call[r].thread = t

\* mutant: the thread of a pending steer is not checked against those seen
ErrorTargetsTwice ==
  LET open   == {t \in Threads : ~PendingOn(t, "turn/start")}
      direct == {t \in open : held.active[t] # NoTurn}
      steer  == {t \in open : PendingOn(t, "turn/steer")}
  IN  {[thread |-> t, turn |-> IF held.active[t] = PendingTurn
                                 THEN NoTurn ELSE held.active[t]] : t \in direct}
      \cup {[thread |-> t, turn |-> NoTurn] : t \in steer}

ErrorTargets ==
  LET open   == {t \in Threads : ~PendingOn(t, "turn/start")}
      direct == {t \in open : held.active[t] # NoTurn}
      steer  == {t \in open \ direct : PendingOn(t, "turn/steer")}
  IN  {[thread |-> t, turn |-> IF held.active[t] = PendingTurn
                                 THEN NoTurn ELSE held.active[t]] : t \in direct}
      \cup {[thread |-> t, turn |-> NoTurn] : t \in steer}

EmitTurnErrors ==
  /\ reader = "emit"
  /\ emitted' = emitted \cup ErrorTargets
  /\ reader' = "done"
  /\ UNCHANGED <<callerVars, mapVars, outputClosed, stdin, held, shown, procVars>>

ReaderStep ==
  \/ ReadResponse \/ DeliverResponse
  \/ ReadTurnStarted \/ ReadTurnCompleted \/ ReadTurnError
  \/ MarkOutputClosed \/ DrainPending \/ DrainContext \/ DrainActive
  \/ ReplyStopped \/ EmitTurnErrors

\* shutdown(): the process is dead when the flag is set.
ShutdownMarksClosed ==
  /\ ~alive /\ ~outputClosed
  /\ outputClosed' = TRUE
  /\ UNCHANGED <<callerVars, mapVars, stdin, readerVars, procVars>>

-----------------------------------------------------------------------------
(* The app-server process (external). *)

ProcessFrame == UNCHANGED <<callerVars, mapVars, outputClosed, stdin, readerVars>>

PutLine(l) == Len(stdout) < MaxOutput /\ stdout' = Append(stdout, l)

TurnLine(kind, u) == [kind |-> kind, turn |-> u]

Response(r, reply) == [kind |-> "response", id |-> r, reply |-> reply]

Answer(r, reply) ==
  /\ alive /\ r \in inbox
  /\ StartsTurn(r) => reply = "error"
  /\ inbox' = inbox \ {r}
  /\ PutLine(Response(r, reply))
  /\ UNCHANGED <<alive, turn>> /\ ProcessFrame

AcceptTurn(r, u) ==
  /\ alive /\ r \in inbox /\ StartsTurn(r)
  /\ turn[u].state = "unused"
  /\ turn' = [turn EXCEPT ![u] = [state |-> "accepted", thread |-> call[r].thread]]
  /\ inbox' = inbox \ {r}
  /\ PutLine(Response(r, "result"))
  /\ UNCHANGED alive /\ ProcessFrame

\* One turn of a thread runs at a time.
AnnounceTurn(u) ==
  /\ alive /\ turn[u].state = "accepted"
  /\ \A v \in Turns : turn[v].thread = turn[u].thread => turn[v].state # "running"
  /\ turn' = [turn EXCEPT ![u].state = "running"]
  /\ PutLine(TurnLine("started", u))
  /\ UNCHANGED <<alive, inbox>> /\ ProcessFrame

EndTurn(u, kind) ==
  /\ alive /\ turn[u].state = "running"
  /\ turn' = [turn EXCEPT ![u].state = "ended"]
  /\ PutLine(TurnLine(kind, u))
  /\ UNCHANGED <<alive, inbox>> /\ ProcessFrame

RetryTurn(u) ==
  /\ RetryErrors
  /\ alive /\ turn[u].state = "running"
  /\ PutLine(TurnLine("retrying", u))
  /\ UNCHANGED <<alive, inbox, turn>> /\ ProcessFrame

Exit ==
  /\ alive
  /\ alive' = FALSE
  /\ UNCHANGED <<inbox, stdout, turn>> /\ ProcessFrame

ProcessStep ==
  \/ \E r \in Requests, reply \in {"result", "error"} : Answer(r, reply)
  \/ \E r \in Requests, u \in Turns : AcceptTurn(r, u)
  \/ \E u \in Turns : AnnounceTurn(u) \/ RetryTurn(u)
  \/ \E u \in Turns, kind \in {"completed", "failed"} : EndTurn(u, kind)
  \/ Exit

-----------------------------------------------------------------------------
Next ==
  \/ \E r \in Requests, m \in Methods, t \in Threads : Call(r, m, t)
  \/ \E r \in Requests : CallerStep(r) \/ TimeOut(r)
  \/ ReaderStep \/ EndOfOutput
  \/ ShutdownMarksClosed
  \/ ProcessStep

Spec == Init /\ [][Next]_vars

(* tokio keeps polling a task that can run: every caller and the reader go *)
(* on.  Nothing is promised of the process, of the callers' decision to    *)
(* call, or of the timeout.                                                *)
FairSpec ==
  /\ Spec
  /\ \A r \in Requests : WF_vars(CallerStep(r))
  /\ WF_vars(ReaderStep)
  /\ WF_vars(EndOfOutput /\ ~alive)

-----------------------------------------------------------------------------
(* Properties. *)

\* Once the reader has failed what it drained, no caller is left waiting for
\* a reply nobody will send: the two output_closed checks of write_message and
\* the order of mark_output_closed and the drain leave no gap.
NoStrandedRequest ==
  reader \in {"emit", "done"} =>
    \A r \in Requests : pc[r] = "waiting" => rx[r] # "empty"

\* However a call ends, neither map keeps an entry for it.
NoLeftovers ==
  \A r \in Requests : pc[r] = "done" => r \notin pending \cup context

\* A marker is in active_turns only for a turn/start that is still being sent
\* or whose turn has been accepted and not announced: a stale one would keep
\* the runtime from ever being quiescent.
MarkerHasOwner ==
  \A t \in Threads : active[t] = PendingTurn =>
    \/ \E r \in Requests : Marks(r) /\ call[r].thread = t /\ pc[r] \in InFlight
    \/ \E u \in Turns : /\ turn[u].thread = t
                        /\ turn[u].state # "unused" /\ shown[u] = "unseen"

\* At most one synthetic error per thread when output ends, and the internal
\* marker is never one of them.
OneErrorPerThread ==
  \A e \in emitted : /\ e.turn # PendingTurn
                     /\ \A f \in emitted : f.thread = e.thread => f = e

\* A turn the frontend shows as running has an entry in active_turns while the
\* reader is at work: what the quiescence check of a Provider switch reads.
LiveTurnTracked ==
  alive /\ reader \in {"reading", "deliver"} =>
    \A u \in Turns : shown[u] = "started" => active[turn[u].thread] # NoTurn

\* A turn that was running when the output ended is reported as over.
DeadTurnReported ==
  reader = "done" =>
    \A u \in Turns : shown[u] = "started" =>
      \E e \in emitted : e.thread = turn[u].thread /\ e.turn \in {u, NoTurn}

\* When the process is gone every call returns, without its timeout.
StoppedCallsReturn ==
  \A r \in Requests : (~alive /\ pc[r] \in InFlight) ~> (pc[r] = "done")

-----------------------------------------------------------------------------
(* Not promised by the code: TLC refutes it, no run checks it. *)

\* A turn/start that fails because the output ended is reported by its RPC
\* reply and not by an error event as well.
StartFailureOwnedByReply ==
  \A e \in emitted, r \in Requests :
    ~(Marks(r) /\ call[r].thread = e.thread /\ e.turn = NoTurn /\ outcome[r] = "stopped")
=============================================================================
