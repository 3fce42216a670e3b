----------------------------- MODULE RemoteBackend -----------------------------
(***************************************************************************)
(* Calls of the desktop to its daemon (remote_backend/mod.rs,              *)
(* remote_backend/transport.rs): the client kept in AppState, the          *)
(* single-flight connection, the reader and writer task of each            *)
(* connection, the retry after a disconnection.  The daemon's side         *)
(* (codex_monitor_daemon/transport.rs) is what executes and answers.       *)
(***************************************************************************)
EXTENDS Naturals, Sequences, FiniteSets, SequencesExt

CONSTANTS Callers,     \* one call of call_remote each
          RetrySafe,   \* those whose method is in can_retry_after_disconnect
          MaxConns,    \* bound on the connections of a behaviour
          QueueSize,   \* OUTBOUND_QUEUE_CAPACITY
          Impatient,   \* requests, dispatches and heartbeats may time out
          MaxResets,   \* bound on the changes of the remote settings
          Nobody, NoConn, NoReply

Conns == 1 .. MaxConns

ASSUME RemoteAssumption ==
  /\ RetrySafe \subseteq Callers /\ Nobody \notin Callers
  /\ {MaxConns, QueueSize, MaxResets} \subseteq Nat /\ QueueSize > 0
  /\ Impatient \in BOOLEAN
  /\ NoConn \notin Conns /\ NoReply \notin {"result", "refused", "gone"}

VARIABLES
  current,     \* AppState.remote_backend
  guard,       \* who holds its lock across the making of a connection
  at,          \* where each call is
  clients,     \* the clients it holds: the first, and the one of the retry
  reply,       \* what was sent to its oneshot
  opened,      \* connections made so far
  link,        \* the TCP connection
  connected,   \* RemoteBackendInner.connected
  pending,     \* RemoteBackendInner.pending
  queue,       \* the outbound channel
  reader, writer,     \* the two tasks of spawn_transport_io
  gaps,        \* remote-backend-event-gap events, per connection
  subscribed,  \* connections the daemon forwards its events to
  inbox,       \* requests that reached the daemon and are not executed yet
  answers,     \* its answers, on their way
  executed,    \* how often the daemon ran each call
  resets,
  \* what has happened, never read by the code:
  timely,      \* calls that registered before their connection was marked
  late         \* a call or an authentication gave up a live connection

callVars   == <<at, clients>>
daemonVars == <<subscribed, inbox, answers, executed>>
taskVars   == <<reader, writer, connected, gaps>>
pastVars   == <<timely, late>>
vars == <<current, guard, callVars, reply, opened, link, taskVars, pending, queue,
          daemonVars, resets, pastVars>>

Done == {"returned", "failed"}
Steps == {"idle", "ensure", "connect", "auth", "check", "insert", "send", "wait",
          "retry", "giveUp"} \cup Done

TypeOK ==
  /\ current \in Conns \cup {NoConn}
  /\ guard \in Callers \cup {Nobody}
  /\ at \in [Callers -> Steps]
  /\ clients \in [Callers -> Seq(Conns)] /\ \A k \in Callers : Len(clients[k]) <= 2
  /\ reply \in [Callers -> {NoReply, "result", "refused", "gone"}]
  /\ opened \in 0 .. MaxConns
  /\ link \in [Conns -> {"none", "up", "down"}]
  /\ connected \in [Conns -> BOOLEAN]
  /\ pending \in [Conns -> SUBSET Callers]
  /\ queue \in [Conns -> Seq(Callers)] /\ \A c \in Conns : Len(queue[c]) <= QueueSize
  /\ reader \in [Conns -> {"none", "reading", "drain", "drainAgain", "stopped"}]
  /\ writer \in [Conns -> {"none", "writing", "drain", "drainAgain", "closing", "stopped"}]
  /\ gaps \in [Conns -> Nat]
  /\ subscribed \subseteq Conns
  /\ inbox \in [Conns -> SUBSET Callers] /\ answers \in [Conns -> SUBSET Callers]
  /\ executed \in [Callers -> Nat]
  /\ resets \in 0 .. MaxResets
  /\ timely \in [Conns -> SUBSET Callers] /\ late \in BOOLEAN

Init ==
  /\ current = NoConn /\ guard = Nobody
  /\ at = [k \in Callers |-> "idle"]
  /\ clients = [k \in Callers |-> <<>>]
  /\ reply = [k \in Callers |-> NoReply]
  /\ opened = 0
  /\ link = [c \in Conns |-> "none"]
  /\ connected = [c \in Conns |-> FALSE]
  /\ pending = [c \in Conns |-> {}]
  /\ queue = [c \in Conns |-> <<>>]
  /\ reader = [c \in Conns |-> "none"] /\ writer = [c \in Conns |-> "none"]
  /\ gaps = [c \in Conns |-> 0]
  /\ subscribed = {}
  /\ inbox = [c \in Conns |-> {}] /\ answers = [c \in Conns |-> {}]
  /\ executed = [k \in Callers |-> 0]
  /\ resets = 0
  /\ timely = [c \in Conns |-> {}] /\ late = FALSE

Goto(k, step) == at' = [at EXCEPT ![k] = step]
Finish(k, step) == Goto(k, step) /\ clients' = [clients EXCEPT ![k] = <<>>]
Conn(k) == Last(clients[k])
Takes(k, c) == clients' = [clients EXCEPT ![k] = Append(@, c)]

\* Clones of a client's sender: the one in AppState and those of calls.
Held(c) == current = c \/ \E k \in Callers : c \in ToSet(clients[k])

-----------------------------------------------------------------------------
(* ensure_remote_backend *)

Begin(k) ==
  /\ at[k] = "idle"
  /\ Goto(k, "ensure")
  /\ UNCHANGED <<current, guard, clients, reply, opened, link, taskVars, pending, queue,
                 daemonVars, resets, pastVars>>

\* mutant: the lock is not kept while the connection is made
EnsureUnguarded(k) ==
  /\ at[k] = "ensure"
  /\ IF current # NoConn
       THEN Takes(k, current) /\ Goto(k, "check")
       ELSE Goto(k, "connect") /\ UNCHANGED clients
  /\ UNCHANGED <<current, guard, reply, opened, link, taskVars, pending, queue, daemonVars,
                 resets, pastVars>>

\* The cached client, or the lock is kept while a connection is made.
Ensure(k) ==
  /\ at[k] = "ensure" /\ guard = Nobody
  /\ IF current # NoConn
       THEN Takes(k, current) /\ Goto(k, "check") /\ UNCHANGED guard
       ELSE guard' = k /\ Goto(k, "connect") /\ UNCHANGED clients
  /\ UNCHANGED <<current, reply, opened, link, taskVars, pending, queue, daemonVars,
                 resets, pastVars>>

ConnectFails(k) ==
  /\ at[k] = "connect"
  /\ Finish(k, "failed")
  /\ guard' = Nobody
  /\ UNCHANGED <<current, reply, opened, link, taskVars, pending, queue, daemonVars,
                 resets, pastVars>>

\* TcpTransport::connect and spawn_transport_io
Connect(k) ==
  /\ at[k] = "connect" /\ opened < MaxConns
  /\ LET c == opened + 1
     IN  /\ opened' = c
         /\ link' = [link EXCEPT ![c] = "up"]
         /\ connected' = [connected EXCEPT ![c] = TRUE]
         /\ reader' = [reader EXCEPT ![c] = "reading"]
         /\ writer' = [writer EXCEPT ![c] = "writing"]
         /\ Takes(k, c)
  /\ Goto(k, "auth")
  /\ UNCHANGED <<current, guard, reply, gaps, pending, queue, daemonVars, resets, pastVars>>

\* The daemon accepts the token and forwards its events from then on.
Authenticated(k) ==
  /\ at[k] = "auth" /\ connected[Conn(k)] /\ link[Conn(k)] = "up"
  /\ subscribed' = subscribed \cup {Conn(k)}
  /\ current' = Conn(k)
  /\ guard' = Nobody
  /\ Goto(k, "check")
  /\ UNCHANGED <<clients, reply, opened, link, taskVars, pending, queue, inbox, answers,
                 executed, resets, pastVars>>

\* It refuses it, or its answer is lost with the connection or comes too late.
AuthFails(k) ==
  /\ at[k] = "auth"
  /\ \/ UNCHANGED <<subscribed, late>>
     \/ /\ ~connected[Conn(k)] \/ Impatient
        /\ subscribed' = subscribed \cup {Conn(k)}
        /\ late' = (late \/ connected[Conn(k)])
  /\ Finish(k, "failed")
  /\ guard' = Nobody
  /\ UNCHANGED <<current, reply, opened, link, taskVars, pending, queue, inbox, answers,
                 executed, resets, timely>>

-----------------------------------------------------------------------------
(* RemoteBackend::call *)

\* connected is read before the call registers itself: no lock holds the two.
Check(k) ==
  /\ at[k] = "check"
  /\ Goto(k, IF connected[Conn(k)] THEN "insert" ELSE "retry")
  /\ UNCHANGED <<current, guard, clients, reply, opened, link, taskVars, pending, queue,
                 daemonVars, resets, pastVars>>

Insert(k) ==
  /\ at[k] = "insert"
  /\ pending' = [pending EXCEPT ![Conn(k)] = @ \cup {k}]
  /\ timely' = IF connected[Conn(k)]
                     THEN [timely EXCEPT ![Conn(k)] = @ \cup {k}] ELSE timely
  /\ Goto(k, "send")
  /\ UNCHANGED <<current, guard, clients, reply, opened, link, taskVars, queue,
                 daemonVars, resets, late>>

Forget(k) == pending' = [pending EXCEPT ![Conn(k)] = @ \ {k}]

Send(k) ==
  /\ at[k] = "send" /\ writer[Conn(k)] # "stopped" /\ Len(queue[Conn(k)]) < QueueSize
  /\ queue' = [queue EXCEPT ![Conn(k)] = Append(@, k)]
  /\ Goto(k, "wait")
  /\ UNCHANGED <<current, guard, clients, reply, opened, link, taskVars, pending,
                 daemonVars, resets, pastVars>>

SendClosed(k) ==
  /\ at[k] = "send" /\ writer[Conn(k)] = "stopped"
  /\ Forget(k)
  /\ Goto(k, "retry")
  /\ reply' = [reply EXCEPT ![k] = NoReply]
  /\ UNCHANGED <<current, guard, clients, opened, link, taskVars, queue, daemonVars,
                 resets, pastVars>>

\* mutant: a call that is sent waits without a limit
TimeOutUnsent(k) ==
  /\ Impatient
  /\ at[k] = "send" /\ Len(queue[Conn(k)]) = QueueSize
  /\ Forget(k)
  /\ reply' = [reply EXCEPT ![k] = NoReply]
  /\ Goto(k, "giveUp")
  /\ late' = (late \/ connected[Conn(k)])
  /\ UNCHANGED <<current, guard, clients, opened, link, taskVars, queue, daemonVars,
                 resets, timely>>

\* REMOTE_SEND_TIMEOUT with a full channel, or request_timeout_for_method.
TimeOut(k) ==
  /\ Impatient
  /\ \/ at[k] = "send" /\ Len(queue[Conn(k)]) = QueueSize
     \/ at[k] = "wait" /\ reply[k] = NoReply
  /\ Forget(k)
  /\ reply' = [reply EXCEPT ![k] = NoReply]
  /\ Goto(k, "giveUp")
  /\ late' = (late \/ connected[Conn(k)])
  /\ UNCHANGED <<current, guard, clients, opened, link, taskVars, queue, daemonVars,
                 resets, timely>>

\* mutant: a call that a lost connection failed is run again
ReturnGoneRetried(k) ==
  /\ at[k] = "wait" /\ reply[k] # NoReply
  /\ IF reply[k] = "gone" THEN Goto(k, "retry") /\ UNCHANGED clients
     ELSE Finish(k, IF reply[k] = "result" THEN "returned" ELSE "failed")
  /\ reply' = [reply EXCEPT ![k] = NoReply]
  /\ UNCHANGED <<current, guard, opened, link, taskVars, pending, queue, daemonVars,
                 resets, pastVars>>

\* Every error of the oneshot is an Rpc error, that of a lost connection too:
\* the client stays cached and the call is not retried.
Return(k) ==
  /\ at[k] = "wait" /\ reply[k] # NoReply
  /\ Finish(k, IF reply[k] = "result" THEN "returned" ELSE "failed")
  /\ reply' = [reply EXCEPT ![k] = NoReply]
  /\ UNCHANGED <<current, guard, opened, link, taskVars, pending, queue, daemonVars,
                 resets, pastVars>>

\* invalidate_remote_backend_if_current
Cleared(k) == IF current = Conn(k) THEN NoConn ELSE current

\* call_remote after Disconnected: one retry of a retry-safe method.
Retry(k) ==
  /\ at[k] = "retry" /\ guard = Nobody
  /\ current' = Cleared(k)
  /\ IF k \in RetrySafe /\ Len(clients[k]) = 1
       THEN Goto(k, "ensure") /\ UNCHANGED clients
       ELSE Finish(k, "failed")
  /\ UNCHANGED <<guard, reply, opened, link, taskVars, pending, queue, daemonVars,
                 resets, pastVars>>

\* call_remote after a timeout.
GiveUp(k) ==
  /\ at[k] = "giveUp" /\ guard = Nobody
  /\ current' = Cleared(k)
  /\ Finish(k, "failed")
  /\ UNCHANGED <<guard, reply, opened, link, taskVars, pending, queue, daemonVars,
                 resets, pastVars>>

\* update_app_settings with another host, token or mode.
ResetBackend ==
  /\ resets < MaxResets /\ guard = Nobody
  /\ resets' = resets + 1
  /\ current' = NoConn
  /\ UNCHANGED <<guard, callVars, reply, opened, link, taskVars, pending, queue,
                 daemonVars, pastVars>>

-----------------------------------------------------------------------------
(* The tasks of a connection.  mark_disconnected swaps the flag, then waits *)
(* for the lock on pending to fail what is registered.                      *)

\* mutant: both tasks report the loss
SwappedAlways(c) == "drain"

Swapped(c) == IF connected[c] THEN "drain" ELSE "drainAgain"

Fails(c) == [k \in Callers |-> IF k \in pending[c] THEN "gone" ELSE reply[k]]

WriterWrites(c) ==
  /\ writer[c] = "writing" /\ queue[c] # <<>> /\ link[c] = "up"
  /\ queue' = [queue EXCEPT ![c] = Tail(@)]
  /\ inbox' = [inbox EXCEPT ![c] = @ \cup {Head(queue[c])}]
  /\ UNCHANGED <<current, guard, callVars, reply, opened, link, taskVars, pending,
                 subscribed, answers, executed, resets, pastVars>>

\* A write to a lost connection succeeds until the system knows it is lost.
WriterLoses(c) ==
  /\ writer[c] = "writing" /\ queue[c] # <<>> /\ link[c] = "down"
  /\ queue' = [queue EXCEPT ![c] = Tail(@)]
  /\ UNCHANGED <<current, guard, callVars, reply, opened, link, taskVars, pending,
                 daemonVars, resets, pastVars>>

WriterFails(c) ==
  /\ writer[c] = "writing" /\ queue[c] # <<>> /\ link[c] = "down"
  /\ queue' = [queue EXCEPT ![c] = Tail(@)]
  /\ connected' = [connected EXCEPT ![c] = FALSE]
  /\ writer' = [writer EXCEPT ![c] = Swapped(c)]
  /\ UNCHANGED <<current, guard, callVars, reply, opened, link, reader, gaps, pending,
                 daemonVars, resets, pastVars>>

\* Nobody can send any more: the task ends, and with it the sending half.
WriterEnds(c) ==
  /\ writer[c] = "writing" /\ queue[c] = <<>> /\ ~Held(c)
  /\ writer' = [writer EXCEPT ![c] = "stopped"]
  /\ UNCHANGED <<current, guard, callVars, reply, opened, link, reader, connected, gaps,
                 pending, queue, daemonVars, resets, pastVars>>

Drained(c, first) ==
  /\ pending' = [pending EXCEPT ![c] = {}]
  /\ reply' = Fails(c)
  /\ gaps' = IF first THEN [gaps EXCEPT ![c] = @ + 1] ELSE gaps

WriterDrains(c) ==
  /\ writer[c] \in {"drain", "drainAgain"}
  /\ Drained(c, writer[c] = "drain")
  /\ writer' = [writer EXCEPT ![c] = "closing"]
  /\ UNCHANGED <<current, guard, callVars, opened, link, reader, connected, queue,
                 daemonVars, resets, pastVars>>

\* The receiving end of the channel goes with the task.
WriterCloses(c) ==
  /\ writer[c] = "closing"
  /\ writer' = [writer EXCEPT ![c] = "stopped"]
  /\ queue' = [queue EXCEPT ![c] = <<>>]
  /\ UNCHANGED <<current, guard, callVars, reply, opened, link, reader, connected, gaps,
                 pending, daemonVars, resets, pastVars>>

\* dispatch_incoming_line with an answer
ReaderAnswers(c) ==
  /\ reader[c] = "reading"
  /\ \E k \in answers[c], kind \in {"result", "refused"} :
       /\ answers' = [answers EXCEPT ![c] = @ \ {k}]
       /\ pending' = [pending EXCEPT ![c] = @ \ {k}]
       /\ reply' = IF k \in pending[c] THEN [reply EXCEPT ![k] = kind] ELSE reply
  /\ UNCHANGED <<current, guard, callVars, opened, link, taskVars, queue, subscribed,
                 inbox, executed, resets, pastVars>>

\* The end of the stream, an error, or 45 s without a heartbeat.
ReaderEnds(c) ==
  /\ reader[c] = "reading"
  /\ link[c] = "down" \/ Impatient
  /\ connected' = [connected EXCEPT ![c] = FALSE]
  /\ reader' = [reader EXCEPT ![c] = Swapped(c)]
  /\ UNCHANGED <<current, guard, callVars, reply, opened, link, writer, gaps, pending,
                 queue, daemonVars, resets, pastVars>>

ReaderDrains(c) ==
  /\ reader[c] \in {"drain", "drainAgain"}
  /\ Drained(c, reader[c] = "drain")
  /\ reader' = [reader EXCEPT ![c] = "stopped"]
  /\ UNCHANGED <<current, guard, callVars, opened, link, writer, connected, queue,
                 daemonVars, resets, pastVars>>

-----------------------------------------------------------------------------
(* The network and the daemon. *)

LinkBreaks(c) ==
  /\ link[c] = "up"
  /\ link' = [link EXCEPT ![c] = "down"]
  /\ UNCHANGED <<current, guard, callVars, reply, opened, taskVars, pending, queue,
                 daemonVars, resets, pastVars>>

\* handle_client ends with its reader when the client's writer is gone.
DaemonCloses(c) ==
  /\ link[c] = "up" /\ writer[c] = "stopped"
  /\ link' = [link EXCEPT ![c] = "down"]
  /\ UNCHANGED <<current, guard, callVars, reply, opened, taskVars, pending, queue,
                 daemonVars, resets, pastVars>>

\* spawn_rpc_response_task: requests run beside each other and go on when the
\* connection is lost.
Execute(c) ==
  /\ \E k \in inbox[c] :
       /\ inbox' = [inbox EXCEPT ![c] = @ \ {k}]
       /\ executed' = [executed EXCEPT ![k] = @ + 1]
       /\ answers' = IF link[c] = "up" THEN [answers EXCEPT ![c] = @ \cup {k}] ELSE answers
  /\ UNCHANGED <<current, guard, callVars, reply, opened, link, taskVars, pending, queue,
                 subscribed, resets, pastVars>>

CallStep(k) ==
  \/ Ensure(k) \/ ConnectFails(k) \/ Connect(k) \/ Authenticated(k) \/ AuthFails(k)
  \/ Check(k) \/ Insert(k) \/ Send(k) \/ SendClosed(k) \/ TimeOut(k) \/ Return(k)
  \/ Retry(k) \/ GiveUp(k)

WriterStep(c) ==
  WriterWrites(c) \/ WriterLoses(c) \/ WriterFails(c) \/ WriterEnds(c)
    \/ WriterDrains(c) \/ WriterCloses(c)

ReaderStep(c) == ReaderAnswers(c) \/ ReaderEnds(c) \/ ReaderDrains(c)

Next ==
  \/ \E k \in Callers : Begin(k) \/ CallStep(k)
  \/ \E c \in Conns : WriterStep(c) \/ ReaderStep(c)
  \/ \E c \in Conns : LinkBreaks(c) \/ DaemonCloses(c) \/ Execute(c)
  \/ ResetBackend

Spec == Init /\ [][Next]_vars

(* Calls are polled, timers fire, connecting ends with the system's own     *)
(* timeout, and the tasks of a connection go on.  A request is not bound    *)
(* to be executed, nor an answer to arrive.                                 *)
FairSpec ==
  /\ Spec
  /\ \A k \in Callers : SF_vars(CallStep(k))
  /\ \A c \in Conns : WF_vars(WriterStep(c)) /\ WF_vars(ReaderDrains(c))

-----------------------------------------------------------------------------
(* Properties. *)

\* A call is run once at most, retried or not: only a call that never left
\* is retried.
RunAtMostOnce == \A k \in Callers : executed[k] <= 1

\* As long as no live connection was given up, a failed call clears the cached
\* client only if that client's connection is lost: it never clears the one that
\* replaced its own.  (A change of the settings clears whatever client there is.)
OnlyDeadCleared ==
  [][current # NoConn /\ current' # current /\ resets' = resets /\ ~late
       => ~connected[current]]_vars

\* The daemon's events reach the frontend over one connection at a time, as
\* long as no timeout gives up a live connection and no change of the settings
\* replaces a client that is connected.
OneTransport ==
  resets = 0 /\ ~late => \A c, d \in subscribed : connected[c] /\ connected[d] => c = d

\* The connections made so far.
Made == 1 .. opened

\* One of its tasks is through with mark_disconnected.
Marked(c) == reader[c] = "stopped" \/ writer[c] = "closing"

NoneOverlooked == \A c \in Made : Marked(c) => pending[c] \cap timely[c] = {}

LossReportedOnce ==
  \A c \in Made :
    /\ gaps[c] <= 1
    /\ reader[c] = "stopped" /\ writer[c] # "drain" => gaps[c] = 1

\* Two tasks may notice that a connection is lost: once one of them is through
\* with mark_disconnected, every call registered while the connection was up has
\* failed or been answered, and the frontend hears of the gap in its events
\* exactly once.
LossHandledOnce == NoneOverlooked /\ LossReportedOnce

\* Every call ends.
CallsEnd == \A k \in Callers : at[k] = "ensure" ~> at[k] \in Done

-----------------------------------------------------------------------------
(* Not promised by the code: TLC refutes both, no run checks them. *)

\* When a connection is gone, all that waited for it have failed: nobody is
\* left to wait for the request timeout.
Abandoned(c) ==
  /\ reader[c] = "stopped" /\ (writer[c] = "stopped" \/ queue[c] = <<>>)
  /\ writer[c] \notin {"drain", "drainAgain"}
  /\ \A k \in Callers : clients[k] # <<>> /\ Conn(k) = c => at[k] \notin {"insert", "send"}

NobodyAbandoned ==
  \A c \in Conns : Abandoned(c) =>
    \A k \in Callers : at[k] = "wait" /\ Conn(k) = c => reply[k] # NoReply

\* Calls made while another one waits share its connection, as long as that
\* is up.
Waits(k) == at[k] = "wait" /\ connected[Conn(k)]

CallsShareTransport == \A k, l \in Callers : Waits(k) /\ Waits(l) => Conn(k) = Conn(l)
=============================================================================
