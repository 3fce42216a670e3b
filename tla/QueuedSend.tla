------------------------------ MODULE QueuedSend ------------------------------
(***************************************************************************)
(* Messages between the composer and a thread (useQueuedSend.ts and the    *)
(* draft that useComposerController.ts keeps): sent at once, steered into  *)
(* the turn, or queued while a turn runs and flushed when it is over.      *)
(* Handlers and effects work on what the last render saw, but their        *)
(* updates apply to the latest state: between the commit of a render and   *)
(* its effects, and before the next commit, other updates may come.        *)
(***************************************************************************)
EXTENDS Naturals, Sequences, SequencesExt

CONSTANTS Threads, Messages,
          Commands,   \* the messages that are slash commands
          Steering,   \* steerEnabled, with a turn to steer
          Orderly,    \* a turn is rendered and its start answered before it is over,
                      \* and nothing is sent beside a message on its way
          None

ASSUME CommandsAreMessages == Commands \subseteq Messages
ASSUME NoneIsNoMessage == None \notin Messages

VARIABLES
  queue, inFlight, started,  \* queuedByThread, inFlightByThread, hasStartedByThread
  busy,                      \* of each thread: isProcessing ("turn"), isReviewing, or
                             \* neither but queueFlushPaused ("held")
  active,                    \* activeThreadId
  seen,                      \* what the last commit saw of the active thread
  due,                       \* what React has yet to run: the effects of the last commit,
                             \* the render of the user's last act
  call,                      \* the send of each message that is under way
  failures, timers,          \* queuedFailureCountByMessageId, capped, and the retry timers
  draft,                     \* the text in each thread's composer
  written, accepted,         \* messages typed, and those that were sent
  stopped, deleted,          \* history: what the stop button took, and what was deleted,
                             \* since it was submitted
  astray                     \* history: what a flush sent or took instead of another message

hookVars == <<queue, inFlight, started, failures, timers>>
viewVars == <<busy, active>>
userVars == <<draft, written, stopped, deleted>>
pageVars == <<seen, due>>
sentVars == <<accepted, astray>>
vars == <<hookVars, viewVars, userVars, pageVars, call, sentVars>>

Elements(q) == {q[i] : i \in DOMAIN q}
Now == [active |-> active, busy |-> busy[active], queue |-> queue[active],
        inFlight |-> inFlight[active], started |-> started[active]]

NoCall == [via |-> "none", thread |-> None, index |-> 0, fresh |-> FALSE, begun |-> FALSE]
Under(m) == call[m].via # "none"
Queued(m) == \E t \in Threads : m \in Elements(queue[t])
OfQueue(m) == call[m].via \in {"flush", "steer"}

Modes == {"idle", "held", "turn", "review"}
Working == {"turn", "review"}

TypeOK ==
  /\ queue \in [Threads -> Seq(Messages)]
  /\ inFlight \in [Threads -> Messages \cup {None}] /\ started \in [Threads -> BOOLEAN]
  /\ busy \in [Threads -> Modes] /\ active \in Threads
  /\ seen \in [active : Threads, busy : Modes, queue : Seq(Messages),
                inFlight : Messages \cup {None}, started : BOOLEAN]
  /\ due \subseteq {"effects", "render"}
  /\ call \in [Messages -> [via : {"none", "direct", "directSteer", "flush", "steer"},
                            thread : Threads \cup {None}, index : Nat,
                            fresh : BOOLEAN, begun : BOOLEAN]]
  /\ failures \in [Messages -> 0 .. 2] /\ timers \subseteq Messages
  /\ draft \in [Threads -> Messages \cup {None}]
  /\ written \subseteq Messages /\ accepted \subseteq Messages
  /\ stopped \subseteq Messages /\ deleted \subseteq Messages /\ astray \subseteq Messages

Init ==
  /\ queue = [t \in Threads |-> <<>>] /\ inFlight = [t \in Threads |-> None]
  /\ started = [t \in Threads |-> FALSE]
  /\ busy = [t \in Threads |-> "idle"] /\ active \in Threads
  /\ seen = Now /\ due = {}
  /\ call = [m \in Messages |-> NoCall]
  /\ failures = [m \in Messages |-> 0] /\ timers = {}
  /\ draft = [t \in Threads |-> None]
  /\ written = {} /\ accepted = {} /\ stopped = {} /\ deleted = {} /\ astray = {}

-----------------------------------------------------------------------------
(* The queue. *)

Index(q, m) == CHOOSE i \in DOMAIN q : q[i] = m
Without(q, m) == IF m \in Elements(q) THEN RemoveAt(q, Index(q, m)) ELSE q

\* restoreQueuedMessage: back to its place, or to the end of a shorter queue.
RestoredInside(q, m, i) == IF m \in Elements(q) \/ i > Len(q) THEN q ELSE InsertAt(q, i, m)
Restored(q, m, i) ==
  IF m \in Elements(q) THEN q ELSE InsertAt(q, IF i <= Len(q) THEN i ELSE Len(q) + 1, m)

Calls(m, via, t, i) ==
  call' = [call EXCEPT ![m] =
             [via |-> via, thread |-> t, index |-> i, fresh |-> TRUE, begun |-> FALSE]]
Ends(m) == call' = [call EXCEPT ![m] = NoCall]

-----------------------------------------------------------------------------
(* Renders.  React runs the effects of a commit before the next render.      *)

Commit ==
  /\ "effects" \notin due
  /\ seen' = Now /\ due' = {"effects"}
  /\ UNCHANGED <<hookVars, viewVars, userVars, call, sentVars>>

\* The message in flight is done with when a turn has been seen and is over;
\* then the next one is flushed.
InFlightEffect ==
  LET t == seen.active IN
  /\ seen.inFlight # None
  /\ IF seen.busy \in Working
     THEN started' = [started EXCEPT ![t] = @ \/ ~seen.started] /\ UNCHANGED inFlight
     ELSE /\ inFlight' = IF seen.started THEN [inFlight EXCEPT ![t] = None] ELSE inFlight
          /\ started' = [started EXCEPT ![t] = @ /\ ~seen.started]
  /\ UNCHANGED <<queue, call, astray>>

MayFlushAnyway ==
  /\ seen.busy = "idle" /\ seen.queue # <<>> /\ Head(seen.queue) \notin timers

MayFlush ==
  /\ seen.busy = "idle" /\ seen.inFlight = None
  /\ seen.queue # <<>> /\ Head(seen.queue) \notin timers

\* What slice(1) takes off the latest queue: the message that is sent, unless
\* an update since the commit has taken it away or put another one before it.
Sliced(q) == IF q = <<>> THEN {} ELSE {Head(q)}
Slice(q) == IF q = <<>> THEN q ELSE Tail(q)

\* (A bound: a message gone astray is not sent twice at a time.)
Flush ==
  LET t == seen.active
      m == Head(seen.queue) IN
  /\ MayFlush /\ ~Under(m)
  /\ inFlight' = [inFlight EXCEPT ![t] = m]
  /\ started' = [started EXCEPT ![t] = FALSE]
  /\ queue' = [queue EXCEPT ![t] = Slice(@)]
  /\ astray' = IF Sliced(queue[t]) = {m} THEN astray ELSE astray \cup {m} \cup Sliced(queue[t])
  /\ Calls(m, "flush", t, 0)

NoEffect ==
  seen.inFlight = None /\ ~MayFlush /\ UNCHANGED <<queue, inFlight, started, call, astray>>

Effects ==
  /\ "effects" \in due /\ due' = due \ {"effects"}
  /\ InFlightEffect \/ Flush \/ NoEffect
  /\ UNCHANGED <<failures, timers, viewVars, userVars, seen, accepted>>

-----------------------------------------------------------------------------
(* The user, by what the last commit shows.  An act is rendered before the   *)
(* next one.                                                                 *)

Act == "render" \notin due /\ due' = due \cup {"render"}

Type(m) ==
  /\ m \notin written /\ draft[seen.active] = None
  /\ written' = written \cup {m} /\ draft' = [draft EXCEPT ![seen.active] = m]
  /\ UNCHANGED <<hookVars, viewVars, stopped, deleted, pageVars, call, sentVars>>

\* handleSend.  A text is a new message each time it is submitted (a bound: not
\* while its last message is still about, as only one gone astray can be).
Alone(t) == queue[t] = <<>> /\ \A m \in Messages : call[m].thread # t

Submit(m) ==
  LET t == seen.active IN
  /\ Act /\ draft[t] = m /\ seen.busy # "review" /\ ~Under(m) /\ ~Queued(m)
  /\ draft' = [draft EXCEPT ![t] = None]
  /\ stopped' = stopped \ {m} /\ deleted' = deleted \ {m}
  /\ \/ /\ seen.busy = "turn"
        /\ queue' = [queue EXCEPT ![t] = Append(@, m)] /\ UNCHANGED call
     \/ /\ seen.busy \in {"idle", "held"} /\ (Orderly => Alone(t))
        /\ Calls(m, "direct", t, 0) /\ UNCHANGED queue
     \/ /\ seen.busy = "turn" /\ Steering
        /\ Calls(m, IF m \in Commands THEN "direct" ELSE "directSteer", t, 0)
        /\ UNCHANGED queue
  /\ failures' = [failures EXCEPT ![m] = 0]
  /\ UNCHANGED <<inFlight, started, timers, viewVars, written, seen, sentVars>>

\* What the user points at has been rendered; it may have been flushed since.
Shown(m) == m \in Elements(seen.queue)

RemoveQueued(m) ==
  /\ queue' = [queue EXCEPT ![seen.active] = Without(@, m)]
  /\ failures' = [failures EXCEPT ![m] = 0] /\ timers' = timers \ {m}
  /\ UNCHANGED <<inFlight, started>>

Deletes(m) == deleted' = deleted \cup ({m} \cap Elements(queue[seen.active]))

DeleteQueued(m) ==
  /\ Act /\ Shown(m) /\ RemoveQueued(m) /\ Deletes(m)
  /\ UNCHANGED <<viewVars, draft, written, stopped, seen, call, sentVars>>

\* Its text is in the composer, to be sent as a message n of its own.
EditQueued(m) ==
  /\ Act /\ Shown(m) /\ RemoveQueued(m) /\ Deletes(m)
  /\ \E n \in Messages \ written :
       written' = written \cup {n} /\ draft' = [draft EXCEPT ![seen.active] = n]
  /\ UNCHANGED <<viewVars, stopped, seen, call, sentVars>>

SteerQueued(m) ==
  /\ Steering /\ seen.busy = "turn" /\ ~Under(m)
  /\ Act /\ Shown(m) /\ RemoveQueued(m)
  /\ Calls(m, "steer", seen.active, Index(seen.queue, m))
  /\ UNCHANGED <<viewVars, userVars, seen, sentVars>>

\* The stop button: nothing of the queue comes back, not even what is under way.
ClearKeepsCalls(t) == [m \in Messages |-> call[m]]
ClearedCalls(t) ==
  [m \in Messages |-> IF call[m].thread = t THEN [call[m] EXCEPT !.fresh = FALSE] ELSE call[m]]

ClearQueued ==
  LET t == seen.active IN
  /\ Act /\ seen.busy \in Working
  /\ queue' = [queue EXCEPT ![t] = <<>>] /\ inFlight' = [inFlight EXCEPT ![t] = None]
  /\ started' = [started EXCEPT ![t] = FALSE]
  /\ call' = ClearedCalls(t)
  /\ stopped' = stopped \cup Elements(queue[t])
                        \cup {m \in Messages : OfQueue(m) /\ call[m].thread = t}
  /\ UNCHANGED <<failures, timers, viewVars, draft, written, deleted, seen, sentVars>>

SwitchTo(t) ==
  /\ t # active /\ active' = t
  /\ UNCHANGED <<hookVars, busy, userVars, pageVars, call, sentVars>>

-----------------------------------------------------------------------------
(* How a send goes: the thread shows as busy, then the answer. *)

Starts(m) == call[m].via \in {"direct", "flush"}

Begin(m) ==
  /\ Starts(m) /\ ~call[m].begun
  /\ call' = [call EXCEPT ![m].begun = TRUE]
  /\ \E kind \in {"turn"} \cup (IF m \in Commands THEN {"review"} ELSE {}) :
       busy' = [busy EXCEPT ![call[m].thread] = kind]
  /\ UNCHANGED <<hookVars, active, userVars, pageVars, sentVars>>

Sent(m) ==
  /\ Under(m) /\ (Starts(m) /\ m \notin Commands => call[m].begun)
  /\ Ends(m) /\ accepted' = accepted \cup {m}
  /\ busy' = IF Starts(m) /\ m \notin Commands
             THEN [busy EXCEPT ![call[m].thread] = "turn"] ELSE busy
  /\ IF call[m].via = "flush" /\ m \notin Commands
     THEN failures' = [failures EXCEPT ![m] = 0] /\ timers' = timers \ {m}
     ELSE UNCHANGED <<failures, timers>>
  /\ UNCHANGED <<queue, inFlight, started, active, userVars, pageVars, astray>>

Landed(t) ==
  inFlight' = [inFlight EXCEPT ![t] = None] /\ started' = [started EXCEPT ![t] = FALSE]

\* A queued message that could not be steered.
Restore(m) ==
  LET t == call[m].thread IN
  IF call[m].fresh THEN queue' = [queue EXCEPT ![t] = Restored(@, m, call[m].index)]
  ELSE UNCHANGED queue

GivenBack(m) == draft' = [draft EXCEPT ![call[m].thread] = m]

Blocked(m) ==
  LET t == call[m].thread IN
  /\ Under(m) /\ m \notin Commands /\ Ends(m)
  /\ busy' = IF call[m].begun THEN [busy EXCEPT ![t] = "idle"] ELSE busy
  /\ \/ /\ call[m].via = "flush" /\ Landed(t) /\ failures' = [failures EXCEPT ![m] = 0]
        /\ GivenBack(m) /\ UNCHANGED queue
     \/ /\ call[m].via \in {"direct", "directSteer"} /\ GivenBack(m)
        /\ UNCHANGED <<queue, inFlight, started, failures>>
     \/ /\ call[m].via = "steer" /\ Restore(m)
        /\ UNCHANGED <<inFlight, started, failures, draft>>
  /\ UNCHANGED <<timers, active, written, stopped, deleted, pageVars, sentVars>>

SteerFails(m) ==
  /\ Ends(m)
  /\ \/ /\ call[m].via = "directSteer"
        /\ queue' = [queue EXCEPT ![call[m].thread] = Append(@, m)]
     \/ call[m].via = "steer" /\ Restore(m)
  /\ UNCHANGED <<inFlight, started, failures, timers, viewVars, userVars, pageVars, sentVars>>

\* A flushed message is tried again, twice at once and then by a timer (a bound:
\* one that is still queued too, which only a flush gone astray leaves so, is not).
PutBackLast(m) == queue' = [queue EXCEPT ![call[m].thread] = Append(@, m)]
PutBack(m) == queue' = [queue EXCEPT ![call[m].thread] = <<m>> \o @]

Retry(m) ==
  IF ~call[m].fresh THEN UNCHANGED <<queue, inFlight, started, failures, timers>>
  ELSE LET n == IF failures[m] = 0 THEN 1 ELSE 2 IN
       /\ ~Queued(m) /\ Landed(call[m].thread) /\ PutBack(m)
       /\ failures' = [failures EXCEPT ![m] = n]
       /\ timers' = IF n = 2 THEN timers \cup {m} ELSE timers

Throws(m) ==
  /\ Under(m) /\ ~call[m].begun /\ Ends(m)
  /\ \/ call[m].via = "flush" /\ Retry(m)
     \/ call[m].via = "steer" /\ Restore(m) /\ UNCHANGED <<inFlight, started, failures, timers>>
     \/ call[m].via \in {"direct", "directSteer"} /\ UNCHANGED hookVars
  /\ UNCHANGED <<viewVars, userVars, pageVars, sentVars>>

TimerRings(m) == m \in timers /\ UNCHANGED vars

TimerFires(m) ==
  /\ m \in timers /\ timers' = timers \ {m}
  /\ UNCHANGED <<queue, inFlight, started, failures, viewVars, userVars, pageVars, call, sentVars>>

-----------------------------------------------------------------------------
(* The thread's turns. *)

Settled(t) ==
  Orderly => /\ \A m \in Messages : call[m].thread = t => ~Starts(m)
             /\ t = active => seen.active = t /\ seen.busy = busy[t]

Thread(t, was, is) ==
  /\ busy[t] \in was /\ Settled(t) /\ busy' = [busy EXCEPT ![t] = is]
  /\ UNCHANGED <<hookVars, active, userVars, pageVars, call, sentVars>>

TurnOver(t) == Thread(t, Working, "idle")

\* It ends with a plan or a question, and the queue waits for the user.
TurnAsks(t) == Thread(t, {"turn"}, "held")
Replied(t) == Thread(t, {"held"}, "idle")

\* A turn the queue has not asked for: a continuation, another client.
OtherTurn(t) == Thread(t, {"idle", "held"}, "turn")

Environment(m) == Begin(m) \/ Sent(m) \/ Blocked(m) \/ SteerFails(m) \/ Throws(m)

Next ==
  \/ Commit \/ Effects
  \/ ClearQueued
  \/ \E t \in Threads : SwitchTo(t) \/ TurnOver(t) \/ TurnAsks(t) \/ Replied(t) \/ OtherTurn(t)
  \/ \E m \in Messages :
       \/ Type(m) \/ Submit(m) \/ DeleteQueued(m) \/ EditQueued(m) \/ SteerQueued(m)
       \/ Environment(m) \/ TimerFires(m)

Spec == Init /\ [][Next]_vars

Fairness ==
  /\ WF_vars(Commit) /\ WF_vars(Effects)
  /\ \A t \in Threads : WF_vars(TurnOver(t) \/ TurnAsks(t))
  /\ \A m \in Messages :
       /\ WF_vars(Environment(m)) /\ WF_vars(TimerFires(m))
       /\ SF_vars(Begin(m)) /\ SF_vars(Sent(m))

FairSpec == Spec /\ Fairness

-----------------------------------------------------------------------------
(* Properties. *)

\* Where each message is that has not gone astray; in two places only if the
\* hook has doubled it.
whereabouts ==
  [m \in Messages |->
     LET queues == {t \in Threads : m \in Elements(queue[t])}
         drafts == {t \in Threads : draft[t] = m}
         places == ({"queue"} \X queues) \cup ({"draft"} \X drafts)
                    \cup (IF Under(m) THEN {<<"call", None>>} ELSE {})
                    \cup (IF m \in accepted THEN {<<"sent", None>>} ELSE {})
     IN
     IF m \in astray THEN "astray"
     ELSE IF \/ \E p, r \in places : p # r
             \/ \E t \in queues : \E i, j \in DOMAIN queue[t] :
                  i # j /\ queue[t][i] = m /\ queue[t][j] = m
          THEN "twice"
     ELSE IF m \in accepted THEN "sent"
     ELSE IF queues # {} \/ OfQueue(m) THEN "kept"
     ELSE IF Under(m) THEN "asked"
     ELSE IF drafts # {} THEN "draft"
     ELSE IF m \in written THEN "gone" ELSE "new"]

Promise ==
  INSTANCE Outbox WITH fate <- whereabouts, discarded <- (stopped \cup deleted) \ astray

\* A queued message is sent, given back or taken away by the user, never lost
\* and never sent twice, through any order of flushes, steers, failed sends,
\* retries, clears and switches of the thread, unless a flush slices another
\* message off the queue than it sends: those two, and no other, may go astray.
KeepsPromise == Promise!Spec

\* What the stop button took is not queued again, by a send that fails late, a
\* steer that fails or an act on what was rendered before.
StoppedStaysStopped == \A m \in stopped : ~Queued(m)

\* The messages of a thread's queue in the order they are to be sent, the one
\* that is being sent first.
InLine(t) ==
  LET on == {m \in Messages : call[m].via = "flush" /\ call[m].thread = t /\ call[m].fresh} IN
  IF on = {} THEN queue[t] ELSE <<CHOOSE m \in on : TRUE>> \o queue[t]

\* One queued message of a thread is on its way at a time, and no other is
\* flushed until its turn is over.
OneAtATime ==
  \A m, n \in Messages :
    /\ call[m].via = "flush" /\ call[m].fresh
    /\ call[n].via = "flush" /\ call[n].fresh
    /\ call[m].thread = call[n].thread
    => m = n

Ahead(q, m, n) ==
  \E i, j \in DOMAIN q : i < j /\ q[i] = m /\ q[j] = n

\* A send that fails does not cost a message its place.
OrderKept ==
  \A t \in Threads : \A m, n \in Elements(InLine(t)) :
    Ahead(InLine(t), m, n) => ~Ahead(InLine(t)', n, m)
LineKeepsOrder == [][OrderKept]_vars

\* A queued message does not wait for ever while the turns end and the
\* app-server accepts what it is asked again and again, unless the thread waits
\* for the user's reply.
QueueDrains ==
  \A m \in Messages : Queued(m) ~> (~Queued(m) /\ ~OfQueue(m)) \/ busy[active] = "held"

=============================================================================
