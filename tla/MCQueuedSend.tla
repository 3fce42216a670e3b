----------------------------- MODULE MCQueuedSend -----------------------------
(* Two parts of QueuedSend for TLC in one run; together they are too many.    *)
EXTENDS QueuedSend, TLC

\* The user is on a thread and there is nothing at the others.
OnOnePage ==
  \A t \in Threads \ {active} :
    /\ seen.active # t /\ busy[t] = "idle" /\ queue[t] = <<>> /\ draft[t] = None
    /\ inFlight[t] = None /\ \A m \in Messages : call[m].thread # t

\* No flush has gone astray and nothing is steered.
AllInPlace ==
  /\ astray = {} /\ \A m \in Messages : call[m].via \notin {"steer", "directSteer"}
  /\ \A t \in Threads : busy[t] \in {"idle", "turn"}

\* On one page, where a flush may go astray; or on two threads between which the
\* user switches.  A send fails once, before its message waits for a timer.
Within ==
  /\ \A m \in Messages : failures'[m] <= 1
  /\ OnOnePage' \/ AllInPlace'

Symmetric == Permutations(Threads) \cup Permutations(Messages \ Commands)
=============================================================================
