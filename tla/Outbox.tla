-------------------------------- MODULE Outbox --------------------------------
(***************************************************************************)
(* What the composer and its queue promise of each message the user        *)
(* writes, whatever threads, timers and failures they go through: once it  *)
(* is queued it is sent, given back for the user to edit, or taken away by *)
(* the user, and it is sent at most once.                                  *)
(***************************************************************************)
CONSTANT Messages

VARIABLES fate,   \* where each message is
          discarded \* messages the user took away since they were submitted

vars == <<fate, discarded>>

\* A message has gone astray when a flush has sent it that had been taken away
\* or was queued behind another, or has lost it in the place of such a one.
Fates == {"new", "draft", "asked", "kept", "sent", "gone", "astray"}

TypeOK == fate \in [Messages -> Fates] /\ discarded \subseteq Messages

Init == fate = [m \in Messages |-> "new"] /\ discarded = {}

Becomes(m, f) == fate' = [fate EXCEPT ![m] = f]

\* At most one of what is in a state.
OneOf(f) == {S \in SUBSET {n \in Messages : fate[n] = f} : \A n, o \in S : n = o}

Write(m) == fate[m] = "new" /\ Becomes(m, "draft") /\ UNCHANGED discarded

\* Sent at once, or queued.
Submit(m) ==
  /\ fate[m] = "draft" /\ discarded' = discarded \ {m}
  /\ Becomes(m, "asked") \/ Becomes(m, "kept")

Keep(m) == fate[m] = "asked" /\ Becomes(m, "kept") /\ UNCHANGED discarded

Send(m) == fate[m] \in {"asked", "kept"} /\ Becomes(m, "sent") /\ UNCHANGED discarded

\* The draft it comes back to may hold another one, which is overwritten.
GiveBack(m) ==
  /\ fate[m] \in {"asked", "kept", "astray"} /\ UNCHANGED discarded
  /\ \E over \in OneOf("draft") :
       fate' = [n \in Messages |-> IF n \in over THEN "gone"
                                   ELSE IF n = m /\ fate[m] # "astray" THEN "draft" ELSE fate[n]]

\* What was not queued may fail, and then only the history of the composer has it.
Fail(m) == fate[m] = "asked" /\ Becomes(m, "gone") /\ UNCHANGED discarded

\* The user deletes a queued message, or takes it back to write another one.
Delete(m) ==
  /\ fate[m] = "kept" /\ Becomes(m, "gone") /\ discarded' = discarded \cup {m}

Rewrite(m) ==
  /\ fate[m] = "new"
  /\ \E old \in OneOf("kept"), over \in OneOf("draft") :
       /\ discarded' = discarded \cup old
       /\ fate' = [n \in Messages |-> IF n \in old \cup over THEN "gone"
                                      ELSE IF n = m THEN "draft" ELSE fate[n]]

\* The user stops what is queued; messages already on their way may yet be sent.
Stop ==
  \E away \in SUBSET {m \in Messages : fate[m] = "kept"} : \E held \in SUBSET away :
    /\ discarded' = discarded \cup away
    /\ fate' = [m \in Messages |-> IF m \in held THEN "gone" ELSE fate[m]]

Drop(m) == fate[m] = "kept" /\ m \in discarded /\ Becomes(m, "gone") /\ UNCHANGED discarded

GoAstray(m) ==
  /\ fate[m] \in {"gone", "kept", "astray"}
  /\ \E lost \in OneOf("kept") :
       /\ fate' = [n \in Messages |-> IF n = m \/ n \in lost THEN "astray" ELSE fate[n]]
       /\ discarded' = discarded \ ({m} \cup lost)

\* (A step that leaves every message where it is needs no name.)
Next ==
  /\ vars' # vars
  /\ \/ \E m \in Messages : \/ Write(m) \/ Submit(m) \/ Keep(m) \/ Send(m)
                            \/ GiveBack(m) \/ Fail(m) \/ Delete(m) \/ Rewrite(m)
                            \/ Drop(m) \/ GoAstray(m)
     \/ Stop

Spec == Init /\ [][Next]_vars
=============================================================================
