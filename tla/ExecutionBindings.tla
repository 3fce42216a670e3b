--------------------------- MODULE ExecutionBindings ---------------------------
(***************************************************************************)
(* The store of execution bindings (execution_binding_core.rs): for each   *)
(* spawn_agent call of a thread, the model a plan approved (register) and  *)
(* the one that was observed (observe), in a sidecar file.  Both commands  *)
(* may come first, late, in any order and again: the frontend observes an  *)
(* item twice, and the remote client sends again after a lost connection.  *)
(* The calls are those of one parent thread.                               *)
(***************************************************************************)
EXTENDS SidecarFile, Naturals, FiniteSets

CONSTANTS Calls,          \* a set of numbers, for the order of collab_tool_call_id
          Fields,         \* of a binding: the model and the effort
          Verified,       \* the bindings the Provider's catalogue and the plan allow
          Registrations,  \* the requests that may be sent, stamped by their senders
          Observations,
          Lifetime,       \* MAX_BINDING_LIFETIME_MS
          MaxKept,        \* max_per_parent
          MaxTime         \* bound on the clock

ASSUME BindingsAssumption ==
  /\ Blank = [records |-> {}] /\ Registrations \cap Observations = {}
  /\ None \notin Registrations \cup Observations
  /\ \A m \in Registrations :
       m.call \in Calls /\ {m.at, m.until} \subseteq Nat /\ m.current \in BOOLEAN
  /\ \A m \in Observations :
       m.call \in Calls /\ m.at \in Nat /\ m.own \in BOOLEAN /\ DOMAIN m.actual = Fields
  /\ {Lifetime, MaxKept} \subseteq Nat /\ MaxTime \in Nat \ {0}

VARIABLES clock,
          hearing,        \* the request being written
          heard           \* history: the requests that made each stored record

bindingVars == <<fileVars, clock, hearing, heard>>

Statuses == {"awaitingExpected", "awaitingActual", "matched", "mismatch",
             "invalidExpected", "stale", "conflict"}
Reasons  == {"expired", "planStale", "registrationConflict", "actualConflict", "sender"}

\* What the store keeps in its file: the Documents of SidecarFile.
Values  == {m.actual[f] : m \in Observations, f \in Fields} \cup {None}
Records == [call : Calls, registered : Registrations \cup {None},
            actual : [Fields -> Values], observed : Nat, expires : Nat,
            reasons : SUBSET Reasons, status : Statuses, updated : Nat]
KeepsBindings == Documents = [records : SUBSET Records]

Record(c, now) ==
  [call |-> c, registered |-> None, actual |-> [f \in Fields |-> None], observed |-> 0,
   expires |-> now + Lifetime, reasons |-> {}, status |-> "awaitingExpected",
   updated |-> now]

BindingsTypeOK ==
  /\ FileTypeOK /\ clock \in 1 .. MaxTime
  /\ hearing \in Registrations \cup Observations \cup {None}
  /\ heard \in [Calls -> SUBSET (Registrations \cup Observations)]

BindingsInit ==
  /\ FileInit
  /\ clock = 1 /\ hearing = None /\ heard = [c \in Calls |-> {}]

-----------------------------------------------------------------------------
(* What a record comes to. *)

Audit(m, actual) ==
  IF m.expected \notin Verified THEN "invalidExpected"
  ELSE IF \E f \in Fields : actual[f] = None THEN "awaitingActual"
  ELSE IF actual = m.expected THEN "matched" ELSE "mismatch"

\* An expired record stays so, whatever the time of the next request.
Expired(r, now) == "expired" \in r.reasons \/ now >= r.expires

PlanStale(r) == r.registered # None /\ ~r.registered.current

Recomputed(r, now) ==
  LET rest == r.reasons \ {"planStale"} IN
  IF Expired(r, now)
  THEN [r EXCEPT !.reasons = rest \cup {"expired"}, !.status = "stale"]
  ELSE IF PlanStale(r)
  THEN [r EXCEPT !.reasons = rest \cup {"planStale"}, !.status = "stale"]
  ELSE [r EXCEPT !.reasons = rest,
                 !.status = IF r.registered = None THEN "awaitingExpected"
                            ELSE Audit(r.registered, r.actual)]

\* mutant: a conflict is recomputed too
SettledAlways(r, now) == Recomputed(r, now)

Settled(r, now) == IF r.status = "conflict" THEN r ELSE Recomputed(r, now)

Conflicting(r, reason) ==
  [r EXCEPT !.reasons = @ \cup {reason}, !.status = "conflict"]

\* mutant: the last registration is taken
RegisteredLast(r, m) ==
  IF r.registered = m THEN r
  ELSE Settled([r EXCEPT !.registered = m, !.expires = m.until], m.at)

\* register.  What was observed alone and has expired is not revived.
Registered(r, m) ==
  LET first == [r EXCEPT !.registered = m, !.expires = m.until]
  IN CASE r.registered = m -> r
       [] r.registered \notin {m, None} -> Conflicting(r, "registrationConflict")
       [] r.registered = None /\ r.observed # 0 /\ m.at >= r.expires ->
            [first EXCEPT !.reasons = @ \cup {"expired"}, !.status = "stale"]
       [] OTHER -> Settled(first, m.at)

\* merge_actual: the first value of a field stays.
Contradicts(r, m) == \E f \in Fields : None \notin {r.actual[f], m.actual[f]} /\ r.actual[f] # m.actual[f]
Merged(r, m) == [f \in Fields |-> IF r.actual[f] # None THEN r.actual[f] ELSE m.actual[f]]

\* observe.
Observed(r, m) ==
  LET sent   == IF m.own THEN r ELSE Conflicting(r, "sender")
      merged == [sent EXCEPT !.actual = Merged(r, m),
                             !.observed = IF m.at > @ THEN m.at ELSE @]
  IN Settled(IF Contradicts(r, m) THEN Conflicting(merged, "actualConflict") ELSE merged, m.at)

-----------------------------------------------------------------------------
(* The commands, each under the lock of the store. *)

Stored(c) == {r \in Document.records : r.call = c}
Known(c, now) == IF Stored(c) = {} THEN Record(c, now) ELSE CHOOSE r \in Stored(c) : TRUE

Advanced(r, now) == [r EXCEPT !.updated = IF now > @ THEN now ELSE @]

\* prune: the newest stay.
Before(r, s) == r.updated > s.updated \/ (r.updated = s.updated /\ r.call < s.call)
Pruned(d) == [records |-> {r \in d : Cardinality({s \in d : Before(s, r)}) < MaxKept}]

Serve(m, new) ==
  LET old == Known(m.call, m.at) IN
  /\ m.at <= clock /\ UNCHANGED clock
  /\ \/ /\ new = old /\ Answers
        /\ heard' = [heard EXCEPT ![m.call] = @ \cup {m}]
        /\ UNCHANGED hearing
     \/ /\ new # old
        /\ Writes(Pruned((Document.records \ {old}) \cup {Advanced(new, m.at)}))
        /\ hearing' = m /\ UNCHANGED heard

Register(m) == Serve(m, Registered(Known(m.call, m.at), m))
Observe(m)  == Serve(m, Observed(Known(m.call, m.at), m))

\* list recomputes every record at the time it is asked.
Relisted(r) == IF Settled(r, clock) = r THEN r ELSE Advanced(Settled(r, clock), clock)

List ==
  LET new == Pruned({Relisted(r) : r \in Document.records}) IN
  /\ \/ new = Document /\ Answers
     \/ new # Document /\ Writes(new)
  /\ UNCHANGED <<clock, hearing, heard>>

Fails == OpenFails /\ UNCHANGED <<clock, hearing, heard>>

\* With the last rename the record is stored, and whatever was pruned forgotten.
HeardOf(c) ==
  IF \A r \in doc.records : r.call # c THEN {}
  ELSE IF hearing # None /\ hearing.call = c THEN heard[c] \cup {hearing} ELSE heard[c]

Stores ==
  /\ Place /\ heard' = [c \in Calls |-> HeardOf(c)]
  /\ UNCHANGED <<clock, hearing>>

Write ==
  /\ Create \/ Fill \/ Look \/ Clear \/ Move \/ GivesUp \/ PlaceFails \/ Undo \/ Tidy
  /\ hearing' = IF at' = "idle" THEN None ELSE hearing
  /\ UNCHANGED <<clock, heard>>

\* The process ends and is started again.
Restart == Crash /\ hearing' = None /\ UNCHANGED <<clock, heard>>

Tick == clock < MaxTime /\ clock' = clock + 1 /\ UNCHANGED <<fileVars, hearing, heard>>

BindingsNext ==
  \/ \E m \in Registrations : Register(m)
  \/ \E m \in Observations : Observe(m)
  \/ List \/ Fails \/ Stores \/ Write \/ Restart \/ Tick

BindingsSpec == BindingsInit /\ [][BindingsNext]_bindingVars

-----------------------------------------------------------------------------
(* Properties. *)

Said(c, f) == {m.actual[f] : m \in heard[c] \cap Observations} \ {None}

\* What a stored record knows depends on the requests it heard and not on their
\* order: expected and actual may come in any order, again and across restarts.  A
\* field has the value that was reported, and two values, two registrations or a
\* foreign sender are never forgotten.
EvidenceIsOrderless ==
  \A r \in Document.records :
    LET asked == heard[r.call] \cap Registrations
        seenBy == heard[r.call] \cap Observations IN
    /\ r.registered \in IF asked = {} THEN {None} ELSE asked
    /\ \A f \in Fields :
         r.actual[f] \in IF Said(r.call, f) = {} THEN {None} ELSE Said(r.call, f)
    /\ "registrationConflict" \in r.reasons <=> \E m, n \in asked : m # n
    /\ "actualConflict" \in r.reasons <=>
         \E f \in Fields : \E v, w \in Said(r.call, f) : v # w
    /\ "sender" \in r.reasons <=> \E m \in seenBy : ~m.own

\* The store fails closed: a binding counts as matched only when everything that was
\* ever said of it agrees, the one plan that was approved for it is current and
\* allowed, and the record never was out of date.
MatchedIsDeserved ==
  \A r \in Document.records : r.status = "matched" =>
    /\ \E m \in Registrations :
         /\ heard[r.call] \cap Registrations = {m}
         /\ m.current /\ m.expected \in Verified
         /\ \A f \in Fields : Said(r.call, f) = {m.expected[f]}
    /\ \A m \in heard[r.call] \cap Observations : m.own
    /\ "expired" \notin r.reasons

-----------------------------------------------------------------------------
(* Not promised by the code. *)

\* docs/app-server-events.md:304 calls exact retries idempotent: a request that was
\* heard changes nothing when it comes again.  An observation made after the
\* registration has expired but stored before it leaves the record matched, and its
\* retry makes it stale; the retry of a foreign sender's turns stale into conflict.
RetryChangesNothing ==
  \A c \in Calls : \A m \in heard[c] : at = "idle" =>
    LET old == Known(c, m.at) IN
    old = IF m \in Registrations THEN Registered(old, m) ELSE Observed(old, m)
=============================================================================
