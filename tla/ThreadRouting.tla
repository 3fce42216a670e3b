---------------------------- MODULE ThreadRouting ----------------------------
(***************************************************************************)
(* The routing half of the reader task of WorkspaceSession                 *)
(* (backend/app_server.rs, shared/thread_workspace_core.rs): which         *)
(* workspace owns a thread, which notifications wait until that is known,  *)
(* which are kept from the frontend.  One line of stdout is handled in the *)
(* steps Route, Flush, EmitReady and Dispatch, because the lock on the     *)
(* owners is dropped between them and callers claim threads concurrently.  *)
(***************************************************************************)
EXTENDS Naturals, Sequences, FiniteSets

CONSTANTS Threads, Workspaces,
          Cwds,          \* working directories that lines carry
          Covers,        \* Cwds -> workspaces whose root holds it, longest first
          MaxDeferred,   \* MAX_DEFERRED_EVENTS (MAX_DEFERRED_BYTES counts as more of them)
          MaxNotes,      \* bound on the notifications of a behaviour
          MaxClaims,     \* bound on the requests and background prompts of one
          NoThread, NoOwner, NoCwd

ASSUME RoutingAssumption ==
  /\ NoThread \notin Threads /\ NoOwner \notin Workspaces /\ NoCwd \notin Cwds
  /\ IsFiniteSet(Threads)
  /\ Covers \in [Cwds -> Seq(Workspaces)]
  /\ {MaxDeferred, MaxNotes, MaxClaims} \subseteq Nat

VARIABLES
  owners,      \* thread_workspace
  roots,       \* the workspaces in workspace_roots
  hidden,      \* hidden_thread_ids
  callbacks,   \* background_thread_callbacks
  deferred,    \* DeferredThreadEvents.events
  ready,       \* what take_resolved returned
  step, line,  \* the reader: its next step and the line in hand
  mapped,      \* mapped_thread_workspace, read in Route
  proved,      \* the owner a thread's own metadata gave it, if any
  asked, claims,   \* requests that await their reply, and their number
  read,        \* notifications read so far; a notification's number
  last,        \* the number of the last one the frontend got, per thread
  out, aside, lost, \* how many were delivered, kept aside, dropped and reported
  overtaken    \* history: threads claimed between the flush for a line of theirs
               \* and its dispatch, when they had no owner

routeVars == <<owners, hidden, proved>>
fateVars  == <<last, out, aside, lost>>
vars == <<routeVars, roots, callbacks, deferred, ready, step, line, mapped,
          asked, claims, read, fateVars, overtaken>>

Kinds == {"reply", "list", "memoryList", "note", "spawn", "request",
          "archived", "memory"}
Notifications == {"note", "spawn", "archived", "memory"}
Line == [kind : Kinds, thread : Threads, cwd : Cwds \cup {NoCwd},
         other : Threads \cup {NoThread}, from : Workspaces \cup {NoOwner}, n : Nat]

NoLine == [kind |-> "reply", thread |-> NoThread, cwd |-> NoCwd, other |-> NoThread,
           from |-> NoOwner, n |-> 0]

OwnerMaps == [Threads -> Workspaces \cup {NoOwner}]

TypeOK ==
  /\ owners \in OwnerMaps /\ proved \in OwnerMaps
  /\ roots \subseteq Workspaces
  /\ hidden \subseteq Threads /\ callbacks \subseteq Threads
  /\ deferred \in Seq(Line) /\ Len(deferred) <= MaxDeferred
  /\ ready \in Seq(Line)
  /\ step \in {"read", "flush", "emit", "dispatch"}
  /\ line \in IF step = "read" THEN {NoLine} ELSE Line
  /\ mapped \in Workspaces \cup {NoOwner}
  /\ asked \subseteq Threads \X Workspaces
  /\ {claims, read, out, aside, lost} \subseteq Nat
  /\ last \in [Threads -> Nat]
  /\ overtaken \subseteq Threads

Init ==
  /\ owners = [t \in Threads |-> NoOwner]
  /\ proved = [t \in Threads |-> NoOwner]
  /\ roots \in SUBSET Workspaces
  /\ hidden = {} /\ callbacks = {} /\ deferred = <<>> /\ ready = <<>>
  /\ step = "read"
  /\ line = NoLine
  /\ mapped = NoOwner
  /\ asked = {} /\ claims = 0
  /\ read = 0 /\ last = [t \in Threads |-> 0]
  /\ out = 0 /\ aside = 0 /\ lost = 0 /\ overtaken = {}

-----------------------------------------------------------------------------
(* Ownership. *)

\* resolve_workspace_for_cwd: the longest registered root that holds the cwd.
Registered(cwd) == {i \in DOMAIN Covers[cwd] : Covers[cwd][i] \in roots}

Resolve(cwd) ==
  IF cwd = NoCwd \/ Registered(cwd) = {} THEN NoOwner
  ELSE Covers[cwd][CHOOSE i \in Registered(cwd) : \A j \in Registered(cwd) : i <= j]

\* mutant: the latest caller owns the thread
RememberLast(o, t, w) == [o EXCEPT ![t] = w]

\* remember_request_workspace
Remember(o, t, w) == IF o[t] = NoOwner THEN [o EXCEPT ![t] = w] ELSE o

\* remember_thread_workspace: its cwd, else its parent's owner, replaces the owner.
Evidence(o, l) ==
  IF Resolve(l.cwd) # NoOwner THEN Resolve(l.cwd)
  ELSE IF l.kind = "note" /\ l.other # NoThread THEN o[l.other] ELSE NoOwner

Learn(o, l) ==
  IF Evidence(o, l) = NoOwner THEN o ELSE [o EXCEPT ![l.thread] = Evidence(o, l)]

Owned(o) == {t \in Threads : o[t] # NoOwner}

\* What one line teaches, as a function of the owners known before it.
Lesson(l) == [o \in OwnerMaps |-> Learn(o, l)]

\* One pass of take_resolved over the buffer.
Pass ==
  [o \in OwnerMaps |->
     LET upto[i \in 0 .. Len(deferred)] ==
           IF i = 0 THEN o ELSE Lesson(deferred[i])[upto[i - 1]]
     IN  upto[Len(deferred)]]

\* Passes go on until one adds no owner.
Settled(o) ==
  LET after[k \in 0 .. Cardinality(Threads) + 1] ==
        IF k = 0 THEN o ELSE Pass[after[k - 1]]
      quiet == {k \in 1 .. Cardinality(Threads) + 1 :
                  Owned(after[k]) = Owned(after[k - 1])}
  IN  after[CHOOSE k \in quiet : \A j \in quiet : k <= j]

\* The events of s whose thread is in T, in their order.
Only(s, T) ==
  LET upto[i \in 0 .. Len(s)] ==
        IF i = 0 THEN <<>>
        ELSE IF s[i].thread \in T THEN Append(upto[i - 1], s[i]) ELSE upto[i - 1]
  IN  upto[Len(s)]

-----------------------------------------------------------------------------
(* The reader. *)

\* Lines the process may send: a reply about a thread, a thread/list entry,
\* a notification with or without metadata, a server request.
Text(k, t, c, u, w, n) ==
  [kind |-> k, thread |-> t, cwd |-> c, other |-> u, from |-> w, n |-> n]

Notes   == {Text("note", t, c, u, NoOwner, read + 1) :
              t \in Threads, c \in Cwds \cup {NoCwd}, u \in Threads \cup {NoThread}}
Others  == {Text(k, t, NoCwd, NoThread, NoOwner, read + 1) :
              k \in {"archived", "memory", "request"}, t \in Threads}
Spawns  == {Text("spawn", t, NoCwd, u, NoOwner, read + 1) : t \in Threads, u \in Threads}
Listed  == {Text(k, t, c, NoThread, NoOwner, read) :
              k \in {"list", "memoryList"}, t \in Threads, c \in Cwds \cup {NoCwd}}
Replies == {Text("reply", a[1], c, NoThread, a[2], read) : a \in asked, c \in Cwds \cup {NoCwd}}

Incoming == Notes \cup Others \cup Spawns \cup Listed \cup Replies

Incomes(l) == l.kind \in Notifications => read < MaxNotes

\* From the parsed line to the hidden-thread check.
OwnersAfterRoute(l) ==
  CASE l.kind = "list" ->
         IF Resolve(l.cwd) = NoOwner THEN owners
                                     ELSE [owners EXCEPT ![l.thread] = Resolve(l.cwd)]
    [] l.kind = "memoryList" -> [owners EXCEPT ![l.thread] = NoOwner]
    [] l.kind = "reply" -> Learn(Remember(owners, l.thread, l.from), l)
    [] OTHER -> Learn(owners, l)

ProvedAfterRoute(l) ==
  CASE l.kind = "memoryList" -> [proved EXCEPT ![l.thread] = NoOwner]
    [] OTHER -> IF Evidence(owners, l) = NoOwner THEN proved
                ELSE [proved EXCEPT ![l.thread] = Evidence(owners, l)]

HiddenAfterRoute(l) ==
  IF l.kind \in {"memory", "memoryList"} THEN hidden \cup {l.thread} ELSE hidden

Suppressed(l) ==
  /\ l.thread \in HiddenAfterRoute(l)
  /\ l.kind \in {"note", "spawn", "request", "memory"}

Route(l) ==
  /\ step = "read" /\ l \in Incoming /\ Incomes(l)
  /\ LET routed  == OwnersAfterRoute(l)
         mine    == IF l.kind \in {"list", "memoryList"} THEN NoOwner
                    ELSE routed[l.thread]
     IN  /\ mapped' = IF Suppressed(l) THEN NoOwner ELSE mine
         /\ owners' = IF l.kind = "spawn" /\ mine # NoOwner /\ ~Suppressed(l)
                        THEN Remember(routed, l.other, mine) ELSE routed
  /\ proved' = ProvedAfterRoute(l)
  /\ hidden' = HiddenAfterRoute(l)
  /\ line' = IF Suppressed(l) THEN NoLine ELSE l
  /\ read' = IF l.kind \in Notifications THEN read + 1 ELSE read
  /\ asked' = IF l.kind = "reply" THEN asked \ {<<l.thread, l.from>>} ELSE asked
  /\ IF Suppressed(l)
       THEN /\ step' = "read"
            /\ aside' = IF l.kind \in Notifications THEN aside + 1 ELSE aside
       ELSE step' = "flush" /\ UNCHANGED aside
  /\ UNCHANGED <<roots, callbacks, deferred, ready, claims, last, out, lost, overtaken>>

\* mutant: replies release nothing
FlushUnlessReply ==
  /\ step = "flush"
  /\ LET known == IF line.kind = "reply" THEN {} ELSE Owned(Settled(owners))
     IN  /\ deferred' = Only(deferred, Threads \ known)
         /\ ready' = Only(deferred, known)
         /\ step' = IF ready' = <<>> THEN "dispatch" ELSE "emit"
  /\ UNCHANGED <<routeVars, roots, callbacks, line, mapped, asked, claims, read, fateVars,
                 overtaken>>

\* take_resolved: notifications whose thread now has an owner leave the buffer
\* in order.
Flush ==
  /\ step = "flush"
  /\ owners' = Settled(owners)
  /\ proved' = [t \in Threads |-> IF owners'[t] # owners[t] THEN owners'[t] ELSE proved[t]]
  /\ deferred' = Only(deferred, Threads \ Owned(owners'))
  /\ ready' = Only(deferred, Owned(owners'))
  /\ step' = IF ready' = <<>> THEN "dispatch" ELSE "emit"
  /\ UNCHANGED <<hidden, roots, callbacks, line, mapped, asked, claims, read, fateVars,
                 overtaken>>

\* mutant: what was deferred is sent without asking whether it is hidden now
ToFrontendUnlessCallback(e) == e.thread \notin callbacks

\* One of them at a time goes to the background callback, to nobody if its
\* thread is hidden, or to the frontend.
ToFrontend(e) == e.thread \notin callbacks /\ e.thread \notin hidden

Delivered(l) == last' = [last EXCEPT ![l.thread] = l.n] /\ out' = out + 1

EmitReady ==
  /\ step = "emit"
  /\ IF ToFrontend(Head(ready))
       THEN Delivered(Head(ready)) /\ UNCHANGED aside
       ELSE aside' = aside + 1 /\ UNCHANGED <<last, out>>
  /\ ready' = Tail(ready)
  /\ step' = IF Len(ready) = 1 THEN "dispatch" ELSE "emit"
  /\ UNCHANGED <<routeVars, roots, callbacks, deferred, line, mapped, asked,
                 claims, read, lost, overtaken>>

\* mutant: the buffer is used as a stack
DeferralAtFront(l) ==
  LET all == <<l>> \o deferred
      cut == IF Len(all) > MaxDeferred THEN Len(all) - MaxDeferred ELSE 0
  IN  /\ deferred' = SubSeq(all, cut + 1, Len(all))
      /\ lost' = lost + cut

\* mutant: a dropped event is not reported
DeferralSilent(l) ==
  LET all == Append(deferred, l)
      cut == IF Len(all) > MaxDeferred THEN Len(all) - MaxDeferred ELSE 0
  IN  /\ deferred' = SubSeq(all, cut + 1, Len(all))
      /\ UNCHANGED lost

\* push: the oldest events make room, and a routing error reports them.
Deferral(l) ==
  LET all == Append(deferred, l)
      cut == IF Len(all) > MaxDeferred THEN Len(all) - MaxDeferred ELSE 0
  IN  /\ deferred' = SubSeq(all, cut + 1, Len(all))
      /\ lost' = lost + cut

Dispatch ==
  /\ step = "dispatch"
  /\ LET l     == line
         owner == IF mapped # NoOwner THEN mapped ELSE owners[l.thread]
     IN  /\ IF l.kind = "archived"
              THEN /\ owners' = [owners EXCEPT ![l.thread] = NoOwner]
                   /\ proved' = [proved EXCEPT ![l.thread] = NoOwner]
                   /\ hidden' = hidden \ {l.thread}
              ELSE UNCHANGED routeVars
         /\ \/ /\ l.kind \notin Notifications
               /\ UNCHANGED <<deferred, fateVars>>
            \/ /\ l.kind \in Notifications /\ l.thread \in callbacks
               /\ aside' = aside + 1
               /\ UNCHANGED <<deferred, last, out, lost>>
            \/ /\ l.kind \in Notifications /\ l.thread \notin callbacks
               /\ owner # NoOwner
               /\ Delivered(l)
               /\ UNCHANGED <<deferred, aside, lost>>
            \/ /\ l.kind \in Notifications /\ l.thread \notin callbacks
               /\ owner = NoOwner
               /\ Deferral(l)
               /\ UNCHANGED <<last, out, aside>>
  /\ step' = "read" /\ line' = NoLine /\ mapped' = NoOwner
  /\ UNCHANGED <<roots, callbacks, ready, asked, claims, read, overtaken>>

-----------------------------------------------------------------------------
(* The tasks beside the reader. *)

\* The line in hand will be sent at once, before what waits in the buffer.
Overtaken(t) ==
  /\ step \in {"emit", "dispatch"} /\ line.kind \in Notifications
  /\ t = line.thread /\ owners[t] = NoOwner

\* send_request_for_workspace names a thread: the caller's workspace owns it
\* if nobody does, and a reply will follow.
Claim(t, w) ==
  /\ claims < MaxClaims
  /\ owners' = Remember(owners, t, w)
  /\ asked' = asked \cup {<<t, w>>}
  /\ claims' = claims + 1
  /\ overtaken' = IF Overtaken(t) THEN overtaken \cup {t} ELSE overtaken
  /\ UNCHANGED <<roots, hidden, proved, callbacks, deferred, ready, step, line, mapped,
                 read, fateVars>>

\* thread/start names no thread: its reply does.
Start(t, w) ==
  /\ claims < MaxClaims
  /\ asked' = asked \cup {<<t, w>>}
  /\ claims' = claims + 1
  /\ UNCHANGED <<routeVars, roots, callbacks, deferred, ready, step, line, mapped,
                 read, fateVars, overtaken>>

Register(w) ==
  /\ roots' = roots \cup {w}
  /\ UNCHANGED <<routeVars, callbacks, deferred, ready, step, line, mapped, asked,
                 claims, read, fateVars, overtaken>>

Unregister(w) ==
  /\ roots' = roots \ {w}
  /\ UNCHANGED <<routeVars, callbacks, deferred, ready, step, line, mapped, asked,
                 claims, read, fateVars, overtaken>>

\* run_background_prompt_core takes a thread's events, and gives them back.
AddCallback(t) ==
  /\ claims < MaxClaims
  /\ callbacks' = callbacks \cup {t}
  /\ claims' = claims + 1
  /\ UNCHANGED <<routeVars, roots, deferred, ready, step, line, mapped, asked, read,
                 fateVars, overtaken>>

RemoveCallback(t) ==
  /\ callbacks' = callbacks \ {t}
  /\ UNCHANGED <<routeVars, roots, deferred, ready, step, line, mapped, asked, claims,
                 read, fateVars, overtaken>>

Next ==
  \/ \E l \in Incoming : Route(l)
  \/ Flush \/ EmitReady \/ Dispatch
  \/ \E t \in Threads, w \in Workspaces : Claim(t, w) \/ Start(t, w)
  \/ \E w \in Workspaces : Register(w) \/ Unregister(w)
  \/ \E t \in Threads : AddCallback(t) \/ RemoveCallback(t)

Spec == Init /\ [][Next]_vars

(* The reader goes on with a line it has read.  The process answers every  *)
(* request and lines are read in the order they were written, so a reply   *)
(* cannot be passed over for ever by other lines: strong fairness.         *)
FairSpec ==
  /\ Spec
  /\ WF_vars(Flush \/ EmitReady \/ Dispatch)
  /\ SF_vars(\E l \in Replies : Route(l))

-----------------------------------------------------------------------------
(* Properties. *)

\* A thread's notifications reach the frontend in the order they were read, unless
\* a caller claimed the thread after the flush for a line of its and before that
\* line's dispatch: then the line goes before those that wait for the next flush.
DeliveredInOrder ==
  [][\A t \in Threads \ overtaken' : last'[t] >= last[t]]_vars

\* Every notification read is delivered, kept aside, in hand, waiting in the
\* buffer, or dropped and reported; none vanishes and none is sent twice.
NothingVanishes ==
  read = out + aside + lost + Len(deferred) + Len(ready)
         + (IF step # "read" /\ line.kind \in Notifications THEN 1 ELSE 0)

\* Nothing of a hidden thread reaches the frontend but the news that it was
\* archived, even what was deferred before the thread was known to be hidden.
HiddenStaysHidden ==
  [][\A t \in hidden : last'[t] # last[t] => line.kind = "archived"]_vars

\* A caller never takes a thread from the workspace its own metadata gave it.
EvidenceWins ==
  \A t \in Threads : proved[t] # NoOwner => owners[t] = proved[t]

\* A notification that waits for the owner of its thread is released once
\* somebody claims the thread, unless the thread turns out to be a hidden one.
Waiting(t) == \E i \in DOMAIN deferred : deferred[i].thread = t

ClaimReleases ==
  \A t \in Threads : (owners[t] # NoOwner /\ Waiting(t)) ~> (~Waiting(t) \/ t \in hidden)
=============================================================================
