---------------------------- MODULE ThreadItems ----------------------------
(***************************************************************************)
(* What the frontend shows of a thread while a turn runs there: deltas and *)
(* items held back for 50 ms in two buffers (useThreadItemEvents.ts), the  *)
(* list they are merged into (the reducer), and the reads of the thread    *)
(* that replace that list or are merged into it (useThreadActions.ts).     *)
(* One thread, one turn.  A text is a sequence of letters; no letter is    *)
(* said twice.                                                             *)
(***************************************************************************)
EXTENDS Naturals, Sequences, SequencesExt

CONSTANTS Items, Kind,    \* Kind[i]: "message", "tool" or "reasoning"
          Words,          \* Words[i]: the deltas item i is streamed in
          MaxWire,        \* bound on events on their way
          MaxReads,       \* bound on reads of the thread
          Nothing

ASSUME KindsAssumption == Kind \in [Items -> {"message", "tool", "reasoning"}]
ASSUME WordsAssumption == \A i \in Items : Words[i] \in Seq(Seq(Nat)) /\ Words[i] # <<>>
ASSUME BoundsAssumption == MaxWire \in Nat /\ MaxReads \in Nat

VARIABLES
  turn, said, order, done,  \* the app-server: the turn, the deltas said of each
                            \* item, the items begun, in order, and those completed
  wire,               \* notifications on their way to the frontend
  shown,              \* itemsByThread[threadId]: <<[id, text], ...>>
  deltas, upserts,    \* pendingStreamingDeltasRef, pendingItemUpsertsRef
  armed,              \* the timers of the two, in the order they will fire
  activeTurn,         \* activeTurnIdByThread; isProcessing goes with it
  reads,              \* reads in progress
  asked, applied,     \* resumeGeneration; resumeAppliedGenerationByThreadRef
  replaceNext,        \* replaceOnResumeRef
  crossed, exact      \* history: a read crossed events; a refresh was applied at rest

serverVars == <<turn, said, order, done>>
bufferVars == <<deltas, upserts, armed>>
readVars   == <<reads, asked, applied, replaceNext>>
itemsVars == <<serverVars, wire, shown, bufferVars, activeTurn, readVars, crossed, exact>>

ItemsInit ==
  /\ turn = "before" /\ said = [i \in Items |-> 0] /\ order = <<>> /\ done = {}
  /\ wire = <<>> /\ shown = <<>>
  /\ deltas = <<>> /\ upserts = <<>> /\ armed = <<>>
  /\ activeTurn = FALSE
  /\ reads = {} /\ asked = 0 /\ applied = 0 /\ replaceNext = FALSE
  /\ crossed = FALSE /\ exact = FALSE

\* What a sequence has of a set, in its order (SelectSeq, in a form to reason with).
Among(s, S) ==
  LET f[n \in 0 .. Len(s)] ==
        IF n = 0 THEN <<>>
        ELSE IF s[n] \in S THEN Append(f[n - 1], s[n]) ELSE f[n - 1]
  IN  f[Len(s)]

-----------------------------------------------------------------------------
(* The app-server. *)

Whole(i)   == FoldLeft(LAMBDA text, word : text \o word, <<>>, Words[i])
Running(i) == Contains(order, i) /\ i \notin done

Emits(event) == Len(wire) < MaxWire /\ wire' = Append(wire, event)

ServerKeeps == UNCHANGED <<shown, bufferVars, activeTurn, readVars, crossed, exact>>

TurnStarts ==
  /\ turn = "before" /\ turn' = "running" /\ Emits([type |-> "turnStarted"])
  /\ UNCHANGED <<said, order, done>> /\ ServerKeeps

Begins(i) ==
  /\ turn = "running" /\ ~Contains(order, i)
  /\ order' = Append(order, i) /\ Emits([type |-> "started", id |-> i])
  /\ UNCHANGED <<turn, said, done>> /\ ServerKeeps

Says(i) ==
  /\ Running(i) /\ said[i] < Len(Words[i])
  /\ said' = [said EXCEPT ![i] = @ + 1]
  /\ Emits([type |-> "delta", id |-> i, text |-> Words[i][said[i] + 1]])
  /\ UNCHANGED <<turn, order, done>> /\ ServerKeeps

\* The notification has the whole text, streamed or not.
Completes(i) ==
  /\ Running(i)
  /\ done' = done \cup {i} /\ Emits([type |-> "completed", id |-> i, text |-> Whole(i)])
  /\ UNCHANGED <<turn, said, order>> /\ ServerKeeps

TurnEnds ==
  /\ turn = "running" /\ \A i \in Items : ~Running(i)
  /\ turn' = "over" /\ Emits([type |-> "turnOver"])
  /\ UNCHANGED <<said, order, done>> /\ ServerKeeps

\* thread/read and thread/resume: what is completed, and tools that run, which
\* have no output yet.
Snapshot ==
  LET known == Among(order, {i \in Items : i \in done \/ Kind[i] = "tool"})
  IN  [running |-> turn = "running",
       items |-> [n \in DOMAIN known |->
                    [id |-> known[n], text |-> IF known[n] \in done THEN Whole(known[n]) ELSE <<>>]]]

-----------------------------------------------------------------------------
(* The reducer. *)

Ids(list)    == {list[n].id : n \in DOMAIN list}
Has(list, i) == i \in Ids(list)
At(list, i)  == CHOOSE n \in DOMAIN list : list[n].id = i
TextOf(list, i) == list[At(list, i)].text

\* One item's text, or a new item at the end.
Put(list, i, text) ==
  IF Has(list, i) THEN [list EXCEPT ![At(list, i)].text = text]
  ELSE Append(list, [id |-> i, text |-> text])

\* A delta may repeat what is there, go on from it, or overlap its end.
MergeStreamingText(existing, delta) ==
  IF IsPrefix(existing, delta) THEN delta
  ELSE IF IsPrefix(delta, existing) THEN existing
  ELSE LET overlaps == {n \in 0..Len(delta) : IsSuffix(SubSeq(delta, 1, n), existing)}
           longest  == CHOOSE n \in overlaps : \A m \in overlaps : m <= n
       IN  existing \o SubSeq(delta, longest + 1, Len(delta))

AppendDelta(list, entry) ==
  LET existing == IF Has(list, entry.id) THEN TextOf(list, entry.id) ELSE <<>>
  IN  Put(list, entry.id, FoldLeft(MergeStreamingText, existing, entry.deltas))

\* mutant: the item that comes in says it all
RicherIsNew(i, old, new) == new

\* A tool's output is replaced by one that is not empty, another text by one
\* that is not shorter.
Richer(i, old, new) ==
  IF Kind[i] = "tool" THEN IF new = <<>> THEN old ELSE new
  ELSE IF Len(new) >= Len(old) THEN new ELSE old

UpsertItem(list, item) ==
  Put(list, item.id,
      IF Has(list, item.id) THEN Richer(item.id, TextOf(list, item.id), item.text)
      ELSE item.text)

-----------------------------------------------------------------------------
(* The buffers.  A timer is set when its buffer gets a first entry and is  *)
(* cleared when the buffer is flushed.                                     *)

Arm(timer)    == IF Contains(armed, timer) THEN armed ELSE Append(armed, timer)
Disarmed(T)   == Among(armed, {"deltas", "upserts"} \ T)

WithDeltas(list)  == FoldLeft(AppendDelta, list, deltas)
WithUpserts(list) == FoldLeft(UpsertItem, list, upserts)

QueueStreamingDelta(i, text) ==
  /\ deltas' = IF Has(deltas, i)
               THEN [deltas EXCEPT ![At(deltas, i)].deltas = Append(@, text)]
               ELSE Append(deltas, [id |-> i, deltas |-> <<text>>])
  /\ armed' = Arm("deltas")
  /\ UNCHANGED <<upserts, shown>>

\* mutant: an item that is queued keeps its first form
QueueItemUpsertOnce(i, text) ==
  /\ shown' = WithDeltas(shown) /\ deltas' = <<>>
  /\ upserts' = IF Has(upserts, i) THEN upserts ELSE Put(upserts, i, text)
  /\ armed' = IF "upserts" \in ToSet(armed) THEN Disarmed({"deltas"})
              ELSE Append(Disarmed({"deltas"}), "upserts")

\* An item that comes in flushes the deltas and waits; one that already waits
\* is replaced.
QueueItemUpsert(i, text) ==
  /\ shown' = WithDeltas(shown) /\ deltas' = <<>>
  /\ upserts' = Put(upserts, i, text)
  /\ armed' = IF "upserts" \in ToSet(armed) THEN Disarmed({"deltas"})
              ELSE Append(Disarmed({"deltas"}), "upserts")

FlushStreamingDeltas ==
  /\ shown' = WithDeltas(shown) /\ deltas' = <<>> /\ armed' = Disarmed({"deltas"})
  /\ UNCHANGED upserts

FlushBoth ==
  /\ shown' = WithUpserts(WithDeltas(shown))
  /\ deltas' = <<>> /\ upserts' = <<>> /\ armed' = <<>>

FlushTimerFires ==
  /\ armed # <<>>
  /\ \/ Head(armed) = "deltas" /\ FlushStreamingDeltas
     \/ /\ Head(armed) = "upserts"
        /\ shown' = WithUpserts(shown) /\ upserts' = <<>>
        /\ armed' = Disarmed({"upserts"})
        /\ UNCHANGED deltas
  /\ crossed' = (crossed \/ reads # {})
  /\ UNCHANGED <<serverVars, wire, activeTurn, readVars, exact>>

-----------------------------------------------------------------------------
(* The notifications. *)

Handles(type) ==
  /\ wire # <<>> /\ Head(wire).type = type
  /\ wire' = Tail(wire)
  /\ crossed' = (crossed \/ reads # {})
  /\ UNCHANGED <<serverVars, readVars, exact>>

OnDelta ==
  /\ Handles("delta")
  /\ QueueStreamingDelta(Head(wire).id, Head(wire).text)
  /\ UNCHANGED activeTurn

\* An agent message is shown by its deltas and by its completion.
OnItemStarted ==
  /\ Handles("started")
  /\ IF Kind[Head(wire).id] = "message" THEN FlushStreamingDeltas
     ELSE QueueItemUpsert(Head(wire).id, <<>>)
  /\ UNCHANGED activeTurn

OnItemCompleted ==
  /\ Handles("completed") /\ Kind[Head(wire).id] # "message"
  /\ QueueItemUpsert(Head(wire).id, Head(wire).text)
  /\ UNCHANGED activeTurn

OnAgentMessageCompleted ==
  /\ Handles("completed") /\ Kind[Head(wire).id] = "message"
  /\ shown' = Put(WithUpserts(WithDeltas(shown)), Head(wire).id, Head(wire).text)
  /\ deltas' = <<>> /\ upserts' = <<>> /\ armed' = <<>>
  /\ UNCHANGED activeTurn

OnTurnStarted   == Handles("turnStarted") /\ FlushBoth /\ activeTurn' = TRUE
OnTurnCompleted == Handles("turnOver") /\ FlushBoth /\ activeTurn' = FALSE

-----------------------------------------------------------------------------
(* Reads of the thread. *)

AtRest == turn = "over" /\ wire = <<>> /\ deltas = <<>> /\ upserts = <<>>

\* The list a read is merged into is the one of the render that asked for it; a
\* refresh is merged into none.
Ask(refresh) ==
  /\ asked < MaxReads /\ asked' = asked + 1
  /\ reads' = reads \cup {[gen |-> asked + 1, refresh |-> refresh,
                           local |-> IF refresh THEN <<>> ELSE shown,
                           atRest |-> refresh /\ AtRest, snap |-> Nothing]}
  /\ UNCHANGED <<serverVars, wire, shown, bufferVars, activeTurn, applied, crossed, exact>>

\* thread/resume, forced: a reconnection, or the live connection of a remote thread.
Resume == Ask(FALSE) /\ UNCHANGED replaceNext

\* One refresh of a thread at a time.
Refresh ==
  /\ \A r \in reads : ~r.refresh
  /\ Ask(TRUE) /\ replaceNext' = TRUE

Answer(r) ==
  /\ r.snap = Nothing
  /\ reads' = (reads \ {r}) \cup {[r EXCEPT !.snap = Snapshot]}
  /\ UNCHANGED <<serverVars, wire, shown, bufferVars, activeTurn, asked, applied,
                 replaceNext, crossed, exact>>

ReadFails(r) ==
  /\ reads' = reads \ {r}
  /\ UNCHANGED <<serverVars, wire, shown, bufferVars, activeTurn, asked, applied,
                 replaceNext, crossed, exact>>

\* Local items that a read may not know yet are kept: all of them where the two
\* lists have one in common, otherwise those of the active turn.
Candidates(local, remote, snap) ==
  IF Ids(local) \cap Ids(remote) # {} \/ activeTurn THEN local ELSE <<>>

MergeItem(local, item) ==
  IF Has(local, item.id)
  THEN [item EXCEPT !.text = Richer(item.id, TextOf(local, item.id), item.text)]
  ELSE item

\* The order of the local items where they include all others.
MergeByTurn(remote, local) ==
  IF Len(local) > Len(remote) /\ Ids(remote) \subseteq Ids(local)
  THEN [n \in DOMAIN local |->
          IF Has(remote, local[n].id)
          THEN MergeItem(local, remote[At(remote, local[n].id)]) ELSE local[n]]
  ELSE [n \in DOMAIN remote |-> MergeItem(local, remote[n])]
         \o Among(local, {item \in ToSet(local) : ~Has(remote, item.id)})

Hydrated(r, replace) ==
  LET remote == r.snap.items
      local  == Candidates(r.local, remote, r.snap)
  IN  IF replace THEN remote
      ELSE IF remote = <<>> THEN r.local
      ELSE IF local = <<>> THEN remote
      ELSE MergeByTurn(remote, local)

\* mutant: whichever answer comes last is applied
StaleNever(r) == FALSE

\* A younger read has been applied.
Stale(r) == r.gen < applied

\* A history without a word on execution says nothing of a thread at work.
Unheeded(r, authority) == Stale(r) \/ (r.refresh /\ activeTurn /\ authority = "none")

\* authority: whether the runtime that executes the thread was asked.
Apply(r, authority) ==
  /\ r.snap # Nothing /\ ~Unheeded(r, authority)
  /\ LET replace == r.refresh \/ replaceNext
         list    == Hydrated(r, replace)
     IN  /\ shown' = IF replace \/ list # <<>> THEN list ELSE shown
         /\ replaceNext' = IF replace THEN FALSE ELSE replaceNext
         /\ crossed' = (crossed \/ wire # <<>> \/ (replace /\ turn = "running"))
         /\ exact' = \/ exact
                     \/ /\ r.refresh /\ r.atRest
                        /\ \A q \in reads : q.gen <= r.gen
  /\ activeTurn' = (r.snap.running /\ (r.refresh => authority = "execution"))
  /\ applied' = r.gen
  /\ reads' = reads \ {r}
  /\ UNCHANGED <<serverVars, wire, bufferVars, asked>>

Ignore(r, authority) ==
  /\ r.snap # Nothing /\ Unheeded(r, authority)
  /\ reads' = reads \ {r}
  /\ UNCHANGED <<serverVars, wire, shown, bufferVars, activeTurn, asked, applied,
                 replaceNext, crossed, exact>>

Authorities == {"execution", "none"}

-----------------------------------------------------------------------------
Server ==
  \/ TurnStarts \/ TurnEnds
  \/ \E i \in Items : Begins(i) \/ Says(i) \/ Completes(i)

Handle ==
  \/ OnDelta \/ OnItemStarted \/ OnItemCompleted \/ OnAgentMessageCompleted
  \/ OnTurnStarted \/ OnTurnCompleted

Reading ==
  \/ Resume \/ Refresh
  \/ \E r \in reads : Answer(r) \/ ReadFails(r)
  \/ \E r \in reads, a \in Authorities : Apply(r, a) \/ Ignore(r, a)

ItemsNext == Server \/ Handle \/ FlushTimerFires \/ Reading

\* Notifications that were sent are handled, and timers that are set fire or are
\* cleared: nothing else shortens the two sequences.
ItemsFairness ==
  /\ WF_wire(wire # <<>> /\ wire' = Tail(wire))
  /\ WF_armed(armed # <<>> /\ armed' = Tail(armed))

ItemsSpec == ItemsInit /\ [][ItemsNext]_itemsVars /\ ItemsFairness

-----------------------------------------------------------------------------
(* Properties.  A read that crosses events can lose what they said (the    *)
(* README says how); what is promised where none did:                      *)

\* What is shown is not taken back: buffers that fill and empty in any order,
\* and reads merged in the middle of a turn, only add items and lengthen texts.
ShownGrows ==
  [][~crossed' => \A i \in Ids(shown) :
       Has(shown', i) /\ IsPrefix(TextOf(shown, i), TextOf(shown', i))]_itemsVars

\* Once a refresh asked for at rest is applied, the thread shows what the
\* server has, whatever was wrong before and whatever older answers come late.
RefreshIsExact == exact => shown = Snapshot.items

\* An item the server has completed comes to be shown, with the whole text.
CompletedIsShown ==
  \A i \in Items :
    i \in done ~> crossed \/ (Has(shown, i) /\ TextOf(shown, i) = Whole(i))
=============================================================================
