----------------------- MODULE AppServerSession_proofs -----------------------
(***************************************************************************)
(* Proofs about AppServerSession, for any number of calls, threads and     *)
(* turns and any caller discipline.                                        *)
(***************************************************************************)
EXTENDS AppServerSession, TLAPS

(* While a response is being delivered it is the first unread line. *)
DeliverOK ==
  reader = "deliver" => stdout # <<>> /\ Head(stdout).kind = "response"

TypeInv == TypeOK /\ DeliverOK

\* The first unread line is a Line, and its kind tells its fields.
LEMMA HeadLine ==
  ASSUME stdout \in Seq(Lines), stdout # <<>>
  PROVE  /\ Head(stdout) \in Lines
         /\ Tail(stdout) \in Seq(Lines)
         /\ Head(stdout).kind = "response" =>
              /\ Head(stdout).id \in Requests
              /\ Head(stdout).reply \in {"result", "error"}
         /\ Head(stdout).kind # "response" => Head(stdout).turn \in Turns
<1>1. Head(stdout) \in Lines /\ Tail(stdout) \in Seq(Lines)
  OBVIOUS
<1>2. QED
  BY <1>1 DEF Lines

\* A line that is put at the end leaves the first one where it is.
LEMMA AppendLine ==
  ASSUME stdout \in Seq(Lines), NEW l \in Lines, PutLine(l)
  PROVE  /\ stdout' \in Seq(Lines)
         /\ stdout' # <<>>
         /\ stdout # <<>> => Head(stdout') = Head(stdout)
BY DEF PutLine

\* The initial states are well typed.
LEMMA TypeInit == Init => TypeInv
<1> SUFFICES ASSUME Init PROVE TypeInv
  OBVIOUS
<1>1. stdout \in Seq(Lines)
  BY DEF Init
<1>2. call \in [Requests -> [method : AllMethods, thread : Threads]]
  BY DEF Init, AllMethods
<1>3. turn \in [Turns -> [state : {"unused", "accepted", "running", "ended"},
                         thread : Threads]]
  BY DEF Init
<1>4. held \in [pending : SUBSET Requests, context : SUBSET Requests,
               active : [Threads -> Entry]]
  BY DEF Init, Entry
<1>5. emitted \subseteq [thread : Threads, turn : Entry]
  BY DEF Init
<1>6. QED
  BY <1>1, <1>2, <1>3, <1>4, <1>5
     DEF Init, TypeInv, TypeOK, DeliverOK, CallerPCs, ReaderPCs, Replies,
         Outcomes, Entry

\* Every step of a caller keeps the types.
LEMMA TypeCaller ==
  ASSUME TypeInv, NEW r \in Requests, CallerStep(r) \/ TimeOut(r)
  PROVE  TypeInv'
<1> USE DEF TypeInv, TypeOK, DeliverOK, CallerPCs, Replies, Outcomes, Entry,
            Goto, Return, mapVars, readerVars, procVars
<1>1. CASE SetPendingMarker(r)
  BY <1>1 DEF SetPendingMarker
<1>2. CASE InsertPending(r)
  BY <1>2 DEF InsertPending
<1>3. CASE InsertContext(r)
  BY <1>3 DEF InsertContext
<1>4. CASE CheckBeforeLock(r)
  <2>1. CASE outputClosed
    BY <1>4, <2>1 DEF CheckBeforeLock
  <2>2. CASE ~outputClosed
    BY <1>4, <2>2 DEF CheckBeforeLock
  <2>3. QED
    BY <2>1, <2>2
<1>5. CASE LockStdin(r)
  <2>1. CASE outputClosed
    BY <1>5, <2>1 DEF LockStdin
  <2>2. CASE ~outputClosed
    BY <1>5, <2>2 DEF LockStdin
  <2>3. QED
    BY <2>1, <2>2
<1>6. CASE WriteSucceeds(r)
  BY <1>6 DEF WriteSucceeds
<1>7. CASE WriteFails(r)
  BY <1>7 DEF WriteFails
<1>8. CASE ReceiveReply(r)
  BY <1>8 DEF ReceiveReply
<1>9. CASE RemovePending(r)
  BY <1>9 DEF RemovePending
<1>10. CASE RemoveContext(r)
  BY <1>10 DEF RemoveContext
<1>11. CASE ClearPendingMarker(r)
  BY <1>11 DEF ClearPendingMarker, ClearedIf
<1>12. CASE TimeOut(r)
  BY <1>12 DEF TimeOut
<1>13. QED
  BY <1>1, <1>2, <1>3, <1>4, <1>5, <1>6, <1>7, <1>8, <1>9, <1>10, <1>11, <1>12
     DEF CallerStep

\* Every step of the reader, and of shutdown, keeps the types.
LEMMA TypeReader ==
  ASSUME TypeInv, ReaderStep \/ EndOfOutput \/ ShutdownMarksClosed
  PROVE  TypeInv'
<1> USE DEF TypeInv, TypeOK, DeliverOK, ReaderPCs, Replies, Entry,
            callerVars, mapVars, procVars, readerVars
<1>1. CASE ReadResponse
  BY <1>1 DEF ReadResponse, Reading
<1>2. CASE DeliverResponse
  BY <1>2, HeadLine DEF DeliverResponse
<1>3. CASE ReadTurnStarted
  BY <1>3, HeadLine DEF ReadTurnStarted, Reading
<1>4. CASE ReadTurnCompleted
  BY <1>4, HeadLine DEF ReadTurnCompleted, Reading, ClearedIf
<1>5. CASE ReadTurnError
  BY <1>5, HeadLine DEF ReadTurnError, Reading, ClearedIf
<1>6. CASE MarkOutputClosed
  BY <1>6 DEF MarkOutputClosed
<1>7. CASE DrainPending
  BY <1>7 DEF DrainPending
<1>8. CASE DrainContext
  BY <1>8 DEF DrainContext
<1>9. CASE DrainActive
  BY <1>9 DEF DrainActive
<1>10. CASE ReplyStopped
  BY <1>10 DEF ReplyStopped
<1>11. CASE EmitTurnErrors
  <2>1. ErrorTargets \subseteq [thread : Threads, turn : Entry]
    BY DEF ErrorTargets
  <2>2. QED
    BY <1>11, <2>1 DEF EmitTurnErrors
<1>12. CASE EndOfOutput
  BY <1>12 DEF EndOfOutput
<1>13. CASE ShutdownMarksClosed
  BY <1>13 DEF ShutdownMarksClosed
<1>14. QED
  BY <1>1, <1>2, <1>3, <1>4, <1>5, <1>6, <1>7, <1>8, <1>9, <1>10, <1>11,
     <1>12, <1>13 DEF ReaderStep

\* Every step of the process keeps the types.
LEMMA TypeProcess ==
  ASSUME TypeInv, ProcessStep
  PROVE  TypeInv'
<1> USE DEF TypeInv, TypeOK, DeliverOK, ProcessFrame, callerVars, mapVars,
            readerVars
<1>1. ASSUME NEW r \in Requests, NEW reply \in {"result", "error"},
             Answer(r, reply)
      PROVE  TypeInv'
  <2>1. Response(r, reply) \in Lines
    BY DEF Response, Lines
  <2>2. QED
    BY <1>1, <2>1, AppendLine DEF Answer
<1>2. ASSUME NEW r \in Requests, NEW u \in Turns, AcceptTurn(r, u)
      PROVE  TypeInv'
  <2>1. Response(r, "result") \in Lines
    BY DEF Response, Lines
  <2>2. QED
    BY <1>2, <2>1, AppendLine DEF AcceptTurn
<1>3. ASSUME NEW u \in Turns, NEW kind \in {"completed", "failed"},
             AnnounceTurn(u) \/ RetryTurn(u) \/ EndTurn(u, kind)
      PROVE  TypeInv'
  <2>1. \A k \in {"started", "retrying", "completed", "failed"} :
          TurnLine(k, u) \in Lines
    BY DEF TurnLine, Lines
  <2>2. CASE AnnounceTurn(u)
    BY <2>1, <2>2, AppendLine DEF AnnounceTurn
  <2>3. CASE RetryTurn(u)
    BY <2>1, <2>3, AppendLine DEF RetryTurn
  <2>4. CASE EndTurn(u, kind)
    BY <2>1, <2>4, AppendLine DEF EndTurn
  <2>5. QED
    BY <1>3, <2>2, <2>3, <2>4
<1>4. CASE Exit
  BY <1>4 DEF Exit
<1>5. QED
  BY <1>1, <1>2, <1>3, <1>4 DEF ProcessStep

\* Calls, steps and stuttering together.
LEMMA TypeNext == TypeInv /\ [Next]_vars => TypeInv'
<1> SUFFICES ASSUME TypeInv, [Next]_vars PROVE TypeInv'
  OBVIOUS
<1>1. ASSUME NEW r \in Requests, NEW m \in Methods, NEW t \in Threads, Call(r, m, t)
      PROVE  TypeInv'
  BY <1>1, MethodsAssumption
     DEF Call, TypeInv, TypeOK, DeliverOK, CallerPCs, Outcomes, Goto, Return,
         mapVars, readerVars, procVars
<1>2. CASE UNCHANGED vars
  BY <1>2 DEF TypeInv, TypeOK, DeliverOK, vars, callerVars, mapVars,
              readerVars, procVars
<1>3. QED
  BY <1>1, <1>2, TypeCaller, TypeReader, TypeProcess DEF Next

\* The state is well typed, and a response is delivered from the head of stdout.
THEOREM TypeCorrect == Spec => [](TypeOK /\ DeliverOK)
<1>1. TypeInv => TypeOK /\ DeliverOK
  BY DEF TypeInv
<1>2. QED
  BY <1>1, TypeInit, TypeNext, PTL DEF Spec

-----------------------------------------------------------------------------
(* NoStrandedRequest is not inductive: that a waiting caller has a reply at *)
(* the end rests on where its pending entry has been all along.            *)

Drained == {"drainContext", "drainActive", "reply", "emit", "done"}

\* The flag is up before anything is drained.
ClosedFirst == reader \in Drained \cup {"drainPending"} => outputClosed

\* A caller without a reply is in pending, or in what was drained from it.
EntryKept ==
  \A r \in Requests :
    pc[r] \in {"pendingIn", "registered", "queued", "writing", "waiting"}
      /\ rx[r] = "empty" =>
        \/ r \in pending
        \/ r \in held.pending /\ reader \in {"drainContext", "drainActive", "reply"}

\* What enters pending after the drain is never written.
LateNotWritten ==
  reader \in Drained =>
    \A r \in Requests : pc[r] \in {"writing", "waiting"} => r \notin pending

EndInv == TypeInv /\ ClosedFirst /\ EntryKept /\ LateNotWritten

\* A step of a caller keeps the end-of-output invariant.
LEMMA EndCaller ==
  ASSUME EndInv, NEW r \in Requests, CallerStep(r) \/ TimeOut(r)
  PROVE  ClosedFirst' /\ EntryKept' /\ LateNotWritten'
<1> USE DEF EndInv, TypeInv, TypeOK, ClosedFirst, EntryKept, LateNotWritten,
            Drained, Goto, Return, mapVars, readerVars, procVars
<1>1. CASE SetPendingMarker(r)
  BY <1>1 DEF SetPendingMarker
<1>2. CASE InsertPending(r)
  BY <1>2 DEF InsertPending
<1>3. CASE InsertContext(r)
  BY <1>3 DEF InsertContext
<1>4. CASE CheckBeforeLock(r)
  BY <1>4 DEF CheckBeforeLock
<1>5. CASE LockStdin(r)
  BY <1>5 DEF LockStdin
<1>6. CASE WriteSucceeds(r)
  BY <1>6 DEF WriteSucceeds
<1>7. CASE WriteFails(r)
  BY <1>7 DEF WriteFails
<1>8. CASE ReceiveReply(r)
  BY <1>8 DEF ReceiveReply
<1>9. CASE RemovePending(r)
  BY <1>9 DEF RemovePending
<1>10. CASE RemoveContext(r)
  BY <1>10 DEF RemoveContext
<1>11. CASE ClearPendingMarker(r)
  BY <1>11 DEF ClearPendingMarker
<1>12. CASE TimeOut(r)
  BY <1>12 DEF TimeOut
<1>13. QED
  BY <1>1, <1>2, <1>3, <1>4, <1>5, <1>6, <1>7, <1>8, <1>9, <1>10, <1>11, <1>12
     DEF CallerStep

\* A step of the reader keeps the end-of-output invariant.
LEMMA EndReader ==
  ASSUME EndInv, ReaderStep \/ EndOfOutput \/ ShutdownMarksClosed
  PROVE  ClosedFirst' /\ EntryKept' /\ LateNotWritten'
<1> USE DEF EndInv, TypeInv, TypeOK, DeliverOK, ClosedFirst, EntryKept,
            LateNotWritten, Drained, callerVars, mapVars, procVars, readerVars
<1>1. CASE ReadResponse
  BY <1>1 DEF ReadResponse, Reading
<1>2. CASE DeliverResponse
  BY <1>2, HeadLine DEF DeliverResponse
<1>3. CASE ReadTurnStarted \/ ReadTurnCompleted \/ ReadTurnError
  BY <1>3 DEF ReadTurnStarted, ReadTurnCompleted, ReadTurnError, Reading
<1>4. CASE MarkOutputClosed
  BY <1>4 DEF MarkOutputClosed
<1>5. CASE DrainPending
  BY <1>5 DEF DrainPending
<1>6. CASE DrainContext
  BY <1>6 DEF DrainContext
<1>7. CASE DrainActive
  BY <1>7 DEF DrainActive
<1>8. CASE ReplyStopped
  BY <1>8 DEF ReplyStopped
<1>9. CASE EmitTurnErrors
  BY <1>9 DEF EmitTurnErrors
<1>10. CASE EndOfOutput
  BY <1>10 DEF EndOfOutput
<1>11. CASE ShutdownMarksClosed
  BY <1>11 DEF ShutdownMarksClosed
<1>12. QED
  BY <1>1, <1>2, <1>3, <1>4, <1>5, <1>6, <1>7, <1>8, <1>9, <1>10, <1>11
     DEF ReaderStep

\* The end-of-output invariant is inductive.
LEMMA EndNext == EndInv /\ [Next]_vars => EndInv'
<1> SUFFICES ASSUME EndInv, [Next]_vars PROVE EndInv'
  OBVIOUS
<1>1. TypeInv'
  BY TypeNext DEF EndInv
<1>2. ClosedFirst' /\ EntryKept' /\ LateNotWritten'
  <2> USE DEF EndInv, ClosedFirst, EntryKept, LateNotWritten
  <2>1. ASSUME NEW r \in Requests, NEW m \in Methods, NEW t \in Threads,
               Call(r, m, t)
        PROVE  ClosedFirst' /\ EntryKept' /\ LateNotWritten'
    BY <2>1 DEF Call, TypeInv, TypeOK, Goto, Return, mapVars, readerVars, procVars
  <2>2. CASE ProcessStep
    BY <2>2 DEF ProcessStep, Answer, AcceptTurn, AnnounceTurn, RetryTurn,
                EndTurn, Exit, ProcessFrame, callerVars, mapVars, readerVars
  <2>3. CASE UNCHANGED vars
    BY <2>3 DEF vars, callerVars, mapVars, readerVars, procVars
  <2>4. QED
    BY <2>1, <2>2, <2>3, EndCaller, EndReader DEF Next
<1>3. QED
  BY <1>1, <1>2 DEF EndInv

\* When the reader has failed what it drained, every waiting caller has its
\* reply: write_message's checks and fail_pending_and_active_turns leave no gap.
THEOREM NoRequestStranded == Spec => []NoStrandedRequest
<1>1. Init => EndInv
  BY TypeInit DEF Init, EndInv, ClosedFirst, EntryKept, LateNotWritten, Drained
<1>2. EndInv => NoStrandedRequest
  BY DEF EndInv, TypeInv, TypeOK, EntryKept, LateNotWritten, Drained, NoStrandedRequest
<1>3. QED
  BY <1>1, <1>2, EndNext, PTL DEF Spec

-----------------------------------------------------------------------------
(* NoLeftovers is not inductive either: a call that has its reply is done   *)
(* without removing anything, so its two entries must be gone by then.      *)

Unwritten == {"idle", "admitted", "marked", "pendingIn", "registered", "queued", "writing"}

\* Nothing answers a call that has not been written, but for the end of output.
WrittenFirst ==
  /\ \A r \in inbox : pc[r] \notin Unwritten
  /\ \A i \in DOMAIN stdout :
       stdout[i].kind = "response" => pc[stdout[i].id] \notin Unwritten
  /\ \A r \in Requests : pc[r] \in Unwritten /\ rx[r] # "empty" =>
       rx[r] = "stopped" /\ reader \in {"emit", "done"}

\* Where each call has no entry in pending, or in request_context.
EntriesGone ==
  /\ \A r \in Requests : pc[r] \in {"idle", "admitted", "marked", "uncontext"} => r \notin pending
  /\ \A r \in Requests : pc[r] \in {"idle", "admitted", "marked", "pendingIn"} => r \notin context
  /\ \A r \in Requests : pc[r] \in {"unmark", "done"} => r \notin pending /\ r \notin context
  /\ \A r \in Requests : pc[r] \in {"writing", "waiting"} /\ rx[r] # "empty" =>
       r \notin pending /\ r \notin context

\* The context of a response is taken first, and none enters after the drain.
ContextFirst ==
  /\ reader = "deliver" => Head(stdout).id \notin context
  /\ reader \in Drained \ {"drainContext"} =>
       \A r \in Requests : pc[r] \in {"writing", "waiting"} => r \notin context

LeftInv == EndInv /\ WrittenFirst /\ EntriesGone /\ ContextFirst

\* A line that is put at the end, or taken from the front, leaves the others.
LEMMA LinesAfter ==
  ASSUME stdout \in Seq(Lines)
  PROVE  /\ \A l \in Lines : PutLine(l) =>
              /\ DOMAIN stdout' = 1..(Len(stdout) + 1)
              /\ \A i \in DOMAIN stdout' :
                   stdout'[i] = IF i = Len(stdout) + 1 THEN l ELSE stdout[i]
         /\ stdout # <<>> /\ stdout' = Tail(stdout) =>
              \A i \in DOMAIN stdout' : i + 1 \in DOMAIN stdout /\ stdout'[i] = stdout[i + 1]
         /\ stdout # <<>> => 1 \in DOMAIN stdout /\ Head(stdout) = stdout[1]
         /\ \A i \in DOMAIN stdout :
              stdout[i] \in Lines /\ (stdout[i].kind = "response" => stdout[i].id \in Requests)
BY DEF PutLine, Lines

\* A step of a caller leaves no entry behind.
LEMMA LeftCaller ==
  ASSUME LeftInv, NEW r \in Requests, CallerStep(r) \/ TimeOut(r)
  PROVE  WrittenFirst' /\ EntriesGone' /\ ContextFirst'
<1> USE DEF LeftInv, EndInv, TypeInv, TypeOK, ClosedFirst, LateNotWritten, WrittenFirst,
            EntriesGone, ContextFirst, Unwritten, Drained, Goto, Return, mapVars,
            readerVars, procVars
<1>1. CASE SetPendingMarker(r)
  BY <1>1 DEF SetPendingMarker
<1>2. CASE InsertPending(r)
  BY <1>2 DEF InsertPending
<1>3. CASE InsertContext(r)
  BY <1>3, LinesAfter DEF InsertContext, DeliverOK
<1>4. CASE CheckBeforeLock(r)
  <2>1. CASE outputClosed
    BY <1>4, <2>1, LinesAfter DEF CheckBeforeLock
  <2>2. CASE ~outputClosed
    BY <1>4, <2>2, LinesAfter DEF CheckBeforeLock
  <2>3. QED
    BY <2>1, <2>2
<1>5. CASE LockStdin(r)
  <2>1. CASE outputClosed
    BY <1>5, <2>1, LinesAfter DEF LockStdin
  <2>2. CASE ~outputClosed
    BY <1>5, <2>2, LinesAfter DEF LockStdin
  <2>3. QED
    BY <2>1, <2>2
<1>6. CASE WriteSucceeds(r)
  BY <1>6 DEF WriteSucceeds
<1>7. CASE WriteFails(r)
  BY <1>7 DEF WriteFails
<1>8. CASE ReceiveReply(r)
  BY <1>8 DEF ReceiveReply
<1>9. CASE RemovePending(r)
  BY <1>9 DEF RemovePending
<1>10. CASE RemoveContext(r)
  BY <1>10 DEF RemoveContext
<1>11. CASE ClearPendingMarker(r)
  BY <1>11 DEF ClearPendingMarker
<1>12. CASE TimeOut(r)
  BY <1>12 DEF TimeOut
<1>13. QED
  BY <1>1, <1>2, <1>3, <1>4, <1>5, <1>6, <1>7, <1>8, <1>9, <1>10, <1>11, <1>12
     DEF CallerStep

\* A step of the reader leaves no entry behind.
LEMMA LeftReader ==
  ASSUME LeftInv, ReaderStep \/ EndOfOutput \/ ShutdownMarksClosed
  PROVE  WrittenFirst' /\ EntriesGone' /\ ContextFirst'
<1> USE DEF LeftInv, EndInv, TypeInv, TypeOK, DeliverOK, ClosedFirst, LateNotWritten,
            WrittenFirst, EntriesGone, ContextFirst, Unwritten, Drained, callerVars,
            mapVars, procVars, readerVars
<1>1. CASE ReadResponse
  BY <1>1, HeadLine DEF ReadResponse, Reading
<1>2. CASE DeliverResponse
  BY <1>2, HeadLine, LinesAfter DEF DeliverResponse
<1>3. CASE ReadTurnStarted \/ ReadTurnCompleted \/ ReadTurnError
  BY <1>3, LinesAfter DEF ReadTurnStarted, ReadTurnCompleted, ReadTurnError, Reading
<1>4. CASE MarkOutputClosed
  BY <1>4 DEF MarkOutputClosed
<1>5. CASE DrainPending
  BY <1>5 DEF DrainPending
<1>6. CASE DrainContext
  BY <1>6 DEF DrainContext
<1>7. CASE DrainActive
  BY <1>7 DEF DrainActive
<1>8. CASE ReplyStopped
  BY <1>8 DEF ReplyStopped
<1>9. CASE EmitTurnErrors
  BY <1>9 DEF EmitTurnErrors
<1>10. CASE EndOfOutput
  BY <1>10 DEF EndOfOutput
<1>11. CASE ShutdownMarksClosed
  BY <1>11 DEF ShutdownMarksClosed
<1>12. QED
  BY <1>1, <1>2, <1>3, <1>4, <1>5, <1>6, <1>7, <1>8, <1>9, <1>10, <1>11
     DEF ReaderStep

\* A step of the process answers none but a call that was written.
LEMMA LeftProcess ==
  ASSUME LeftInv, ProcessStep
  PROVE  WrittenFirst' /\ EntriesGone' /\ ContextFirst'
<1> USE DEF LeftInv, EndInv, TypeInv, TypeOK, DeliverOK, WrittenFirst, EntriesGone,
            ContextFirst, ProcessFrame, callerVars, mapVars, readerVars
<1>1. ASSUME NEW l \in Lines, PutLine(l), ProcessFrame, inbox' \subseteq inbox,
             l.kind = "response" => l.id \in inbox
      PROVE  WrittenFirst' /\ EntriesGone' /\ ContextFirst'
  BY <1>1, LinesAfter, AppendLine
<1>2. ASSUME NEW r \in Requests, NEW reply \in {"result", "error"}, Answer(r, reply)
      PROVE  WrittenFirst' /\ EntriesGone' /\ ContextFirst'
  <2>1. Response(r, reply) \in Lines /\ Response(r, reply).id = r
    BY DEF Response, Lines
  <2>2. QED
    BY <1>1, <1>2, <2>1 DEF Answer
<1>3. ASSUME NEW r \in Requests, NEW u \in Turns, AcceptTurn(r, u)
      PROVE  WrittenFirst' /\ EntriesGone' /\ ContextFirst'
  <2>1. Response(r, "result") \in Lines /\ Response(r, "result").id = r
    BY DEF Response, Lines
  <2>2. QED
    BY <1>1, <1>3, <2>1 DEF AcceptTurn
<1>4. ASSUME NEW u \in Turns, NEW kind \in {"completed", "failed"},
             AnnounceTurn(u) \/ RetryTurn(u) \/ EndTurn(u, kind)
      PROVE  WrittenFirst' /\ EntriesGone' /\ ContextFirst'
  <2>1. \A k \in {"started", "retrying", "completed", "failed"} :
          TurnLine(k, u) \in Lines /\ TurnLine(k, u).kind # "response"
    BY DEF TurnLine, Lines
  <2>2. QED
    BY <1>1, <1>4, <2>1 DEF AnnounceTurn, RetryTurn, EndTurn
<1>5. CASE Exit
  BY <1>5 DEF Exit
<1>6. QED
  BY <1>2, <1>3, <1>4, <1>5 DEF ProcessStep

\* The invariant of the entries is inductive.
LEMMA LeftNext == LeftInv /\ [Next]_vars => LeftInv'
<1> SUFFICES ASSUME LeftInv, [Next]_vars PROVE LeftInv'
  OBVIOUS
<1>1. EndInv'
  BY EndNext DEF LeftInv
<1>2. WrittenFirst' /\ EntriesGone' /\ ContextFirst'
  <2>1. ASSUME NEW r \in Requests, NEW m \in Methods, NEW t \in Threads, Call(r, m, t)
        PROVE  WrittenFirst' /\ EntriesGone' /\ ContextFirst'
    <3> USE DEF LeftInv, EndInv, TypeInv, TypeOK, WrittenFirst, EntriesGone, ContextFirst,
                Unwritten, Call, Goto, Return, mapVars, readerVars, procVars
    <3>1. CASE outputClosed
      BY <2>1, <3>1, LinesAfter
    <3>2. CASE ~outputClosed
      BY <2>1, <3>2, LinesAfter
    <3>3. QED
      BY <3>1, <3>2
  <2>2. CASE UNCHANGED vars
    BY <2>2 DEF LeftInv, WrittenFirst, EntriesGone, ContextFirst, vars, callerVars,
                mapVars, readerVars, procVars
  <2>3. QED
    BY <2>1, <2>2, LeftCaller, LeftReader, LeftProcess DEF Next
<1>3. QED
  BY <1>1, <1>2 DEF LeftInv

\* Initially there is no entry.
LEMMA LeftInit == Init => LeftInv
<1>1. Init => EndInv
  BY TypeInit DEF Init, EndInv, ClosedFirst, EntryKept, LateNotWritten, Drained
<1>2. QED
  BY <1>1 DEF Init, LeftInv, WrittenFirst, EntriesGone, ContextFirst, Drained

\* However a call ends, by a reply, a failed write, its timeout or the end of
\* output, neither pending nor request_context keeps an entry for it.
THEOREM NothingLeftOver == Spec => []NoLeftovers
<1>1. LeftInv => NoLeftovers
  BY DEF LeftInv, EntriesGone, NoLeftovers
<1>2. QED
  BY <1>1, LeftInit, LeftNext, PTL DEF Spec

-----------------------------------------------------------------------------
(* The synthetic errors are sent in one step, from what was drained.        *)

ErrorInv == TypeInv /\ (reader # "done" => emitted = {}) /\ OneErrorPerThread

\* The targets have one entry per thread, and none of them is the marker.
LEMMA TargetsOnce ==
  ASSUME TypeInv
  PROVE  \A e, f \in ErrorTargets :
           e.turn # PendingTurn /\ (e.thread = f.thread => e = f)
BY TurnsAssumption DEF ErrorTargets, TypeInv, TypeOK, Entry

\* At the end of output a thread gets one synthetic error at most, whatever it
\* had pending, and the internal marker is never sent as a turn.
THEOREM OneErrorEach == Spec => []OneErrorPerThread
<1>1. Init => ErrorInv
  BY TypeInit DEF Init, ErrorInv, OneErrorPerThread
<1>2. ErrorInv /\ [Next]_vars => ErrorInv'
  <2> SUFFICES ASSUME ErrorInv, [Next]_vars PROVE ErrorInv'
    OBVIOUS
  <2>1. TypeInv'
    BY TypeNext DEF ErrorInv
  <2>2. CASE EmitTurnErrors
    BY <2>1, <2>2, TargetsOnce DEF ErrorInv, EmitTurnErrors, OneErrorPerThread
  <2>3. ASSUME UNCHANGED emitted, reader = "done" => reader' = "done"
        PROVE  ErrorInv'
    BY <2>1, <2>3 DEF ErrorInv, OneErrorPerThread
  <2>4. ASSUME ~EmitTurnErrors
        PROVE  UNCHANGED emitted /\ (reader = "done" => reader' = "done")
    <3>1. CASE ReaderStep
      BY <2>4, <3>1
         DEF ReaderStep, ReadResponse, DeliverResponse, ReadTurnStarted, ReadTurnCompleted,
             ReadTurnError, MarkOutputClosed, DrainPending, DrainContext, DrainActive,
             ReplyStopped, Reading
    <3>2. CASE EndOfOutput \/ ShutdownMarksClosed
      BY <3>2 DEF EndOfOutput, ShutdownMarksClosed, readerVars
    <3>3. CASE ProcessStep
      BY <3>3 DEF ProcessStep, Answer, AcceptTurn, AnnounceTurn, RetryTurn, EndTurn, Exit,
                  ProcessFrame, readerVars
    <3>4. ASSUME NEW r \in Requests, CallerStep(r) \/ TimeOut(r)
          PROVE  UNCHANGED readerVars
      BY <3>4 DEF CallerStep, TimeOut, SetPendingMarker, InsertPending, InsertContext,
                  CheckBeforeLock, LockStdin, WriteSucceeds, WriteFails, ReceiveReply,
                  RemovePending, RemoveContext, ClearPendingMarker
    <3>5. ASSUME NEW r \in Requests, NEW m \in Methods, NEW t \in Threads, Call(r, m, t)
          PROVE  UNCHANGED readerVars
      BY <3>5 DEF Call
    <3>6. QED
      BY <3>1, <3>2, <3>3, <3>4, <3>5 DEF Next, vars, readerVars
  <2>5. QED
    BY <2>2, <2>3, <2>4
<1>3. ErrorInv => OneErrorPerThread
  BY DEF ErrorInv
<1>4. QED
  BY <1>1, <1>2, <1>3, PTL DEF Spec

-----------------------------------------------------------------------------
(* A marker: turns are announced before they are over, so nobody else than  *)
(* the turn's own announcement takes the marker of an accepted turn/start.  *)

LineOf(i, u) == stdout[i].kind # "response" /\ stdout[i].turn = u
Started(i, u) == stdout[i].kind = "started" /\ stdout[i].turn = u

\* What the process has said of each turn, read or not.
TurnsInOrder ==
  /\ \A u \in Turns : turn[u].state = "unused" => shown[u] = "unseen"
  /\ \A u \in Turns, i \in DOMAIN stdout :
       LineOf(i, u) => turn[u].state \in {"running", "ended"}
  /\ \A u \in Turns : turn[u].state \in {"running", "ended"} /\ shown[u] = "unseen" =>
       \E i \in DOMAIN stdout : Started(i, u)
  /\ \A u \in Turns, j \in DOMAIN stdout : LineOf(j, u) /\ shown[u] = "unseen" =>
       \E i \in DOMAIN stdout : i <= j /\ Started(i, u)

\* The process has accepted the call.
Accepted(r) ==
  \/ rx[r] = "result"
  \/ \E i \in DOMAIN stdout :
       stdout[i].kind = "response" /\ stdout[i].id = r /\ stdout[i].reply = "result"

\* The owner of a marker: a turn/start not accepted so far, or its turn.
MarkedBy(r, t) ==
  Marks(r) /\ call[r].thread = t /\ pc[r] \in InFlight /\ ~Accepted(r)
ToBeSeen(u, t) ==
  turn[u].thread = t /\ turn[u].state # "unused" /\ shown[u] = "unseen"

Owned ==
  \A t \in Threads : active[t] = PendingTurn =>
    (\E r \in Requests : MarkedBy(r, t)) \/ (\E u \in Turns : ToBeSeen(u, t))

MarkerInv == LeftInv /\ TurnsInOrder /\ Owned

\* A step of a caller keeps a marker's owner, or removes the marker.
LEMMA MarkerCaller ==
  ASSUME MarkerInv, NEW r \in Requests, CallerStep(r) \/ TimeOut(r)
  PROVE  TurnsInOrder' /\ Owned'
<1> USE DEF MarkerInv, LeftInv, EndInv, TypeInv, TypeOK, Goto, Return, mapVars,
            readerVars, procVars
<1>1. UNCHANGED <<call, rx, stdout, turn, shown>>
  BY DEF CallerStep, TimeOut, SetPendingMarker, InsertPending, InsertContext,
         CheckBeforeLock, LockStdin, WriteSucceeds, WriteFails, ReceiveReply,
         RemovePending, RemoveContext, ClearPendingMarker
<1>2. TurnsInOrder'
  BY <1>1 DEF TurnsInOrder, LineOf, Started
<1> SUFFICES Owned'
  BY <1>2
<1>3. ASSUME UNCHANGED active, \A q \in Requests : pc[q] \in InFlight => pc'[q] \in InFlight \/ Accepted(q)
      PROVE  Owned'
  <2>1. \A q \in Requests, t \in Threads : MarkedBy(q, t) => MarkedBy(q, t)'
    BY <1>1, <1>3 DEF MarkedBy, Marks, Accepted
  <2>2. \A u \in Turns, t \in Threads : ToBeSeen(u, t) => ToBeSeen(u, t)'
    BY <1>1 DEF ToBeSeen
  <2>3. QED
    BY <1>3, <2>1, <2>2 DEF Owned
<1>4. CASE SetPendingMarker(r)
  <2>1. pc' = [pc EXCEPT ![r] = "marked"]
    BY <1>4 DEF SetPendingMarker
  <2>2. ~Accepted(r)
    BY <1>4 DEF SetPendingMarker, Accepted, WrittenFirst, Unwritten
  <2>3. \A q \in Requests, t \in Threads : MarkedBy(q, t) => MarkedBy(q, t)'
    BY <1>1, <2>1 DEF MarkedBy, Marks, Accepted, InFlight, CallerPCs
  <2>4. \A u \in Turns, t \in Threads : ToBeSeen(u, t) => ToBeSeen(u, t)'
    BY <1>1 DEF ToBeSeen
  <2>5. \A t \in Threads : Marks(r) /\ t = call[r].thread => MarkedBy(r, t)'
    BY <1>1, <2>1, <2>2 DEF MarkedBy, Marks, Accepted, InFlight, CallerPCs
  <2>6. \A t \in Threads : active'[t] = PendingTurn /\ active[t] # PendingTurn =>
          Marks(r) /\ t = call[r].thread
    BY <1>4 DEF SetPendingMarker
  <2>7. QED
    BY <2>3, <2>4, <2>5, <2>6 DEF Owned
<1>5. CASE ClearPendingMarker(r)
  <2>1. pc' = [pc EXCEPT ![r] = "done"]
    BY <1>5 DEF ClearPendingMarker
  <2>2. \A q \in Requests, t \in Threads : q # r /\ MarkedBy(q, t) => MarkedBy(q, t)'
    BY <1>1, <2>1 DEF MarkedBy, Marks, Accepted
  <2>3. \A u \in Turns, t \in Threads : ToBeSeen(u, t) => ToBeSeen(u, t)'
    BY <1>1 DEF ToBeSeen
  <2>4. \A t \in Threads : active'[t] = PendingTurn => active[t] = PendingTurn
    BY <1>5, TurnsAssumption DEF ClearPendingMarker, ClearedIf
  <2>5. \A t \in Threads : MarkedBy(r, t) => active'[t] # PendingTurn
    BY <1>5, TurnsAssumption DEF ClearPendingMarker, ClearedIf, MarkedBy
  <2>6. QED
    BY <2>2, <2>3, <2>4, <2>5 DEF Owned
<1>6. CASE ReceiveReply(r)
  BY <1>3, <1>6 DEF ReceiveReply, Accepted, InFlight, CallerPCs
<1>7. CASE CheckBeforeLock(r) \/ LockStdin(r)
  BY <1>3, <1>7 DEF CheckBeforeLock, LockStdin, InFlight, CallerPCs
<1>8. CASE \/ InsertPending(r) \/ InsertContext(r) \/ WriteSucceeds(r) \/ WriteFails(r)
           \/ RemovePending(r) \/ RemoveContext(r) \/ TimeOut(r)
  BY <1>3, <1>8 DEF InsertPending, InsertContext, WriteSucceeds, WriteFails, RemovePending,
                    RemoveContext, TimeOut, InFlight, CallerPCs
<1>9. QED
  BY <1>4, <1>5, <1>6, <1>7, <1>8 DEF CallerStep

\* A line that is read does not undo what was said before it.
LEMMA MarkerLines ==
  ASSUME MarkerInv, stdout # <<>>, stdout' = Tail(stdout)
  PROVE  /\ \A u \in Turns, i \in DOMAIN stdout' :
              /\ LineOf(i, u)' => LineOf(i + 1, u)
              /\ Started(i, u)' <=> Started(i + 1, u)
         /\ \A i \in DOMAIN stdout' : i + 1 \in DOMAIN stdout
         /\ \A u \in Turns, i \in DOMAIN stdout : Started(i, u) /\ i # 1 =>
              \E n \in DOMAIN stdout' : n + 1 = i /\ Started(n, u)'
         /\ \A r \in Requests : UNCHANGED rx /\ Accepted(r)' => Accepted(r)
<1>1. stdout \in Seq(Lines)
  BY DEF MarkerInv, LeftInv, EndInv, TypeInv, TypeOK
<1>2. \A i \in DOMAIN stdout' : i + 1 \in DOMAIN stdout /\ stdout'[i] = stdout[i + 1]
  BY <1>1, LinesAfter
<1>3. \A i \in DOMAIN stdout : i # 1 => \E n \in DOMAIN stdout' : n + 1 = i
  <2>1. \A i \in DOMAIN stdout : i # 1 => i - 1 \in DOMAIN stdout' /\ (i - 1) + 1 = i
    BY <1>1
  <2>2. QED
    BY <2>1
<1>4. \A u \in Turns, i \in DOMAIN stdout' :
        (LineOf(i, u)' => LineOf(i + 1, u)) /\ (Started(i, u)' <=> Started(i + 1, u))
  BY <1>2 DEF LineOf, Started
<1>5. \A u \in Turns, i \in DOMAIN stdout : Started(i, u) /\ i # 1 =>
        \E n \in DOMAIN stdout' : n + 1 = i /\ Started(n, u)'
  BY <1>2, <1>3 DEF Started
<1>6. \A r \in Requests : UNCHANGED rx /\ Accepted(r)' => Accepted(r)
  BY <1>2 DEF Accepted
<1>7. QED
  BY <1>2, <1>4, <1>5, <1>6

\* Nor does it take the announcement of a turn that is still to be seen.
LEMMA OrderRead ==
  ASSUME MarkerInv, stdout # <<>>, stdout' = Tail(stdout), UNCHANGED turn,
         \A u \in Turns : shown'[u] = "unseen" => shown[u] = "unseen" /\ ~Started(1, u),
         \A u \in Turns : turn[u].state = "unused" => shown'[u] = "unseen"
  PROVE  TurnsInOrder'
<1>1. stdout \in Seq(Lines) /\ stdout' \in Seq(Lines)
  BY DEF MarkerInv, LeftInv, EndInv, TypeInv, TypeOK
<1>2. \A u \in Turns, i \in DOMAIN stdout' :
        LineOf(i, u)' => turn'[u].state \in {"running", "ended"}
  BY MarkerLines DEF MarkerInv, TurnsInOrder
<1>3. ASSUME NEW u \in Turns, turn'[u].state \in {"running", "ended"}, shown'[u] = "unseen"
      PROVE  \E n \in DOMAIN stdout' : Started(n, u)'
  <2>1. PICK i \in DOMAIN stdout : Started(i, u)
    BY <1>3 DEF MarkerInv, TurnsInOrder
  <2>2. i # 1
    BY <1>3, <2>1
  <2>3. QED
    BY <2>1, <2>2, MarkerLines
<1>4. ASSUME NEW u \in Turns, NEW j \in DOMAIN stdout', LineOf(j, u)', shown'[u] = "unseen"
      PROVE  \E n \in DOMAIN stdout' : n <= j /\ Started(n, u)'
  <2>1. LineOf(j + 1, u) /\ j + 1 \in DOMAIN stdout
    BY <1>4, MarkerLines
  <2>2. PICK i \in DOMAIN stdout : i <= j + 1 /\ Started(i, u)
    BY <1>4, <2>1 DEF MarkerInv, TurnsInOrder
  <2>3. i # 1
    BY <1>4, <2>2
  <2>4. PICK n \in DOMAIN stdout' : n + 1 = i /\ Started(n, u)'
    BY <2>2, <2>3, MarkerLines
  <2>5. n <= j
    BY <1>1, <2>2, <2>4
  <2>6. QED
    BY <2>4, <2>5
<1>5. QED
  BY <1>2, <1>3, <1>4 DEF TurnsInOrder

\* A step of the reader takes a marker's owner only with the marker.
LEMMA MarkerReader ==
  ASSUME MarkerInv, ReaderStep \/ EndOfOutput \/ ShutdownMarksClosed
  PROVE  TurnsInOrder' /\ Owned'
<1> USE DEF MarkerInv, LeftInv, EndInv, TypeInv, TypeOK, callerVars, mapVars, readerVars,
            procVars
<1>1. ASSUME UNCHANGED <<call, pc, stdout, turn, shown>>,
             \A t \in Threads : active'[t] = PendingTurn => active[t] = PendingTurn,
             \A r \in Requests : rx'[r] = "result" => rx[r] = "result"
      PROVE  TurnsInOrder' /\ Owned'
  <2>1. TurnsInOrder'
    BY <1>1 DEF TurnsInOrder, LineOf, Started
  <2>2. \A r \in Requests, t \in Threads : MarkedBy(r, t) => MarkedBy(r, t)'
    BY <1>1 DEF MarkedBy, Marks, Accepted
  <2>3. \A u \in Turns, t \in Threads : ToBeSeen(u, t) => ToBeSeen(u, t)'
    BY <1>1 DEF ToBeSeen
  <2>4. QED
    BY <1>1, <2>1, <2>2, <2>3 DEF Owned
<1>2. CASE ReadResponse \/ MarkOutputClosed \/ DrainPending \/ DrainContext
           \/ EndOfOutput \/ ShutdownMarksClosed
  BY <1>1, <1>2 DEF ReadResponse, MarkOutputClosed, DrainPending, DrainContext,
                    EndOfOutput, ShutdownMarksClosed
<1>3. CASE DrainActive
  BY <1>1, <1>3, TurnsAssumption DEF DrainActive
<1>4. CASE ReplyStopped
  BY <1>1, <1>4 DEF ReplyStopped
<1>5. CASE EmitTurnErrors
  BY <1>1, <1>5 DEF EmitTurnErrors
<1>6. CASE DeliverResponse
  <2>1. /\ stdout # <<>> /\ stdout' = Tail(stdout) /\ Head(stdout).kind = "response"
        /\ UNCHANGED <<call, pc, turn, shown, active>>
    BY <1>6 DEF DeliverResponse, DeliverOK
  <2>2. TurnsInOrder'
    <3>1. \A u \in Turns : ~Started(1, u)
      BY <2>1, LinesAfter DEF Started
    <3>2. QED
      BY <2>1, <3>1, OrderRead DEF TurnsInOrder
  <2>3. \A r \in Requests : Accepted(r)' => Accepted(r)
    BY <1>6, <2>1, LinesAfter, HeadLine DEF Accepted, DeliverResponse
  <2>4. \A r \in Requests, t \in Threads : MarkedBy(r, t) => MarkedBy(r, t)'
    BY <2>1, <2>3 DEF MarkedBy, Marks
  <2>5. \A u \in Turns, t \in Threads : ToBeSeen(u, t) => ToBeSeen(u, t)'
    BY <2>1 DEF ToBeSeen
  <2>6. QED
    BY <2>1, <2>2, <2>4, <2>5 DEF Owned
<1>7. CASE ReadTurnStarted \/ ReadTurnCompleted \/ ReadTurnError
  <2> DEFINE v == Head(stdout).turn
  <2>1. /\ stdout # <<>> /\ stdout' = Tail(stdout) /\ LineOf(1, v) /\ v \in Turns
        /\ UNCHANGED <<call, pc, rx, turn>>
    BY <1>7, HeadLine, LinesAfter
       DEF ReadTurnStarted, ReadTurnCompleted, ReadTurnError, Reading, LineOf
  <2>2. \A u \in Turns : /\ u # v => shown'[u] = shown[u]
                         /\ shown'[u] = "unseen" => shown[u] = "unseen"
    BY <1>7, <2>1 DEF ReadTurnStarted, ReadTurnCompleted, ReadTurnError
  <2>3. Started(1, v) => shown'[v] # "unseen" /\ active' = [active EXCEPT ![turn[v].thread] = v]
    <3>1. Started(1, v) => ReadTurnStarted
      BY <1>7, <2>1, LinesAfter
         DEF ReadTurnStarted, ReadTurnCompleted, ReadTurnError, Reading, Started
    <3>2. QED
      BY <2>1, <3>1 DEF ReadTurnStarted
  <2>4. ~Started(1, v) => shown[v] # "unseen"
    BY <2>1, LinesAfter DEF TurnsInOrder, Started
  <2>5. TurnsInOrder'
    <3>1. \A u \in Turns : shown'[u] = "unseen" => ~Started(1, u)
      BY <2>1, <2>3 DEF Started, LineOf
    <3>2. \A u \in Turns : turn[u].state = "unused" => shown'[u] = "unseen"
      BY <2>1, <2>2, LinesAfter DEF TurnsInOrder
    <3>3. QED
      BY <2>1, <2>2, <3>1, <3>2, OrderRead
  <2>6. \A t \in Threads : active'[t] = PendingTurn => active[t] = PendingTurn
    BY <1>7, <2>1, TurnsAssumption
       DEF ReadTurnStarted, ReadTurnCompleted, ReadTurnError, ClearedIf
  <2>7. \A r \in Requests, t \in Threads : MarkedBy(r, t) => MarkedBy(r, t)'
    BY <2>1, MarkerLines DEF MarkedBy, Marks
  <2>8. \A u \in Turns, t \in Threads :
          ToBeSeen(u, t) /\ active'[t] = PendingTurn => ToBeSeen(u, t)'
    BY <2>1, <2>2, <2>3, <2>4, TurnsAssumption DEF ToBeSeen
  <2>9. QED
    BY <2>5, <2>6, <2>7, <2>8 DEF Owned
<1>8. QED
  BY <1>2, <1>3, <1>4, <1>5, <1>6, <1>7 DEF ReaderStep

\* A line the process puts at the end keeps the order of the others.
LEMMA OrderPut ==
  ASSUME MarkerInv, NEW l \in Lines, PutLine(l), UNCHANGED shown,
         \A u \in Turns : turn'[u].state = "unused" => turn[u].state = "unused",
         \A u \in Turns : turn[u].state \in {"running", "ended"} =>
           turn'[u].state \in {"running", "ended"},
         l.kind # "response" => turn'[l.turn].state \in {"running", "ended"},
         \A u \in Turns : turn'[u].state \in {"running", "ended"} =>
           \/ turn[u].state \in {"running", "ended"}
           \/ l.kind = "started" /\ l.turn = u
  PROVE  TurnsInOrder'
<1>1. stdout \in Seq(Lines) /\ stdout' \in Seq(Lines)
  BY AppendLine DEF MarkerInv, LeftInv, EndInv, TypeInv, TypeOK
<1>0. PICK last \in Nat : last = Len(stdout) + 1
  BY <1>1
<1>2. /\ \A i \in DOMAIN stdout : i \in DOMAIN stdout' /\ stdout'[i] = stdout[i] /\ i <= last
      /\ last \in DOMAIN stdout' /\ stdout'[last] = l
      /\ \A i \in DOMAIN stdout' : i = last \/ i \in DOMAIN stdout
  BY <1>0, <1>1, LinesAfter
<1>3. /\ \A u \in Turns, i \in DOMAIN stdout : (LineOf(i, u)' <=> LineOf(i, u))
      /\ \A u \in Turns, i \in DOMAIN stdout : (Started(i, u)' <=> Started(i, u))
  BY <1>2 DEF LineOf, Started
<1>4. /\ \A u \in Turns : l.kind # "response" /\ l.turn = u <=> LineOf(last, u)'
      /\ \A u \in Turns : l.kind = "started" /\ l.turn = u <=> Started(last, u)'
  BY <1>2 DEF LineOf, Started
<1>5. \A u \in Turns : turn'[u].state = "unused" => shown'[u] = "unseen"
  BY DEF MarkerInv, TurnsInOrder
<1>6. \A u \in Turns, i \in DOMAIN stdout' :
        LineOf(i, u)' => turn'[u].state \in {"running", "ended"}
  BY <1>2, <1>3, <1>4 DEF MarkerInv, TurnsInOrder
<1>7. ASSUME NEW u \in Turns, turn'[u].state \in {"running", "ended"}, shown'[u] = "unseen"
      PROVE  \E i \in DOMAIN stdout' : Started(i, u)'
  BY <1>2, <1>3, <1>4, <1>7 DEF MarkerInv, TurnsInOrder
<1>8. ASSUME NEW u \in Turns, NEW j \in DOMAIN stdout', LineOf(j, u)', shown'[u] = "unseen"
      PROVE  \E i \in DOMAIN stdout' : i <= j /\ Started(i, u)'
  <2>1. CASE j \in DOMAIN stdout
    BY <1>2, <1>3, <1>8, <2>1 DEF MarkerInv, TurnsInOrder
  <2>2. CASE j = last
    <3>1. PICK i \in DOMAIN stdout' : Started(i, u)'
      BY <1>6, <1>7, <1>8
    <3>2. i <= last
      BY <1>0, <1>1, <1>2
    <3>3. QED
      BY <2>2, <3>1, <3>2
  <2>3. QED
    BY <1>2, <2>1, <2>2
<1>9. QED
  BY <1>5, <1>6, <1>7, <1>8 DEF TurnsInOrder

\* The process accepts a turn/start only with a turn that will be announced.
LEMMA MarkerProcess ==
  ASSUME MarkerInv, ProcessStep
  PROVE  TurnsInOrder' /\ Owned'
<1> USE DEF MarkerInv, LeftInv, EndInv, TypeInv, TypeOK, ProcessFrame, callerVars,
            mapVars, readerVars
<1>1. ASSUME UNCHANGED <<call, pc, rx, active, shown>>,
             \A u \in Turns, t \in Threads : ToBeSeen(u, t) => ToBeSeen(u, t)',
             \A r \in Requests : Marks(r) /\ Accepted(r)' /\ ~Accepted(r) =>
               \E u \in Turns : ToBeSeen(u, call[r].thread)'
      PROVE  Owned'
  <2>1. ASSUME NEW r \in Requests, NEW t \in Threads, MarkedBy(r, t)
        PROVE  MarkedBy(r, t)' \/ \E u \in Turns : ToBeSeen(u, t)'
    <3>1. CASE Accepted(r)'
      <4>1. \E u \in Turns : ToBeSeen(u, call[r].thread)'
        BY <1>1, <2>1, <3>1 DEF MarkedBy
      <4>2. QED
        BY <1>1, <2>1, <4>1 DEF MarkedBy
    <3>2. CASE ~Accepted(r)'
      BY <1>1, <2>1, <3>2 DEF MarkedBy, Marks
    <3>3. QED
      BY <3>1, <3>2
  <2>2. QED
    BY <1>1, <2>1 DEF Owned
<1>2. ASSUME NEW l \in Lines, PutLine(l), UNCHANGED rx
      PROVE  \A r \in Requests : Accepted(r)' =>
               Accepted(r) \/ (l.kind = "response" /\ l.id = r /\ l.reply = "result")
  BY <1>2, LinesAfter DEF Accepted
<1>3. ASSUME NEW r \in Requests, NEW reply \in {"result", "error"}, Answer(r, reply)
      PROVE  TurnsInOrder' /\ Owned'
  <2>1. /\ Response(r, reply) \in Lines /\ Response(r, reply).kind = "response"
        /\ Response(r, reply).id = r /\ Response(r, reply).reply = reply
    BY DEF Response, Lines
  <2>2. PutLine(Response(r, reply)) /\ UNCHANGED <<call, pc, rx, active, shown, turn>>
    BY <1>3 DEF Answer
  <2>3. TurnsInOrder'
    BY <2>1, <2>2, OrderPut
  <2>4. \A q \in Requests : Marks(q) => (Accepted(q)' => Accepted(q))
    BY <1>2, <1>3, <2>1, <2>2 DEF Answer, StartsTurn, Marks
  <2>5. \A u \in Turns, t \in Threads : ToBeSeen(u, t) => ToBeSeen(u, t)'
    BY <2>2 DEF ToBeSeen
  <2>6. QED
    BY <1>1, <2>2, <2>3, <2>4, <2>5
<1>4. ASSUME NEW r \in Requests, NEW u \in Turns, AcceptTurn(r, u)
      PROVE  TurnsInOrder' /\ Owned'
  <2>1. /\ Response(r, "result") \in Lines /\ Response(r, "result").kind = "response"
        /\ Response(r, "result").id = r
    BY DEF Response, Lines
  <2>2. /\ PutLine(Response(r, "result")) /\ UNCHANGED <<call, pc, rx, active, shown>>
        /\ turn[u].state = "unused"
        /\ turn' = [turn EXCEPT ![u] = [state |-> "accepted", thread |-> call[r].thread]]
    BY <1>4 DEF AcceptTurn
  <2>3. TurnsInOrder'
    BY <2>1, <2>2, OrderPut
  <2>4. \A q \in Requests : Accepted(q)' => Accepted(q) \/ q = r
    BY <1>2, <2>1, <2>2
  <2>5. \A v \in Turns, t \in Threads : ToBeSeen(v, t) => ToBeSeen(v, t)'
    BY <2>2 DEF ToBeSeen
  <2>6. \A t \in Threads : t = call[r].thread => ToBeSeen(u, t)'
    BY <2>2 DEF ToBeSeen, TurnsInOrder
  <2>7. call[r].thread \in Threads
    OBVIOUS
  <2>8. \E v \in Turns : ToBeSeen(v, call[r].thread)'
    BY <2>2, <2>6, <2>7
  <2>9. QED
    BY <1>1, <2>2, <2>3, <2>4, <2>5, <2>8
<1>5. ASSUME NEW u \in Turns, NEW kind \in {"started", "completed", "failed", "retrying"},
             PutLine(TurnLine(kind, u)), UNCHANGED <<call, pc, rx, active, shown>>,
             \E s \in {"running", "ended"} : turn' = [turn EXCEPT ![u].state = s],
             turn[u].state \in {"running", "ended"} \/ kind = "started",
             turn[u].state # "unused"
      PROVE  TurnsInOrder' /\ Owned'
  <2>1. TurnLine(kind, u) \in Lines /\ TurnLine(kind, u).kind = kind /\ TurnLine(kind, u).turn = u
    BY DEF TurnLine, Lines
  <2>2. TurnsInOrder'
    BY <1>5, <2>1, OrderPut
  <2>3. \A q \in Requests : Accepted(q)' => Accepted(q)
    BY <1>2, <1>5, <2>1
  <2>4. \A v \in Turns, t \in Threads : ToBeSeen(v, t) => ToBeSeen(v, t)'
    BY <1>5 DEF ToBeSeen
  <2>5. QED
    BY <1>1, <1>5, <2>2, <2>3, <2>4
<1>6. ASSUME NEW u \in Turns, NEW kind \in {"completed", "failed"},
             AnnounceTurn(u) \/ RetryTurn(u) \/ EndTurn(u, kind)
      PROVE  TurnsInOrder' /\ Owned'
  <2>1. CASE AnnounceTurn(u)
    BY <1>5, <2>1 DEF AnnounceTurn
  <2>2. CASE RetryTurn(u)
    <3>1. turn' = [turn EXCEPT ![u].state = "running"]
      BY <2>2 DEF RetryTurn
    <3>2. QED
      BY <1>5, <2>2, <3>1 DEF RetryTurn
  <2>3. CASE EndTurn(u, kind)
    BY <1>5, <2>3 DEF EndTurn
  <2>4. QED
    BY <1>6, <2>1, <2>2, <2>3
<1>7. CASE Exit
  BY <1>7 DEF Exit, TurnsInOrder, LineOf, Started, Owned, MarkedBy, ToBeSeen, Marks, Accepted
<1>8. QED
  BY <1>3, <1>4, <1>6, <1>7 DEF ProcessStep

\* A new call owns no marker, and takes none.
LEMMA MarkerNext == MarkerInv /\ [Next]_vars => MarkerInv'
<1> SUFFICES ASSUME MarkerInv, [Next]_vars PROVE MarkerInv'
  OBVIOUS
<1>1. LeftInv'
  BY LeftNext DEF MarkerInv
<1>2. TurnsInOrder' /\ Owned'
  <2>1. ASSUME NEW r \in Requests, NEW m \in Methods, NEW t \in Threads, Call(r, m, t)
        PROVE  TurnsInOrder' /\ Owned'
    <3>1. /\ UNCHANGED <<rx, active, shown, stdout, turn>> /\ pc[r] = "idle"
          /\ call' = [call EXCEPT ![r] = [method |-> m, thread |-> t]]
          /\ \A q \in Requests : q # r => pc'[q] = pc[q]
      BY <2>1 DEF Call, Goto, MarkerInv, LeftInv, EndInv, TypeInv, TypeOK, mapVars,
                  readerVars, procVars
    <3>2. \A q \in Requests, x \in Threads : MarkedBy(q, x) => MarkedBy(q, x)'
      BY <3>1 DEF MarkedBy, Marks, Accepted, InFlight, MarkerInv, LeftInv, EndInv,
                  TypeInv, TypeOK
    <3>3. \A u \in Turns, x \in Threads : ToBeSeen(u, x) => ToBeSeen(u, x)'
      BY <3>1 DEF ToBeSeen
    <3>4. TurnsInOrder'
      BY <3>1 DEF MarkerInv, TurnsInOrder, LineOf, Started
    <3>5. QED
      BY <3>1, <3>2, <3>3, <3>4 DEF MarkerInv, Owned
  <2>2. CASE UNCHANGED vars
    BY <2>2 DEF MarkerInv, TurnsInOrder, Owned, LineOf, Started, MarkedBy, ToBeSeen, Marks,
                Accepted, vars, callerVars, mapVars, readerVars, procVars
  <2>3. QED
    BY <2>1, <2>2, MarkerCaller, MarkerReader, MarkerProcess DEF Next
<1>3. QED
  BY <1>1, <1>2 DEF MarkerInv

\* Initially there is no marker.
LEMMA MarkerInit == Init => MarkerInv
BY LeftInit, TurnsAssumption
   DEF Init, MarkerInv, TurnsInOrder, Owned, LineOf, Started, LeftInv, EndInv, TypeInv, TypeOK

\* A marker in active_turns is always somebody's: of a turn/start that is being
\* sent, or of a turn that was accepted and will be announced.
THEOREM MarkersOwned == Spec => []MarkerHasOwner
<1>1. MarkerInv => MarkerHasOwner
  BY DEF MarkerInv, Owned, MarkedBy, ToBeSeen, MarkerHasOwner
<1>2. QED
  BY <1>1, MarkerInit, MarkerNext, PTL DEF Spec

-----------------------------------------------------------------------------
(* Turns, under the discipline that LiveTurnTracked and DeadTurnReported   *)
(* need and session_fair checks: one turn of a thread at a time, no        *)
(* review, no `error` line that announces a retry and no timeout.          *)
(* session_retry_error shows the retry line is one too many; a review,     *)
(* which leaves no marker, and a timeout, which takes it away, let a       *)
(* second turn/start in beside a turn that is under way.                   *)

Disciplined == Serial /\ ~RetryErrors /\ ~Timeouts /\ "review/start" \notin Methods

\* active_turns has not been drained.
Undrained == reader \notin {"reply", "emit", "done"}

AnswerOf(i, r) == stdout[i].kind = "response" /\ stdout[i].id = r

\* A turn that has begun for the process and is not over for the frontend.
Open(u, t) == turn[u].thread = t /\ turn[u].state # "unused" /\ shown[u] # "over"

\* Who starts a turn: one turn/start of a thread at a time, and no review.
OneStart ==
  /\ \A r \in Requests : call[r].method # "review/start"
  /\ \A r, q \in Requests :
       Marks(r) /\ Marks(q) /\ call[r].thread = call[q].thread
         /\ pc[r] \in InFlight /\ pc[q] \in InFlight => r = q

\* A call that was written waits, and is answered once.
Placed ==
  Undrained =>
    /\ \A r \in inbox : /\ pc[r] = "waiting" /\ rx[r] = "empty"
                        /\ \A i \in DOMAIN stdout : ~AnswerOf(i, r)
    /\ \A r \in Requests, i \in DOMAIN stdout : AnswerOf(i, r) =>
         /\ pc[r] = "waiting" /\ rx[r] = "empty"
         /\ \A j \in DOMAIN stdout : AnswerOf(j, r) => j = i
    /\ \A r \in Requests : rx[r] = "result" => pc[r] \in {"waiting", "done"}

\* A turn is announced once, and no line says that one will be tried again.
AnnouncedOnce ==
  /\ \A u \in Turns : turn[u].state = "accepted" => shown[u] = "unseen"
  /\ \A u \in Turns, i \in DOMAIN stdout : Started(i, u) =>
       /\ shown[u] = "unseen"
       /\ \A j \in DOMAIN stdout : Started(j, u) => j = i
  /\ \A i \in DOMAIN stdout : stdout[i].kind # "retrying"

\* What active_turns holds of a thread: the marker while a turn/start is under
\* way or its turn is to be seen, then the turn; and never two of these at once.
Tracked ==
  Undrained =>
    /\ \A r \in Requests, t \in Threads : MarkedBy(r, t) =>
         /\ pc[r] # "admitted" => active[t] = PendingTurn
         /\ \A u \in Turns : ~Open(u, t)
    /\ \A u, v \in Turns, t \in Threads : Open(u, t) /\ Open(v, t) => u = v
    /\ \A u \in Turns, t \in Threads : Open(u, t) =>
         active[t] = IF shown[u] = "started" THEN u ELSE PendingTurn

\* The answer to a turn/start is read before any line of its turn.
AnswerFirst ==
  Undrained =>
    \A r \in Requests, i \in DOMAIN stdout : AnswerOf(i, r) /\ stdout[i].reply = "result" /\ Marks(r) =>
      \E u \in Turns : /\ ToBeSeen(u, call[r].thread)
                       /\ \A j \in DOMAIN stdout : LineOf(j, u) => i < j

\* What was drained names every turn that the frontend was told of.
HeldRight ==
  /\ reader \in {"drainActive", "reply", "emit"} =>
       \A r \in held.context :
         /\ pc[r] # "idle"
         /\ Marks(r) => \A u \in Turns :
              shown[u] = "started" => turn[u].thread # call[r].thread
  /\ reader \in {"reply", "emit"} =>
       \A u \in Turns : shown[u] = "started" => held.active[turn[u].thread] = u

TurnInv ==
  /\ MarkerInv
  /\ OneStart /\ Placed /\ AnnouncedOnce /\ Tracked /\ AnswerFirst
  /\ HeldRight /\ DeadTurnReported

\* What TurnInv says of the types.
LEMMA TurnTypes == TurnInv => TypeOK /\ DeliverOK
BY DEF TurnInv, MarkerInv, LeftInv, EndInv, TypeInv

\* A line at the end leaves the places of the others.
LEMMA PutAfter ==
  ASSUME stdout \in Seq(Lines), NEW l \in Lines, PutLine(l)
  PROVE  \E last \in Nat :
           /\ \A i \in DOMAIN stdout :
                i \in Nat /\ i \in DOMAIN stdout' /\ stdout'[i] = stdout[i] /\ i < last
           /\ last \in DOMAIN stdout' /\ stdout'[last] = l
           /\ \A i \in DOMAIN stdout' : i = last \/ i \in DOMAIN stdout
<1>1. PICK last \in Nat : last = Len(stdout) + 1
  OBVIOUS
<1>2. DOMAIN stdout' = 1..last /\ last # 0
  BY <1>1, LinesAfter
<1>3. DOMAIN stdout = 1..(last - 1)
  BY <1>1
<1>4. \A i \in DOMAIN stdout' : stdout'[i] = IF i = last THEN l ELSE stdout[i]
  BY <1>1, LinesAfter
<1>5. \A i \in DOMAIN stdout : i \in Nat /\ i < last /\ i \in DOMAIN stdout'
  BY <1>2, <1>3
<1>6. \A i \in DOMAIN stdout' : i = last \/ i \in DOMAIN stdout
  BY <1>2, <1>3
<1>7. last \in DOMAIN stdout'
  BY <1>2
<1>8. \A i \in DOMAIN stdout : stdout'[i] = stdout[i]
  BY <1>4, <1>5
<1>9. stdout'[last] = l
  BY <1>4, <1>7
<1>10. QED
  BY <1>5, <1>6, <1>7, <1>8, <1>9

\* The first line is taken: the others move up by one place.
LEMMA TailAfter ==
  ASSUME stdout \in Seq(Lines), stdout # <<>>, stdout' = Tail(stdout)
  PROVE  /\ 1 \in DOMAIN stdout /\ stdout[1] = Head(stdout)
         /\ \A i \in DOMAIN stdout' :
              i \in Nat \ {0} /\ i + 1 \in DOMAIN stdout /\ stdout'[i] = stdout[i + 1]
         /\ \A i \in DOMAIN stdout : i # 1 => \E n \in DOMAIN stdout' : i = n + 1
<1>1. \A i \in DOMAIN stdout : i # 1 => i - 1 \in DOMAIN stdout' /\ i = (i - 1) + 1
  OBVIOUS
<1>2. QED
  BY <1>1, LinesAfter

-----------------------------------------------------------------------------
(* The steps of a caller. *)

\* A step of a caller touches none of what the reader and the process keep.
LEMMA CallerFrame ==
  ASSUME TypeOK, NEW r \in Requests, CallerStep(r) \/ TimeOut(r)
  PROVE  /\ UNCHANGED <<call, rx, stdout, turn, shown, reader, held, emitted>>
         /\ \A q \in Requests : q # r => pc'[q] = pc[q]
         /\ pc[r] \in InFlight /\ pc'[r] \in CallerPCs
<1> USE DEF TypeOK, Goto, Return, readerVars, procVars, InFlight, CallerPCs
<1>1. CASE SetPendingMarker(r) \/ InsertPending(r) \/ InsertContext(r)
  BY <1>1 DEF SetPendingMarker, InsertPending, InsertContext
<1>2. CASE CheckBeforeLock(r)
  BY <1>2 DEF CheckBeforeLock
<1>3. CASE LockStdin(r)
  BY <1>3 DEF LockStdin
<1>4. CASE WriteSucceeds(r) \/ WriteFails(r)
  BY <1>4 DEF WriteSucceeds, WriteFails
<1>5. CASE ReceiveReply(r) \/ TimeOut(r)
  BY <1>5 DEF ReceiveReply, TimeOut
<1>6. CASE RemovePending(r) \/ RemoveContext(r) \/ ClearPendingMarker(r)
  BY <1>6 DEF RemovePending, RemoveContext, ClearPendingMarker
<1>7. QED
  BY <1>1, <1>2, <1>3, <1>4, <1>5, <1>6 DEF CallerStep

\* A call that was answered, or accepted, leaves its wait by that answer only.
LEMMA PlacedCaller ==
  ASSUME TurnInv, Disciplined, NEW r \in Requests, CallerStep(r) \/ TimeOut(r)
  PROVE  Placed'
<1> SUFFICES ASSUME Undrained' PROVE Placed'
  BY DEF Placed
<1>1. TypeOK
  BY TurnTypes
<1>2. /\ UNCHANGED <<call, rx, stdout, turn, shown, reader, held, emitted>>
      /\ \A q \in Requests : q # r => pc'[q] = pc[q]
  BY <1>1, CallerFrame
<1>3. Undrained
  BY <1>2 DEF Undrained
<1>4. \A i \in DOMAIN stdout, q \in Requests : AnswerOf(i, q)' <=> AnswerOf(i, q)
  BY <1>2 DEF AnswerOf
<1>5. /\ inbox' \subseteq inbox \cup {r}
      /\ r \in inbox' /\ r \notin inbox => pc[r] = "writing" /\ pc'[r] = "waiting"
      /\ pc[r] = "waiting" => rx[r] # "empty"
      /\ rx[r] = "result" /\ pc[r] = "waiting" => pc'[r] = "done"
      /\ pc[r] # "done"
  BY <1>1
     DEF TypeOK, Disciplined, CallerStep, TimeOut, SetPendingMarker, InsertPending, InsertContext,
         CheckBeforeLock, LockStdin, WriteSucceeds, WriteFails, ReceiveReply,
         RemovePending, RemoveContext, ClearPendingMarker, Goto, procVars
<1>6. /\ pc[r] = "writing" => rx[r] = "empty" /\ \A i \in DOMAIN stdout : ~AnswerOf(i, r)
  BY <1>1, <1>3 DEF TurnInv, MarkerInv, LeftInv, WrittenFirst, Unwritten, AnswerOf, Undrained,
                    TypeOK, Replies
<1>7. r \notin inbox /\ \A i \in DOMAIN stdout : ~AnswerOf(i, r)
  BY <1>1, <1>3, <1>5 DEF TurnInv, Placed, TypeOK, Undrained
<1>8. \A q \in inbox' : /\ pc'[q] = "waiting" /\ rx'[q] = "empty"
                        /\ \A i \in DOMAIN stdout' : ~AnswerOf(i, q)'
  <2>1. ASSUME NEW q \in inbox', q # r
        PROVE  /\ pc'[q] = "waiting" /\ rx'[q] = "empty"
               /\ \A i \in DOMAIN stdout' : ~AnswerOf(i, q)'
    BY <1>1, <1>2, <1>3, <1>4, <1>5, <2>1 DEF TurnInv, Placed, TypeOK
  <2>2. ASSUME r \in inbox'
        PROVE  /\ pc'[r] = "waiting" /\ rx'[r] = "empty"
               /\ \A i \in DOMAIN stdout' : ~AnswerOf(i, r)'
    BY <1>2, <1>4, <1>5, <1>6, <1>7, <2>2
  <2>3. QED
    BY <2>1, <2>2
<1>9. \A q \in Requests, i \in DOMAIN stdout' : AnswerOf(i, q)' =>
         /\ pc'[q] = "waiting" /\ rx'[q] = "empty"
         /\ \A j \in DOMAIN stdout' : AnswerOf(j, q)' => j = i
  BY <1>2, <1>3, <1>4, <1>7 DEF TurnInv, Placed
<1>10. \A q \in Requests : rx'[q] = "result" => pc'[q] \in {"waiting", "done"}
  BY <1>2, <1>3, <1>5 DEF TurnInv, Placed
<1>11. QED
  BY <1>8, <1>9, <1>10 DEF Placed

\* A caller sets and clears the marker of its own turn/start only.
LEMMA TrackedCaller ==
  ASSUME TurnInv, Disciplined, NEW r \in Requests, CallerStep(r) \/ TimeOut(r)
  PROVE  Tracked'
<1> SUFFICES ASSUME Undrained' PROVE Tracked'
  BY DEF Tracked
<1>1. TypeOK
  BY TurnTypes
<1>2. /\ UNCHANGED <<call, rx, stdout, turn, shown, reader, held, emitted>>
      /\ \A q \in Requests : q # r => pc'[q] = pc[q]
      /\ pc[r] \in InFlight
  BY <1>1, CallerFrame
<1>3. Undrained
  BY <1>2 DEF Undrained
<1>4. \A u \in Turns, t \in Threads : Open(u, t)' <=> Open(u, t)
  BY <1>2 DEF Open
<1>5. \A q \in Requests : Accepted(q)' <=> Accepted(q)
  BY <1>2 DEF Accepted
<1>6. \A q \in Requests, t \in Threads : MarkedBy(q, t)' =>
        /\ MarkedBy(q, t)
        /\ q = r => pc'[r] \in InFlight
  BY <1>2, <1>5 DEF MarkedBy, Marks
<1>7. ASSUME UNCHANGED active, pc[r] # "admitted"
      PROVE  Tracked'
  BY <1>2, <1>3, <1>4, <1>6, <1>7 DEF TurnInv, Tracked
<1>8. CASE SetPendingMarker(r)
  <2>1. pc[r] = "admitted" /\ ~Accepted(r)
    BY <1>8 DEF SetPendingMarker, Accepted, TurnInv, MarkerInv, LeftInv, WrittenFirst, Unwritten
  <2>2. CASE Marks(r)
    <3>1. MarkedBy(r, call[r].thread) /\ call[r].thread \in Threads
      BY <1>1, <1>2, <2>1, <2>2 DEF MarkedBy, TypeOK
    <3>2. \A u \in Turns : ~Open(u, call[r].thread)
      BY <1>3, <3>1 DEF TurnInv, Tracked
    <3>3. active' = [active EXCEPT ![call[r].thread] = PendingTurn]
      BY <1>8, <2>2 DEF SetPendingMarker
    <3>4. ASSUME NEW q \in Requests, NEW t \in Threads, MarkedBy(q, t)'
          PROVE  active'[t] = PendingTurn \/ (pc'[q] = "admitted")
      <4>1. CASE q = r
        BY <1>1, <1>6, <3>3, <3>4, <4>1 DEF MarkedBy, TypeOK
      <4>2. CASE q # r
        BY <1>1, <1>2, <1>3, <1>6, <3>3, <3>4, <4>2 DEF TurnInv, Tracked, TypeOK
      <4>3. QED
        BY <4>1, <4>2
    <3>5. \A t \in Threads : t # call[r].thread => active'[t] = active[t]
      BY <1>1, <3>3 DEF TypeOK
    <3>6. QED
      BY <1>2, <1>3, <1>4, <1>6, <3>2, <3>4, <3>5 DEF TurnInv, Tracked
  <2>3. CASE ~Marks(r)
    <3>1. UNCHANGED active
      BY <1>8, <2>3 DEF SetPendingMarker
    <3>2. \A q \in Requests, t \in Threads : MarkedBy(q, t) => q # r
      BY <2>3 DEF MarkedBy
    <3>3. QED
      BY <1>2, <1>3, <1>4, <1>6, <3>1, <3>2 DEF TurnInv, Tracked
  <2>4. QED
    BY <2>2, <2>3
<1>9. CASE ClearPendingMarker(r)
  <2>1. pc[r] = "unmark" /\ pc' = [pc EXCEPT ![r] = "done"]
    BY <1>9 DEF ClearPendingMarker, Goto
  <2>2. ~Accepted(r)
    BY <1>3, <2>1 DEF Accepted, TurnInv, Placed, AnswerOf
  <2>3. CASE Marks(r)
    <3>1. MarkedBy(r, call[r].thread) /\ call[r].thread \in Threads
      BY <1>1, <1>2, <2>2, <2>3 DEF MarkedBy, TypeOK
    <3>2. \A u \in Turns : ~Open(u, call[r].thread)
      BY <1>3, <3>1 DEF TurnInv, Tracked
    <3>3. \A t \in Threads : t # call[r].thread => active'[t] = active[t]
      BY <1>1, <1>9 DEF ClearPendingMarker, ClearedIf, TypeOK
    <3>4. \A q \in Requests, t \in Threads : MarkedBy(q, t)' => q # r
      BY <1>1, <1>6, <2>1 DEF InFlight, TypeOK
    <3>5. \A q \in Requests, t \in Threads : MarkedBy(q, t)' => t # call[r].thread
      BY <1>2, <1>6, <2>3, <3>4 DEF TurnInv, OneStart, MarkedBy
    <3>6. QED
      BY <1>2, <1>3, <1>4, <1>6, <3>2, <3>3, <3>4, <3>5 DEF TurnInv, Tracked
  <2>4. CASE ~Marks(r)
    BY <1>7, <1>9, <2>1, <2>4 DEF ClearPendingMarker
  <2>5. QED
    BY <2>3, <2>4
<1>10. CASE ~SetPendingMarker(r) /\ ~ClearPendingMarker(r)
  <2>1. UNCHANGED active /\ pc[r] # "admitted"
    BY <1>10 DEF CallerStep, TimeOut, InsertPending, InsertContext,
         CheckBeforeLock, LockStdin, WriteSucceeds, WriteFails, ReceiveReply,
         RemovePending, RemoveContext, mapVars
  <2>2. QED
    BY <1>7, <2>1
<1>11. QED
  BY <1>8, <1>9, <1>10

\* The rest of the invariant under a step of a caller.
LEMMA TurnCaller ==
  ASSUME TurnInv, Disciplined, NEW r \in Requests, CallerStep(r) \/ TimeOut(r)
  PROVE  OneStart' /\ AnnouncedOnce' /\ AnswerFirst' /\ HeldRight' /\ DeadTurnReported'
<1>1. TypeOK
  BY TurnTypes
<1>2. /\ UNCHANGED <<call, rx, stdout, turn, shown, reader, held, emitted>>
      /\ \A q \in Requests : q # r => pc'[q] = pc[q]
      /\ pc[r] \in InFlight
  BY <1>1, CallerFrame
<1>3. OneStart'
  BY <1>2 DEF TurnInv, OneStart, Marks
<1>4. AnnouncedOnce' /\ DeadTurnReported'
  BY <1>2 DEF TurnInv, AnnouncedOnce, DeadTurnReported, Started
<1>5. AnswerFirst'
  BY <1>2 DEF TurnInv, AnswerFirst, AnswerOf, Marks, ToBeSeen, LineOf, Undrained
<1>6. pc'[r] # "idle"
  BY <1>1, <1>2 DEF TypeOK, CallerStep, TimeOut, SetPendingMarker, InsertPending, InsertContext,
         CheckBeforeLock, LockStdin, WriteSucceeds, WriteFails, ReceiveReply,
         RemovePending, RemoveContext, ClearPendingMarker, Goto, InFlight
<1>7. HeldRight'
  BY <1>1, <1>2, <1>6 DEF TurnInv, HeldRight, Marks, TypeOK
<1>8. QED
  BY <1>3, <1>4, <1>5, <1>7

-----------------------------------------------------------------------------
(* The steps of the reader. *)

\* Reading a response, and the first steps of the drain, leave the turns alone.
LEMMA QuietReader ==
  ASSUME TurnInv, UNCHANGED <<call, pc, rx, inbox, stdout, turn, shown, active>>,
         Undrained' => Undrained
  PROVE  OneStart' /\ Placed' /\ AnnouncedOnce' /\ Tracked' /\ AnswerFirst'
<1>1. OneStart'
  BY DEF TurnInv, OneStart, Marks
<1>2. AnnouncedOnce'
  BY DEF TurnInv, AnnouncedOnce, Started
<1>3. Placed'
  BY DEF TurnInv, Placed, AnswerOf
<1>4. Tracked'
  BY DEF TurnInv, Tracked, MarkedBy, Marks, Accepted, Open
<1>5. AnswerFirst'
  BY DEF TurnInv, AnswerFirst, AnswerOf, Marks, ToBeSeen, LineOf
<1>6. QED
  BY <1>1, <1>2, <1>3, <1>4, <1>5

\* A response reaches the channel of its call, and its line is gone.
LEMMA Delivered ==
  ASSUME TurnInv, DeliverResponse
  PROVE  OneStart' /\ Placed' /\ AnnouncedOnce' /\ Tracked' /\ AnswerFirst'
<1>1. TypeOK /\ DeliverOK
  BY TurnTypes
<1>0. PICK id \in Requests : id = Head(stdout).id
  BY <1>1, HeadLine DEF DeliverResponse, DeliverOK, TypeOK
<1>2. /\ reader = "deliver" /\ stdout # <<>> /\ stdout' = Tail(stdout)
      /\ Head(stdout).kind = "response"
      /\ stdout \in Seq(Lines)
      /\ UNCHANGED <<call, pc, inbox, turn, shown, active>>
  BY <1>1, HeadLine DEF DeliverResponse, DeliverOK, TypeOK
<1>3. Undrained
  BY <1>2 DEF Undrained
<1>4. 1 \in DOMAIN stdout /\ AnswerOf(1, id)
  BY <1>0, <1>2, TailAfter DEF AnswerOf
<1>5. /\ pc[id] = "waiting" /\ rx[id] = "empty"
      /\ \A j \in DOMAIN stdout : AnswerOf(j, id) => j = 1
  BY <1>2, <1>3, <1>4 DEF TurnInv, Placed
<1>6. id \in pending
  BY <1>2, <1>5 DEF TurnInv, MarkerInv, LeftInv, EndInv, EntryKept
<1>7. rx' = [rx EXCEPT ![id] = Head(stdout).reply]
  BY <1>0, <1>6 DEF DeliverResponse
<1>8. \A i \in DOMAIN stdout', q \in Requests : AnswerOf(i, q)' <=> AnswerOf(i + 1, q)
  BY <1>2, TailAfter DEF AnswerOf
<1>9. \A i \in DOMAIN stdout' : i \in Nat \ {0} /\ i + 1 \in DOMAIN stdout
  BY <1>2, TailAfter
<1>10. \A i \in DOMAIN stdout' : ~AnswerOf(i, id)'
  BY <1>2, <1>5, <1>8, <1>9
<1>11. OneStart'
  BY <1>2 DEF TurnInv, OneStart, Marks
<1>12. AnnouncedOnce'
  <2>1. \A i \in DOMAIN stdout', u \in Turns : Started(i, u)' <=> Started(i + 1, u)
    BY <1>2, TailAfter DEF Started
  <2>2. \A u \in Turns, i, j \in DOMAIN stdout' : Started(i, u)' /\ Started(j, u)' => i = j
    BY <1>9, <2>1 DEF TurnInv, AnnouncedOnce
  <2>3. \A i \in DOMAIN stdout' : stdout'[i].kind # "retrying"
    BY <1>2, TailAfter DEF TurnInv, AnnouncedOnce
  <2>4. QED
    BY <1>2, <1>9, <2>1, <2>2, <2>3 DEF TurnInv, AnnouncedOnce
<1>13. Placed'
  <2>1. id \notin inbox
    BY <1>3, <1>4 DEF TurnInv, Placed
  <2>2. \A q \in Requests : q # id => rx'[q] = rx[q]
    BY <1>1, <1>7 DEF TypeOK
  <2>3. \A q \in inbox' : /\ pc'[q] = "waiting" /\ rx'[q] = "empty"
                          /\ \A i \in DOMAIN stdout' : ~AnswerOf(i, q)'
    BY <1>1, <1>2, <1>3, <1>8, <1>9, <2>1, <2>2 DEF TurnInv, Placed, TypeOK
  <2>4. ASSUME NEW q \in Requests, NEW i \in DOMAIN stdout', AnswerOf(i, q)'
        PROVE  /\ pc'[q] = "waiting" /\ rx'[q] = "empty"
               /\ \A j \in DOMAIN stdout' : AnswerOf(j, q)' => j = i
    <3>1. q # id
      BY <1>10, <2>4
    <3>2. AnswerOf(i + 1, q) /\ i + 1 \in DOMAIN stdout /\ i \in Nat
      BY <1>8, <1>9, <2>4
    <3>3. \A j \in DOMAIN stdout' : AnswerOf(j, q)' => j + 1 = i + 1 /\ j \in Nat
      BY <1>3, <1>8, <1>9, <3>2 DEF TurnInv, Placed
    <3>4. \A j \in DOMAIN stdout' : AnswerOf(j, q)' => j = i
      BY <3>2, <3>3
    <3>5. pc'[q] = "waiting" /\ rx'[q] = "empty"
      BY <1>2, <1>3, <2>2, <3>1, <3>2 DEF TurnInv, Placed
    <3>6. QED
      BY <3>4, <3>5
  <2>5. \A q \in Requests : rx'[q] = "result" => pc'[q] \in {"waiting", "done"}
    BY <1>2, <1>3, <1>5, <2>2 DEF TurnInv, Placed
  <2>6. QED
    BY <2>3, <2>4, <2>5 DEF Placed
<1>14. Tracked'
  <2>1. ASSUME NEW q \in Requests, Accepted(q)
        PROVE  Accepted(q)'
    <3>1. CASE rx[q] = "result"
      BY <1>1, <1>5, <1>7, <3>1 DEF Accepted, TypeOK
    <3>2. CASE rx[q] # "result"
      <4>1. PICK i \in DOMAIN stdout : AnswerOf(i, q) /\ stdout[i].reply = "result"
        BY <2>1, <3>2 DEF Accepted, AnswerOf
      <4>2. CASE i = 1
        <5>1. q = id /\ Head(stdout).reply = "result"
          BY <1>0, <1>2, <4>1, <4>2, TailAfter DEF AnswerOf
        <5>2. QED
          BY <1>1, <1>7, <5>1 DEF Accepted, TypeOK
      <4>3. CASE i # 1
        <5>1. PICK n \in DOMAIN stdout' : i = n + 1
          BY <1>2, <4>3, TailAfter
        <5>2. stdout'[n] = stdout[i]
          BY <1>2, <5>1, TailAfter
        <5>3. QED
          BY <4>1, <5>1, <5>2 DEF Accepted, AnswerOf
      <4>4. QED
        BY <4>2, <4>3
    <3>3. QED
      BY <3>1, <3>2
  <2>2. \A q \in Requests, t \in Threads : MarkedBy(q, t)' => MarkedBy(q, t)
    BY <1>2, <2>1 DEF MarkedBy, Marks
  <2>3. \A u \in Turns, t \in Threads : Open(u, t)' <=> Open(u, t)
    BY <1>2 DEF Open
  <2>4. QED
    BY <1>2, <1>3, <2>2, <2>3 DEF TurnInv, Tracked
<1>15. AnswerFirst'
  <2>1. \A i \in DOMAIN stdout', u \in Turns : LineOf(i, u)' <=> LineOf(i + 1, u)
    BY <1>2, TailAfter DEF LineOf
  <2>2. \A u \in Turns, t \in Threads : ToBeSeen(u, t)' <=> ToBeSeen(u, t)
    BY <1>2 DEF ToBeSeen
  <2>3. ASSUME NEW r \in Requests, NEW i \in DOMAIN stdout', AnswerOf(i, r)',
               stdout'[i].reply = "result", Marks(r)'
        PROVE  \E u \in Turns : /\ ToBeSeen(u, call[r].thread)'
                                /\ \A j \in DOMAIN stdout' : LineOf(j, u)' => i < j
    <3>1. /\ AnswerOf(i + 1, r) /\ i + 1 \in DOMAIN stdout /\ stdout[i + 1].reply = "result"
          /\ Marks(r)
      BY <1>2, <1>8, <2>3, TailAfter DEF Marks
    <3>2. PICK u \in Turns : /\ ToBeSeen(u, call[r].thread)
                             /\ \A j \in DOMAIN stdout : LineOf(j, u) => i + 1 < j
      BY <1>3, <3>1 DEF TurnInv, AnswerFirst
    <3>3. ToBeSeen(u, call[r].thread)'
      BY <1>2, <3>2 DEF ToBeSeen
    <3>4. \A j \in DOMAIN stdout' : LineOf(j, u)' => i < j
      BY <1>9, <2>1, <3>2
    <3>5. QED
      BY <3>3, <3>4
  <2>4. QED
    BY <1>2, <2>3 DEF AnswerFirst
<1>16. QED
  BY <1>11, <1>12, <1>13, <1>14, <1>15

\* A line of a turn moves active_turns and the frontend together.
LEMMA TurnRead ==
  ASSUME TurnInv, ReadTurnStarted \/ ReadTurnCompleted \/ ReadTurnError
  PROVE  OneStart' /\ Placed' /\ AnnouncedOnce' /\ Tracked' /\ AnswerFirst'
<1>1. TypeOK
  BY TurnTypes
<1>0. PICK v \in Turns : v = Head(stdout).turn
  BY <1>1, HeadLine DEF ReadTurnStarted, ReadTurnCompleted, ReadTurnError, Reading, TypeOK
<1>2. /\ reader = "reading" /\ stdout # <<>> /\ stdout' = Tail(stdout)
      /\ Head(stdout).kind # "response" /\ stdout \in Seq(Lines)
      /\ UNCHANGED <<call, pc, rx, inbox, turn>>
  BY <1>1 DEF ReadTurnStarted, ReadTurnCompleted, ReadTurnError, Reading, TypeOK, callerVars
<1>3. Undrained
  BY <1>2 DEF Undrained
<1>4. /\ 1 \in DOMAIN stdout /\ LineOf(1, v)
      /\ Started(1, v) <=> Head(stdout).kind = "started"
  BY <1>0, <1>2, TailAfter DEF LineOf, Started
<1>5. \A i \in DOMAIN stdout' :
        /\ i \in Nat \ {0} /\ i + 1 \in DOMAIN stdout /\ stdout'[i] = stdout[i + 1]
        /\ \A q \in Requests : AnswerOf(i, q)' <=> AnswerOf(i + 1, q)
        /\ \A u \in Turns : LineOf(i, u)' <=> LineOf(i + 1, u)
        /\ \A u \in Turns : Started(i, u)' <=> Started(i + 1, u)
  BY <1>2, TailAfter DEF AnswerOf, LineOf, Started
<1>6. Head(stdout).kind # "retrying"
  BY <1>2, <1>4, TailAfter DEF TurnInv, AnnouncedOnce
<1>7. \/ /\ Started(1, v)
         /\ active' = [active EXCEPT ![turn[v].thread] = v]
         /\ shown' = [shown EXCEPT ![v] = "started"]
      \/ /\ ~Started(1, v)
         /\ active' = ClearedIf(turn[v].thread, v)
         /\ shown' = [shown EXCEPT ![v] = "over"]
  BY <1>0, <1>2, <1>4, <1>6 DEF ReadTurnStarted, ReadTurnCompleted, ReadTurnError, Reading
<1>8. \A u \in Turns : u # v => shown'[u] = shown[u]
  BY <1>1, <1>7 DEF TypeOK
<1>9. OneStart'
  BY <1>2 DEF TurnInv, OneStart, Marks
<1>10. AnnouncedOnce'
  <2>1. \A i \in DOMAIN stdout' : ~Started(i, v)'
    <3>1. CASE Started(1, v)
      BY <1>4, <1>5, <3>1 DEF TurnInv, AnnouncedOnce
    <3>2. CASE ~Started(1, v)
      <4>1. shown[v] # "unseen"
        <5>1. ASSUME shown[v] = "unseen" PROVE FALSE
          <6>1. PICK i \in DOMAIN stdout : i <= 1 /\ Started(i, v)
            BY <1>2, <1>4, <5>1 DEF TurnInv, MarkerInv, TurnsInOrder
          <6>2. i = 1
            BY <1>2, <6>1
          <6>3. QED
            BY <3>2, <6>1, <6>2
        <5>2. QED
          BY <5>1
      <4>2. QED
        BY <1>2, <1>5, <4>1 DEF TurnInv, AnnouncedOnce
    <3>3. QED
      BY <3>1, <3>2
  <2>2. turn[v].state # "accepted"
    BY <1>2, <1>4 DEF TurnInv, MarkerInv, TurnsInOrder
  <2>3. \A u \in Turns, i, j \in DOMAIN stdout' : Started(i, u)' /\ Started(j, u)' => i = j
    BY <1>5 DEF TurnInv, AnnouncedOnce
  <2>4. \A u \in Turns, i \in DOMAIN stdout' : Started(i, u)' => shown'[u] = "unseen"
    BY <1>5, <1>8, <2>1 DEF TurnInv, AnnouncedOnce
  <2>5. \A i \in DOMAIN stdout' : stdout'[i].kind # "retrying"
    BY <1>5 DEF TurnInv, AnnouncedOnce
  <2>6. \A u \in Turns : turn'[u].state = "accepted" => shown'[u] = "unseen"
    BY <1>2, <1>8, <2>2 DEF TurnInv, AnnouncedOnce
  <2>7. QED
    BY <2>3, <2>4, <2>5, <2>6 DEF AnnouncedOnce
<1>11. Placed'
  <2>1. \A q \in inbox' : /\ pc'[q] = "waiting" /\ rx'[q] = "empty"
                          /\ \A i \in DOMAIN stdout' : ~AnswerOf(i, q)'
    BY <1>1, <1>2, <1>3, <1>5 DEF TurnInv, Placed, TypeOK
  <2>2. \A q \in Requests, i \in DOMAIN stdout' : AnswerOf(i, q)' =>
          /\ pc'[q] = "waiting" /\ rx'[q] = "empty"
          /\ \A j \in DOMAIN stdout' : AnswerOf(j, q)' => j + 1 = i + 1
    BY <1>2, <1>3, <1>5 DEF TurnInv, Placed
  <2>3. \A i, j \in DOMAIN stdout' : j + 1 = i + 1 => j = i
    BY <1>5
  <2>4. QED
    BY <1>2, <1>3, <2>1, <2>2, <2>3 DEF TurnInv, Placed
<1>12. Tracked'
  <2>1. /\ turn[v].state # "unused" /\ turn[v].thread \in Threads
        /\ Started(1, v) => shown[v] = "unseen" /\ Open(v, turn[v].thread)
    BY <1>1, <1>2, <1>4 DEF TurnInv, MarkerInv, TurnsInOrder, AnnouncedOnce, Open, TypeOK
  <2>2. ASSUME NEW q \in Requests, Accepted(q)
        PROVE  Accepted(q)'
    <3>1. ASSUME NEW i \in DOMAIN stdout, AnswerOf(i, q), stdout[i].reply = "result"
          PROVE  \E n \in DOMAIN stdout' : AnswerOf(n, q)' /\ stdout'[n].reply = "result"
      <4>1. i # 1
        BY <1>2, <3>1, TailAfter DEF AnswerOf
      <4>2. PICK n \in DOMAIN stdout' : i = n + 1
        BY <1>2, <4>1, TailAfter
      <4>3. QED
        BY <1>5, <3>1, <4>2
    <3>2. QED
      BY <1>2, <2>2, <3>1 DEF Accepted, AnswerOf
  <2>3. \A q \in Requests, t \in Threads : MarkedBy(q, t)' => MarkedBy(q, t)
    BY <1>2, <2>2 DEF MarkedBy, Marks
  <2>4. \A t \in Threads : t # turn[v].thread => active'[t] = active[t]
    BY <1>1, <1>7 DEF ClearedIf, TypeOK
  <2>5. CASE Started(1, v)
    <3>1. /\ active'[turn[v].thread] = v /\ shown'[v] = "started"
      BY <1>1, <1>2, <1>7, <2>1, <2>5 DEF TypeOK
    <3>2. \A u \in Turns, t \in Threads : Open(u, t)' <=> Open(u, t)
      BY <1>2, <1>8, <2>1, <2>5, <3>1 DEF Open
    <3>3. \A u \in Turns, t \in Threads : Open(u, t) /\ t = turn[v].thread => u = v
      BY <1>2, <1>3, <2>1, <2>5 DEF TurnInv, Tracked
    <3>4. ASSUME NEW q \in Requests, NEW t \in Threads, MarkedBy(q, t)'
          PROVE  /\ pc'[q] # "admitted" => active'[t] = PendingTurn
                 /\ \A u \in Turns : ~Open(u, t)'
      <4>1. \A u \in Turns : ~Open(u, t)
        BY <1>3, <2>3, <3>4 DEF TurnInv, Tracked
      <4>2. t # turn[v].thread
        BY <1>2, <2>1, <2>5, <4>1
      <4>3. QED
        BY <1>2, <1>3, <2>3, <2>4, <3>2, <3>4, <4>1, <4>2 DEF TurnInv, Tracked
    <3>5. ASSUME NEW u \in Turns, NEW t \in Threads, Open(u, t)
          PROVE  active'[t] = IF shown'[u] = "started" THEN u ELSE PendingTurn
      <4>1. CASE u = v
        BY <3>1, <3>5, <4>1 DEF Open
      <4>2. CASE u # v
        <5>1. t # turn[v].thread
          BY <3>3, <3>5, <4>2
        <5>2. QED
          BY <1>3, <1>8, <2>4, <3>5, <4>2, <5>1 DEF TurnInv, Tracked
      <4>3. QED
        BY <4>1, <4>2
    <3>6. QED
      BY <1>3, <3>2, <3>4, <3>5 DEF TurnInv, Tracked
  <2>6. CASE ~Started(1, v)
    <3>1. shown'[v] = "over"
      BY <1>1, <1>2, <1>7, <2>6 DEF TypeOK
    <3>2. \A u \in Turns, t \in Threads : Open(u, t)' => Open(u, t) /\ u # v
      BY <1>2, <1>8, <3>1 DEF Open
    <3>3. \A t \in Threads : active[t] # v => active'[t] = active[t]
      BY <1>1, <1>7, <2>1, <2>4, <2>6 DEF ClearedIf, TypeOK
    <3>4. ASSUME NEW q \in Requests, NEW t \in Threads, MarkedBy(q, t)'
          PROVE  /\ pc'[q] # "admitted" => active'[t] = PendingTurn
                 /\ \A u \in Turns : ~Open(u, t)'
      BY <1>2, <1>3, <2>3, <3>2, <3>3, <3>4, TurnsAssumption DEF TurnInv, Tracked
    <3>5. ASSUME NEW u \in Turns, NEW t \in Threads, Open(u, t)'
          PROVE  active'[t] = IF shown'[u] = "started" THEN u ELSE PendingTurn
      <4>1. /\ u # v
            /\ active[t] = IF shown[u] = "started" THEN u ELSE PendingTurn
        BY <1>3, <3>2, <3>5 DEF TurnInv, Tracked
      <4>2. active[t] # v
        BY <1>2, <4>1, TurnsAssumption
      <4>3. QED
        BY <1>8, <3>3, <4>1, <4>2
    <3>6. QED
      BY <1>3, <3>2, <3>4, <3>5 DEF TurnInv, Tracked
  <2>7. QED
    BY <2>5, <2>6
<1>13. AnswerFirst'
  <2>1. ASSUME NEW r \in Requests, NEW i \in DOMAIN stdout', AnswerOf(i, r)',
               stdout'[i].reply = "result", Marks(r)'
        PROVE  \E u \in Turns : /\ ToBeSeen(u, call[r].thread)'
                                /\ \A j \in DOMAIN stdout' : LineOf(j, u)' => i < j
    <3>1. /\ AnswerOf(i + 1, r) /\ i + 1 \in DOMAIN stdout /\ stdout[i + 1].reply = "result"
          /\ Marks(r) /\ i \in Nat \ {0}
      BY <1>2, <1>5, <2>1 DEF Marks
    <3>2. PICK u \in Turns : /\ ToBeSeen(u, call[r].thread)
                             /\ \A j \in DOMAIN stdout : LineOf(j, u) => i + 1 < j
      BY <1>3, <3>1 DEF TurnInv, AnswerFirst
    <3>3. u # v
      BY <1>4, <3>1, <3>2
    <3>4. ToBeSeen(u, call[r].thread)'
      BY <1>2, <1>8, <3>2, <3>3 DEF ToBeSeen
    <3>5. \A j \in DOMAIN stdout' : LineOf(j, u)' => i < j
      BY <1>5, <3>2
    <3>6. QED
      BY <3>4, <3>5
  <2>2. QED
    BY <1>2, <2>1 DEF AnswerFirst
<1>14. QED
  BY <1>9, <1>10, <1>11, <1>12, <1>13

\* What is drained is right: a turn/start in request_context has no turn that the
\* frontend was told of, and active_turns names every turn that it was told of.
LEMMA DrainRight ==
  ASSUME TurnInv, DrainContext \/ DrainActive \/ EmitTurnErrors
  PROVE  HeldRight' /\ DeadTurnReported'
<1>1. TypeOK
  BY TurnTypes
<1>2. \A u \in Turns : shown[u] = "started" =>
        turn[u].thread \in Threads /\ Open(u, turn[u].thread)
  BY <1>1 DEF TurnInv, MarkerInv, TurnsInOrder, Open, TypeOK
<1>3. CASE DrainContext
  <2>1. /\ Undrained /\ held'.context = context /\ reader' = "drainActive"
        /\ UNCHANGED <<pc, call, turn, shown>>
    BY <1>1, <1>3 DEF DrainContext, Undrained, TypeOK, callerVars, procVars
  <2>2. \A r \in context : r \in Requests /\ pc[r] \in InFlight
    BY <1>1 DEF TurnInv, MarkerInv, LeftInv, EntriesGone, InFlight, TypeOK
  <2>3. \A r \in context : ~(pc[r] \in {"waiting", "done"} /\ rx[r] = "result")
    BY <1>1 DEF TurnInv, MarkerInv, LeftInv, EntriesGone, TypeOK
  <2>4. ASSUME NEW r \in context, Marks(r), NEW u \in Turns, shown[u] = "started",
               turn[u].thread = call[r].thread
        PROVE  FALSE
    <3>1. r \in Requests /\ call[r].thread \in Threads /\ Open(u, call[r].thread)
      BY <1>1, <1>2, <2>2, <2>4 DEF TypeOK
    <3>2. CASE Accepted(r)
      <4>1. PICK i \in DOMAIN stdout : AnswerOf(i, r) /\ stdout[i].reply = "result"
        BY <2>1, <2>3, <3>1, <3>2 DEF Accepted, AnswerOf, TurnInv, Placed
      <4>2. PICK w \in Turns : ToBeSeen(w, call[r].thread)
        BY <2>1, <2>4, <3>1, <4>1 DEF TurnInv, AnswerFirst
      <4>3. Open(w, call[r].thread)
        BY <4>2 DEF ToBeSeen, Open
      <4>4. u = w
        BY <2>1, <3>1, <4>3 DEF TurnInv, Tracked
      <4>5. QED
        BY <2>4, <4>2, <4>4 DEF ToBeSeen
    <3>3. CASE ~Accepted(r)
      <4>1. MarkedBy(r, call[r].thread)
        BY <2>2, <2>4, <3>3 DEF MarkedBy
      <4>2. QED
        BY <2>1, <3>1, <4>1 DEF TurnInv, Tracked
    <3>4. QED
      BY <3>2, <3>3
  <2>5. \A r \in held'.context :
          /\ pc'[r] # "idle"
          /\ Marks(r)' => \A u \in Turns :
               shown'[u] = "started" => turn'[u].thread # call'[r].thread
    BY <2>1, <2>2, <2>4 DEF Marks, InFlight
  <2>6. QED
    BY <2>1, <2>5 DEF HeldRight, DeadTurnReported
<1>4. CASE DrainActive
  <2>1. /\ Undrained /\ held'.context = held.context /\ held'.active = active
        /\ reader = "drainActive" /\ reader' = "reply"
        /\ UNCHANGED <<pc, call, turn, shown>>
    BY <1>1, <1>4 DEF DrainActive, Undrained, TypeOK, callerVars, procVars
  <2>2. \A u \in Turns : shown[u] = "started" => active[turn[u].thread] = u
    BY <1>2, <2>1 DEF TurnInv, Tracked
  <2>3. QED
    BY <2>1, <2>2 DEF TurnInv, HeldRight, DeadTurnReported, Marks
<1>5. CASE EmitTurnErrors
  <2>1. /\ reader = "emit" /\ reader' = "done" /\ emitted' = emitted \cup ErrorTargets
        /\ UNCHANGED <<turn, shown>>
    BY <1>5 DEF EmitTurnErrors, procVars
  <2>2. ASSUME NEW u \in Turns, shown[u] = "started"
        PROVE  \E e \in ErrorTargets : e.thread = turn[u].thread /\ e.turn = u
    <3>1. turn[u].thread \in Threads /\ held.active[turn[u].thread] = u
      BY <1>2, <2>1, <2>2 DEF TurnInv, HeldRight
    <3>2. ~PendingOn(turn[u].thread, "turn/start")
      BY <2>1, <2>2 DEF TurnInv, HeldRight, PendingOn, Marks
    <3>3. [thread |-> turn[u].thread, turn |-> u] \in ErrorTargets
      BY <3>1, <3>2, TurnsAssumption DEF ErrorTargets
    <3>4. QED
      BY <3>3
  <2>3. \A u \in Turns : shown'[u] = "started" =>
          \E e \in emitted' : e.thread = turn'[u].thread /\ e.turn \in {u, NoTurn}
    BY <2>1, <2>2
  <2>4. QED
    BY <2>1, <2>3 DEF HeldRight, DeadTurnReported
<1>6. QED
  BY <1>3, <1>4, <1>5

\* While no drain is under way, and in its first steps, nothing is held.
LEMMA HeldKept ==
  ASSUME TurnInv, UNCHANGED held,
         \/ reader' \in {"reading", "deliver", "eof", "drainPending", "drainContext"}
         \/ UNCHANGED <<call, pc, reader, emitted, turn, shown>>
         \/ UNCHANGED <<call, pc, turn, shown>> /\ reader = "reply" /\ reader' = "emit"
  PROVE  HeldRight' /\ DeadTurnReported'
BY DEF TurnInv, HeldRight, DeadTurnReported, Marks

\* The invariant under a step of the reader.
LEMMA TurnReader ==
  ASSUME TurnInv, ReaderStep \/ EndOfOutput \/ ShutdownMarksClosed
  PROVE  /\ OneStart' /\ Placed' /\ AnnouncedOnce' /\ Tracked' /\ AnswerFirst'
         /\ HeldRight' /\ DeadTurnReported'
<1> USE DEF callerVars, mapVars, readerVars, procVars
<1>1. CASE ReadResponse
  BY <1>1, QuietReader, HeldKept DEF ReadResponse, Reading, Undrained
<1>2. CASE MarkOutputClosed
  BY <1>2, QuietReader, HeldKept DEF MarkOutputClosed, Undrained
<1>3. CASE DrainPending
  <2>1. reader' = "drainContext" /\ UNCHANGED <<callerVars, active, shown, procVars>>
    BY <1>3 DEF DrainPending
  <2>2. Undrained
    BY <1>3 DEF DrainPending, Undrained
  <2>3. HeldRight' /\ DeadTurnReported'
    BY <2>1 DEF HeldRight, DeadTurnReported
  <2>4. QED
    BY <2>1, <2>2, <2>3, QuietReader
<1>4. CASE DrainContext
  <2>1. Undrained /\ UNCHANGED <<callerVars, active, shown, procVars>>
    BY <1>4 DEF DrainContext, Undrained
  <2>2. QED
    BY <1>4, <2>1, QuietReader, DrainRight
<1>5. CASE EndOfOutput
  BY <1>5, QuietReader, HeldKept DEF EndOfOutput, Undrained
<1>6. CASE ShutdownMarksClosed
  BY <1>6, QuietReader, HeldKept DEF ShutdownMarksClosed, Undrained
<1>7. CASE DeliverResponse
  BY <1>7, Delivered, HeldKept DEF DeliverResponse
<1>8. CASE ReadTurnStarted \/ ReadTurnCompleted \/ ReadTurnError
  <2>1. reader' = "reading" /\ UNCHANGED held
    BY <1>8 DEF ReadTurnStarted, ReadTurnCompleted, ReadTurnError, Reading
  <2>2. QED
    BY <1>8, <2>1, TurnRead, HeldKept
<1>9. CASE DrainActive \/ ReplyStopped \/ EmitTurnErrors
  <2>1. ~Undrained' /\ UNCHANGED <<call, pc, stdout, turn, shown>>
    BY <1>9 DEF DrainActive, ReplyStopped, EmitTurnErrors, Undrained
  <2>2. Placed' /\ Tracked' /\ AnswerFirst'
    BY <2>1 DEF Placed, Tracked, AnswerFirst
  <2>3. OneStart' /\ AnnouncedOnce'
    BY <2>1 DEF TurnInv, OneStart, AnnouncedOnce, Marks, Started
  <2>4. HeldRight' /\ DeadTurnReported'
    <3>1. CASE ReplyStopped
      BY <3>1, HeldKept DEF ReplyStopped
    <3>2. QED
      BY <1>9, <3>1, DrainRight
  <2>5. QED
    BY <2>2, <2>3, <2>4
<1>10. QED
  BY <1>1, <1>2, <1>3, <1>4, <1>5, <1>6, <1>7, <1>8, <1>9 DEF ReaderStep

-----------------------------------------------------------------------------
(* The steps of the process. *)

\* A line put at the end that answers a call in inbox, or announces a turn once.
LEMMA TurnPut ==
  ASSUME TurnInv, NEW l \in Lines, PutLine(l), ProcessFrame, UNCHANGED alive,
         l.kind # "retrying",
         \A r \in Requests : l.kind = "response" /\ l.id = r => r \in inbox /\ r \notin inbox',
         inbox' \subseteq inbox,
         \A u \in Turns : turn[u].state # "unused" =>
           turn'[u].thread = turn[u].thread /\ turn'[u].state # "unused",
         \A u \in Turns : turn'[u].state = "accepted" /\ turn[u].state # "accepted" =>
           turn[u].state = "unused",
         \A u \in Turns : l.kind = "started" /\ l.turn = u => turn[u].state = "accepted",
         \A r \in Requests : l.kind = "response" /\ l.id = r /\ l.reply = "result" /\ Marks(r) =>
           \E u \in Turns : ToBeSeen(u, call[r].thread)' /\ turn[u].state = "unused"
  PROVE  OneStart' /\ Placed' /\ AnnouncedOnce' /\ AnswerFirst' /\ HeldRight' /\ DeadTurnReported'
<1>1. TypeOK /\ stdout \in Seq(Lines)
  BY TurnTypes DEF TypeOK
<1>2. UNCHANGED <<call, pc, rx, shown, reader, held, emitted>>
  BY DEF ProcessFrame, callerVars, readerVars
<1>3. PICK last \in Nat :
        /\ \A i \in DOMAIN stdout :
             i \in Nat /\ i \in DOMAIN stdout' /\ stdout'[i] = stdout[i] /\ i < last
        /\ last \in DOMAIN stdout' /\ stdout'[last] = l
        /\ \A i \in DOMAIN stdout' : i = last \/ i \in DOMAIN stdout
  BY <1>1, PutAfter
<1>4. /\ \A i \in DOMAIN stdout :
           /\ \A q \in Requests : AnswerOf(i, q)' <=> AnswerOf(i, q)
           /\ \A u \in Turns : LineOf(i, u)' <=> LineOf(i, u)
           /\ \A u \in Turns : Started(i, u)' <=> Started(i, u)
      /\ \A q \in Requests : AnswerOf(last, q)' <=> l.kind = "response" /\ l.id = q
      /\ \A u \in Turns : LineOf(last, u)' <=> l.kind # "response" /\ l.turn = u
      /\ \A u \in Turns : Started(last, u)' <=> l.kind = "started" /\ l.turn = u
  BY <1>3 DEF AnswerOf, LineOf, Started
<1>5. OneStart'
  BY <1>2 DEF TurnInv, OneStart, Marks
<1>6. Placed'
  <2> SUFFICES ASSUME Undrained' PROVE Placed'
    BY DEF Placed
  <2>1. Undrained
    BY <1>2 DEF Undrained
  <2>2. \A q \in inbox' : /\ pc'[q] = "waiting" /\ rx'[q] = "empty"
                          /\ \A i \in DOMAIN stdout' : ~AnswerOf(i, q)'
    BY <1>1, <1>2, <1>3, <1>4, <2>1 DEF TurnInv, Placed, TypeOK
  <2>3. ASSUME NEW q \in Requests, NEW i \in DOMAIN stdout', AnswerOf(i, q)'
        PROVE  /\ pc'[q] = "waiting" /\ rx'[q] = "empty"
               /\ \A j \in DOMAIN stdout' : AnswerOf(j, q)' => j = i
    <3>1. CASE i = last
      <4>1. q \in inbox
        BY <1>4, <2>3, <3>1
      <4>2. /\ pc[q] = "waiting" /\ rx[q] = "empty"
            /\ \A j \in DOMAIN stdout : ~AnswerOf(j, q)
        BY <2>1, <4>1 DEF TurnInv, Placed
      <4>3. QED
        BY <1>2, <1>3, <1>4, <3>1, <4>2
    <3>2. CASE i # last
      <4>1. i \in DOMAIN stdout /\ AnswerOf(i, q)
        BY <1>3, <1>4, <2>3, <3>2
      <4>2. /\ pc[q] = "waiting" /\ rx[q] = "empty"
            /\ \A j \in DOMAIN stdout : AnswerOf(j, q) => j = i
            /\ q \notin inbox
        BY <2>1, <4>1 DEF TurnInv, Placed
      <4>3. ~AnswerOf(last, q)'
        BY <1>4, <4>2
      <4>4. QED
        BY <1>2, <1>3, <1>4, <4>2, <4>3
    <3>3. QED
      BY <3>1, <3>2
  <2>4. \A q \in Requests : rx'[q] = "result" => pc'[q] \in {"waiting", "done"}
    BY <1>2, <2>1 DEF TurnInv, Placed
  <2>5. QED
    BY <2>2, <2>3, <2>4 DEF Placed
<1>7. AnnouncedOnce'
  <2>1. \A u \in Turns : turn[u].state \in {"unused", "accepted"} =>
          shown[u] = "unseen" /\ \A i \in DOMAIN stdout : ~Started(i, u)
    BY DEF TurnInv, MarkerInv, TurnsInOrder, AnnouncedOnce, Started, LineOf
  <2>2. \A u \in Turns : turn'[u].state = "accepted" => shown'[u] = "unseen"
    BY <1>2, <2>1
  <2>3. \A u \in Turns, i \in DOMAIN stdout' : Started(i, u)' =>
          /\ shown'[u] = "unseen"
          /\ \A j \in DOMAIN stdout' : Started(j, u)' => j = i
    <3>1. ASSUME NEW u \in Turns, NEW i \in DOMAIN stdout', Started(i, u)'
          PROVE  /\ shown'[u] = "unseen"
                 /\ \A j \in DOMAIN stdout' : Started(j, u)' => j = i
      <4>1. CASE i = last
        <5>1. turn[u].state = "accepted"
          BY <1>4, <3>1, <4>1
        <5>2. QED
          BY <1>2, <1>3, <1>4, <2>1, <4>1, <5>1
      <4>2. CASE i # last
        <5>1. i \in DOMAIN stdout /\ Started(i, u)
          BY <1>3, <1>4, <3>1, <4>2
        <5>2. /\ shown[u] = "unseen"
              /\ \A j \in DOMAIN stdout : Started(j, u) => j = i
          BY <5>1 DEF TurnInv, AnnouncedOnce
        <5>3. ~Started(last, u)'
          BY <1>4, <2>1, <5>1
        <5>4. QED
          BY <1>2, <1>3, <1>4, <5>2, <5>3
      <4>3. QED
        BY <4>1, <4>2
    <3>2. QED
      BY <3>1
  <2>4. \A i \in DOMAIN stdout' : stdout'[i].kind # "retrying"
    BY <1>3 DEF TurnInv, AnnouncedOnce
  <2>5. QED
    BY <2>2, <2>3, <2>4 DEF AnnouncedOnce
<1>8. AnswerFirst'
  <2>1. ASSUME Undrained', NEW r \in Requests, NEW i \in DOMAIN stdout', AnswerOf(i, r)',
               stdout'[i].reply = "result", Marks(r)'
        PROVE  \E u \in Turns : /\ ToBeSeen(u, call[r].thread)'
                                /\ \A j \in DOMAIN stdout' : LineOf(j, u)' => i < j
    <3>1. CASE i = last
      <4>1. l.kind = "response" /\ l.id = r /\ l.reply = "result" /\ Marks(r)
        BY <1>2, <1>3, <1>4, <2>1, <3>1 DEF Marks
      <4>2. PICK u \in Turns : ToBeSeen(u, call[r].thread)' /\ turn[u].state = "unused"
        BY <4>1
      <4>3. \A j \in DOMAIN stdout' : ~LineOf(j, u)'
        BY <1>3, <1>4, <4>1, <4>2 DEF TurnInv, MarkerInv, TurnsInOrder
      <4>4. QED
        BY <4>2, <4>3
    <3>2. CASE i # last
      <4>1. /\ i \in DOMAIN stdout /\ AnswerOf(i, r) /\ stdout[i].reply = "result" /\ Marks(r)
            /\ Undrained
        BY <1>2, <1>3, <1>4, <2>1, <3>2 DEF Marks, Undrained
      <4>2. PICK u \in Turns : /\ ToBeSeen(u, call[r].thread)
                               /\ \A j \in DOMAIN stdout : LineOf(j, u) => i < j
        BY <4>1 DEF TurnInv, AnswerFirst
      <4>3. ToBeSeen(u, call[r].thread)'
        BY <1>2, <4>2 DEF ToBeSeen
      <4>4. \A j \in DOMAIN stdout' : LineOf(j, u)' => i < j
        BY <1>3, <1>4, <4>1, <4>2
      <4>5. QED
        BY <4>3, <4>4
    <3>3. QED
      BY <3>1, <3>2
  <2>2. QED
    BY <1>2, <2>1 DEF AnswerFirst
<1>9. \A u \in Turns : shown[u] = "started" => turn'[u].thread = turn[u].thread
  BY DEF TurnInv, MarkerInv, TurnsInOrder
<1>10. HeldRight' /\ DeadTurnReported'
  BY <1>2, <1>9 DEF TurnInv, HeldRight, DeadTurnReported, Marks
<1>11. QED
  BY <1>5, <1>6, <1>7, <1>8, <1>10

\* No line takes a marker or a turn away from active_turns; only an acceptance
\* makes a turn, and of the turn/start whose marker is there.
LEMMA TrackedProcess ==
  ASSUME TurnInv, ProcessFrame,
         \A q \in Requests : Accepted(q) => Accepted(q)',
         \A u \in Turns, t \in Threads : Open(u, t)' => Open(u, t) \/
           \E r \in Requests : /\ MarkedBy(r, t) /\ ~MarkedBy(r, t)' /\ pc[r] # "admitted"
                               /\ shown[u] = "unseen"
                               /\ \A v \in Turns : Open(v, t)' => v = u
  PROVE  Tracked'
<1> SUFFICES ASSUME Undrained' PROVE Tracked'
  BY DEF Tracked
<1>1. UNCHANGED <<call, pc, rx, active, shown>> /\ Undrained
  BY DEF ProcessFrame, callerVars, mapVars, readerVars, Undrained
<1>2. \A q \in Requests, t \in Threads : MarkedBy(q, t)' => MarkedBy(q, t)
  BY <1>1 DEF MarkedBy, Marks
<1>3. ASSUME NEW u \in Turns, NEW t \in Threads, Open(u, t)', ~Open(u, t)
      PROVE  /\ active[t] = PendingTurn /\ shown[u] = "unseen"
             /\ \A v \in Turns : Open(v, t)' => v = u
             /\ \A q \in Requests : ~MarkedBy(q, t)'
  <2>1. PICK r \in Requests : /\ MarkedBy(r, t) /\ ~MarkedBy(r, t)' /\ pc[r] # "admitted"
                              /\ shown[u] = "unseen"
                              /\ \A v \in Turns : Open(v, t)' => v = u
    BY <1>3
  <2>2. active[t] = PendingTurn
    BY <1>1, <2>1 DEF TurnInv, Tracked
  <2>3. ASSUME NEW q \in Requests, MarkedBy(q, t)'
        PROVE  FALSE
    <3>1. MarkedBy(q, t)
      BY <1>2, <2>3
    <3>2. q = r
      BY <2>1, <3>1 DEF TurnInv, OneStart, MarkedBy
    <3>3. QED
      BY <2>1, <2>3, <3>2
  <2>4. QED
    BY <2>1, <2>2, <2>3
<1>4. QED
  BY <1>1, <1>2, <1>3 DEF TurnInv, Tracked

\* A line at the end takes no answer back.
LEMMA StillAccepted ==
  ASSUME stdout \in Seq(Lines), NEW l \in Lines, PutLine(l), UNCHANGED rx
  PROVE  \A q \in Requests : Accepted(q) => Accepted(q)'
BY PutAfter DEF Accepted

\* The invariant under a step of the process.
LEMMA TurnProcess ==
  ASSUME TurnInv, Disciplined, ProcessStep
  PROVE  /\ OneStart' /\ Placed' /\ AnnouncedOnce' /\ Tracked' /\ AnswerFirst'
         /\ HeldRight' /\ DeadTurnReported'
<1>1. TypeOK /\ stdout \in Seq(Lines)
  BY TurnTypes DEF TypeOK
<1>2. ASSUME NEW r \in Requests, NEW reply \in {"result", "error"}, Answer(r, reply)
      PROVE  /\ OneStart' /\ Placed' /\ AnnouncedOnce' /\ Tracked' /\ AnswerFirst'
             /\ HeldRight' /\ DeadTurnReported'
  <2>1. /\ Response(r, reply) \in Lines /\ Response(r, reply).kind = "response"
        /\ Response(r, reply).id = r /\ Response(r, reply).reply = reply
    BY DEF Response, Lines
  <2>2. /\ PutLine(Response(r, reply)) /\ ProcessFrame /\ UNCHANGED <<alive, turn>>
        /\ r \in inbox /\ inbox' = inbox \ {r} /\ (Marks(r) => reply = "error")
    BY <1>2 DEF Answer, StartsTurn, Marks
  <2>3. OneStart' /\ Placed' /\ AnnouncedOnce' /\ AnswerFirst' /\ HeldRight' /\ DeadTurnReported'
    BY <2>1, <2>2, TurnPut
  <2>4. \A u \in Turns, t \in Threads : Open(u, t)' => Open(u, t)
    BY <2>2 DEF Open, ProcessFrame, readerVars
  <2>5. \A q \in Requests : Accepted(q) => Accepted(q)'
    BY <1>1, <2>1, <2>2, StillAccepted DEF ProcessFrame, callerVars
  <2>6. QED
    BY <2>2, <2>3, <2>4, <2>5, TrackedProcess
<1>3. ASSUME NEW r \in Requests, NEW u \in Turns, AcceptTurn(r, u)
      PROVE  /\ OneStart' /\ Placed' /\ AnnouncedOnce' /\ Tracked' /\ AnswerFirst'
             /\ HeldRight' /\ DeadTurnReported'
  <2> DEFINE l == Response(r, "result")
  <2>1. l \in Lines /\ l.kind = "response" /\ l.id = r /\ l.reply = "result"
    BY DEF Response, Lines
  <2>2. /\ PutLine(l) /\ ProcessFrame /\ UNCHANGED alive
        /\ r \in inbox /\ inbox' = inbox \ {r} /\ turn[u].state = "unused"
        /\ turn' = [turn EXCEPT ![u] = [state |-> "accepted", thread |-> call[r].thread]]
        /\ UNCHANGED <<call, pc, rx, shown, reader>>
    BY <1>3 DEF AcceptTurn, ProcessFrame, callerVars, readerVars
  <2>3. Marks(r) /\ call[r].thread \in Threads
    BY <1>1, <1>3 DEF AcceptTurn, StartsTurn, Marks, TurnInv, OneStart, TypeOK
  <2>4. shown[u] = "unseen" /\ ToBeSeen(u, call[r].thread)'
    BY <1>1, <2>2 DEF ToBeSeen, TurnInv, MarkerInv, TurnsInOrder, TypeOK
  <2>5. /\ \A w \in Turns : turn[w].state # "unused" =>
             turn'[w].thread = turn[w].thread /\ turn'[w].state # "unused"
        /\ \A w \in Turns : turn'[w].state = "accepted" /\ turn[w].state # "accepted" =>
             turn[w].state = "unused"
    BY <1>1, <2>2 DEF TypeOK
  <2>6. \A q \in Requests : l.kind = "response" /\ l.id = q /\ l.reply = "result" /\ Marks(q) =>
          \E w \in Turns : ToBeSeen(w, call[q].thread)' /\ turn[w].state = "unused"
    BY <2>1, <2>2, <2>4
  <2>7. OneStart' /\ Placed' /\ AnnouncedOnce' /\ AnswerFirst' /\ HeldRight' /\ DeadTurnReported'
    BY <2>1, <2>2, <2>5, <2>6, TurnPut
  <2>8. \A q \in Requests : Accepted(q) => Accepted(q)'
    BY <1>1, <2>1, <2>2, StillAccepted
  <2>9. Tracked'
    <3> SUFFICES ASSUME Undrained PROVE Tracked'
      BY <2>2 DEF Tracked, Undrained
    <3>1. pc[r] = "waiting" /\ rx[r] = "empty" /\ ~Accepted(r)
      BY <2>2 DEF TurnInv, Placed, Accepted, AnswerOf
    <3>2. MarkedBy(r, call[r].thread)
      BY <2>3, <3>1 DEF MarkedBy, InFlight, CallerPCs
    <3>3. \A w \in Turns : ~Open(w, call[r].thread)
      BY <2>3, <3>2 DEF TurnInv, Tracked
    <3>4. Accepted(r)'
      <4>1. \E i \in DOMAIN stdout' : stdout'[i] = l
        BY <1>1, <2>1, <2>2, PutAfter
      <4>2. QED
        BY <2>1, <4>1 DEF Accepted
    <3>5. ~MarkedBy(r, call[r].thread)'
      BY <3>4 DEF MarkedBy
    <3>6. \A w \in Turns, t \in Threads : Open(w, t)' =>
            Open(w, t) \/ (w = u /\ t = call[r].thread)
      BY <1>1, <2>2 DEF Open, TypeOK
    <3>7. \A v \in Turns : Open(v, call[r].thread)' => v = u
      BY <2>2, <2>3, <3>3, <3>6
    <3>8. ASSUME NEW w \in Turns, NEW t \in Threads, Open(w, t)', ~Open(w, t)
          PROVE  \E q \in Requests : /\ MarkedBy(q, t) /\ ~MarkedBy(q, t)' /\ pc[q] # "admitted"
                                     /\ shown[w] = "unseen"
                                     /\ \A v \in Turns : Open(v, t)' => v = w
      <4>1. w = u /\ t = call[r].thread
        BY <3>6, <3>8
      <4>2. ~MarkedBy(r, t)' /\ \A v \in Turns : Open(v, t)' => v = w
        BY <2>2, <3>5, <3>7, <4>1
      <4>3. QED
        BY <2>4, <3>1, <3>2, <4>1, <4>2
    <3>9. QED
      BY <2>2, <2>8, <3>8, TrackedProcess
  <2>10. QED
    BY <2>7, <2>9
<1>4. ASSUME NEW u \in Turns, NEW kind \in {"started", "completed", "failed"},
             PutLine(TurnLine(kind, u)), ProcessFrame, UNCHANGED <<alive, inbox>>,
             \E s \in {"running", "ended"} : turn' = [turn EXCEPT ![u].state = s],
             kind = "started" => turn[u].state = "accepted",
             turn[u].state # "unused"
      PROVE  /\ OneStart' /\ Placed' /\ AnnouncedOnce' /\ Tracked' /\ AnswerFirst'
             /\ HeldRight' /\ DeadTurnReported'
  <2> DEFINE l == TurnLine(kind, u)
  <2>1. l \in Lines /\ l.kind = kind /\ l.turn = u
    BY DEF TurnLine, Lines
  <2>2. \A w \in Turns : /\ turn'[w].thread = turn[w].thread
                         /\ turn'[w].state = "unused" <=> turn[w].state = "unused"
                         /\ turn'[w].state = "accepted" => turn[w].state = "accepted"
    BY <1>1, <1>4 DEF TypeOK
  <2>3. OneStart' /\ Placed' /\ AnnouncedOnce' /\ AnswerFirst' /\ HeldRight' /\ DeadTurnReported'
    BY <1>4, <2>1, <2>2, TurnPut
  <2>4. \A w \in Turns, t \in Threads : Open(w, t)' => Open(w, t)
    BY <1>4, <2>2 DEF Open, ProcessFrame, readerVars
  <2>5. \A q \in Requests : Accepted(q) => Accepted(q)'
    BY <1>1, <1>4, <2>1, StillAccepted DEF ProcessFrame, callerVars
  <2>6. QED
    BY <1>4, <2>3, <2>4, <2>5, TrackedProcess
<1>5. ASSUME NEW u \in Turns, NEW kind \in {"completed", "failed"},
             AnnounceTurn(u) \/ RetryTurn(u) \/ EndTurn(u, kind)
      PROVE  /\ OneStart' /\ Placed' /\ AnnouncedOnce' /\ Tracked' /\ AnswerFirst'
             /\ HeldRight' /\ DeadTurnReported'
  <2>1. CASE AnnounceTurn(u)
    BY <1>4, <2>1 DEF AnnounceTurn
  <2>2. CASE EndTurn(u, kind)
    BY <1>4, <2>2 DEF EndTurn
  <2>3. ~RetryTurn(u)
    BY DEF RetryTurn, Disciplined
  <2>4. QED
    BY <1>5, <2>1, <2>2, <2>3
<1>6. CASE Exit
  <2>1. UNCHANGED <<call, pc, rx, inbox, stdout, turn, shown, active, reader, held, emitted>>
    BY <1>6 DEF Exit, ProcessFrame, callerVars, mapVars, readerVars
  <2>2. QED
    BY <2>1, QuietReader, HeldKept DEF Undrained
<1>7. QED
  BY <1>2, <1>3, <1>5, <1>6 DEF ProcessStep

-----------------------------------------------------------------------------
(* The whole next-state relation. *)

\* A new turn/start finds its thread free: no other is sent, and no turn is open.
LEMMA TurnCall ==
  ASSUME TurnInv, Disciplined, NEW r \in Requests, NEW m \in Methods, NEW t \in Threads,
         Call(r, m, t)
  PROVE  /\ OneStart' /\ Placed' /\ AnnouncedOnce' /\ Tracked' /\ AnswerFirst'
         /\ HeldRight' /\ DeadTurnReported'
<1>1. TypeOK
  BY TurnTypes
<1>2. /\ pc[r] = "idle" /\ pc'[r] \in {"done", "admitted"}
      /\ call'[r] = [method |-> m, thread |-> t]
      /\ \A q \in Requests : q # r => pc'[q] = pc[q] /\ call'[q] = call[q]
      /\ UNCHANGED <<rx, inbox, stdout, turn, shown, active, reader, held, emitted>>
  BY <1>1 DEF Call, Goto, TypeOK, mapVars, readerVars, procVars
<1>3. m # "review/start" /\ (m = "turn/start" => ThreadFree(t))
  BY DEF Disciplined, Call
<1>4. \A q \in Requests : q # r => (Marks(q)' <=> Marks(q)) /\ (Accepted(q)' <=> Accepted(q))
  BY <1>2 DEF Marks, Accepted
<1>5. Marks(r)' => m = "turn/start"
  BY <1>2 DEF Marks
<1>6. OneStart'
  <2>1. ASSUME NEW q \in Requests, q # r, Marks(r)', Marks(q)', call'[q].thread = t,
               pc'[q] \in InFlight
        PROVE  FALSE
    BY <1>2, <1>3, <1>4, <1>5, <2>1 DEF ThreadFree, StartsTurn, Marks
  <2>2. \A q \in Requests : call'[q].method # "review/start"
    BY <1>2, <1>3 DEF TurnInv, OneStart
  <2>3. call'[r].thread = t
    BY <1>2
  <2>4. QED
    BY <1>2, <1>4, <2>1, <2>2, <2>3 DEF TurnInv, OneStart
<1>7. AnnouncedOnce' /\ DeadTurnReported'
  BY <1>2 DEF TurnInv, AnnouncedOnce, DeadTurnReported, Started
<1>8. Undrained' => Undrained /\ r \notin inbox /\ \A i \in DOMAIN stdout : ~AnswerOf(i, r)
  BY <1>2 DEF TurnInv, Placed, Undrained
<1>9. Placed'
  <2> SUFFICES ASSUME Undrained' PROVE Placed'
    BY DEF Placed
  <2>1. \A i \in DOMAIN stdout, q \in Requests : AnswerOf(i, q)' <=> AnswerOf(i, q)
    BY <1>2 DEF AnswerOf
  <2>2. rx[r] # "result"
    BY <1>2, <1>8 DEF TurnInv, Placed
  <2>3. QED
    BY <1>1, <1>2, <1>8, <2>1, <2>2 DEF TurnInv, Placed, TypeOK
<1>10. Tracked'
  <2> SUFFICES ASSUME Undrained' PROVE Tracked'
    BY DEF Tracked
  <2>1. \A u \in Turns, x \in Threads : Open(u, x)' <=> Open(u, x)
    BY <1>2 DEF Open
  <2>2. \A q \in Requests, x \in Threads : q # r /\ MarkedBy(q, x)' => MarkedBy(q, x)
    BY <1>2, <1>4 DEF MarkedBy
  <2>3. ASSUME NEW x \in Threads, MarkedBy(r, x)'
        PROVE  pc'[r] = "admitted" /\ \A u \in Turns : ~Open(u, x)
    <3>1. x = t /\ pc'[r] = "admitted" /\ active[t] = NoTurn
      BY <1>2, <1>3, <1>5, <2>3 DEF MarkedBy, InFlight, ThreadFree
    <3>2. QED
      BY <1>8, <3>1, TurnsAssumption DEF TurnInv, Tracked
  <2>4. QED
    BY <1>2, <1>8, <2>1, <2>2, <2>3 DEF TurnInv, Tracked
<1>11. AnswerFirst'
  BY <1>2, <1>4, <1>8 DEF TurnInv, AnswerFirst, AnswerOf, ToBeSeen, LineOf
<1>12. HeldRight'
  BY <1>1, <1>2, <1>4 DEF TurnInv, HeldRight, TypeOK
<1>13. QED
  BY <1>6, <1>7, <1>9, <1>10, <1>11, <1>12

\* TurnInv is inductive under the discipline.
LEMMA TurnNext == Disciplined /\ TurnInv /\ [Next]_vars => TurnInv'
<1> SUFFICES ASSUME Disciplined, TurnInv, [Next]_vars PROVE TurnInv'
  OBVIOUS
<1>1. MarkerInv'
  BY MarkerNext DEF TurnInv
<1>2. CASE UNCHANGED vars
  <2>1. UNCHANGED <<call, pc, rx, inbox, stdout, turn, shown, active, reader, held, emitted>>
    BY <1>2 DEF vars, callerVars, mapVars, readerVars, procVars
  <2>2. QED
    BY <1>1, <2>1, QuietReader, HeldKept DEF Undrained, TurnInv
<1>3. ASSUME NEW r \in Requests, CallerStep(r) \/ TimeOut(r)
      PROVE  TurnInv'
  BY <1>1, <1>3, PlacedCaller, TrackedCaller, TurnCaller DEF TurnInv
<1>4. CASE ReaderStep \/ EndOfOutput \/ ShutdownMarksClosed
  BY <1>1, <1>4, TurnReader DEF TurnInv
<1>5. CASE ProcessStep
  BY <1>1, <1>5, TurnProcess DEF TurnInv
<1>6. ASSUME NEW r \in Requests, NEW m \in Methods, NEW t \in Threads, Call(r, m, t)
      PROVE  TurnInv'
  BY <1>1, <1>6, TurnCall DEF TurnInv
<1>7. QED
  BY <1>2, <1>3, <1>4, <1>5, <1>6 DEF Next

\* Initially no turn has begun and no line is unread.
LEMMA TurnInit == Init => TurnInv
<1> SUFFICES ASSUME Init PROVE TurnInv
  OBVIOUS
<1>1. MarkerInv
  BY MarkerInit
<1>2. OneStart /\ AnnouncedOnce /\ HeldRight /\ DeadTurnReported
  BY DEF Init, OneStart, AnnouncedOnce, HeldRight, DeadTurnReported, Marks, InFlight
<1>3. Placed /\ AnswerFirst
  BY DEF Init, Placed, AnswerFirst
<1>4. Tracked
  BY DEF Init, Tracked, MarkedBy, InFlight, Open
<1>5. QED
  BY <1>1, <1>2, <1>3, <1>4 DEF TurnInv

\* A turn that the frontend shows as running is in active_turns as long as the
\* reader is at work, whatever other calls, answers and exits come in between:
\* what the quiescence check of a Provider switch relies on.
THEOREM LiveTurnsTracked ==
  ASSUME Disciplined PROVE Spec => []LiveTurnTracked
<1>1. TurnInv => LiveTurnTracked
  <2> SUFFICES ASSUME TurnInv, reader \in {"reading", "deliver"},
                      NEW u \in Turns, shown[u] = "started"
               PROVE  active[turn[u].thread] # NoTurn
    BY DEF LiveTurnTracked
  <2>1. turn[u].thread \in Threads /\ Open(u, turn[u].thread)
    BY TurnTypes DEF TurnInv, MarkerInv, TurnsInOrder, Open, TypeOK
  <2>2. active[turn[u].thread] = u
    BY <2>1 DEF TurnInv, Tracked, Undrained
  <2>3. QED
    BY <2>2, TurnsAssumption
<1>2. TurnInv /\ [Next]_vars => TurnInv'
  BY TurnNext
<1>3. QED
  BY <1>1, <1>2, TurnInit, PTL DEF Spec

\* A turn that was running when the output ended is reported to the frontend as
\* over, by its id: no request that is still pending then hides it.
THEOREM DeadTurnsReported ==
  ASSUME Disciplined PROVE Spec => []DeadTurnReported
<1>1. TurnInv => DeadTurnReported
  BY DEF TurnInv
<1>2. TurnInv /\ [Next]_vars => TurnInv'
  BY TurnNext
<1>3. QED
  BY <1>1, <1>2, TurnInit, PTL DEF Spec
=============================================================================
