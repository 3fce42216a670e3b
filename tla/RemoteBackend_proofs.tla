------------------------- MODULE RemoteBackend_proofs -------------------------
(***************************************************************************)
(* Proofs about RemoteBackend, for any number of calls, connections,       *)
(* changes of the settings, and any size of the outbound channel.          *)
(***************************************************************************)
EXTENDS RemoteBackend, TLAPS

-----------------------------------------------------------------------------
(* The clients of a call. *)

Used(k) == ToSet(clients[k])

\* A client that is taken is the last one.
LEMMA Taken ==
  ASSUME NEW S, NEW s \in Seq(S), NEW c \in S
  PROVE  /\ Append(s, c) \in Seq(S) /\ Append(s, c) # <<>>
         /\ Len(Append(s, c)) = Len(s) + 1
         /\ Last(Append(s, c)) = c
         /\ ToSet(Append(s, c)) = ToSet(s) \cup {c}
<1> DEFINE a == Append(s, c)
<1>1. /\ a \in Seq(S) /\ a # <<>> /\ Len(a) = Len(s) + 1
      /\ DOMAIN s = 1 .. Len(s) /\ DOMAIN a = 1 .. Len(s) + 1
      /\ \A i \in 1 .. Len(s) : a[i] = s[i]
      /\ a[Len(s) + 1] = c /\ Len(s) \in Nat
  OBVIOUS
<1> HIDE DEF a
<1>2. Last(a) = c
  BY <1>1 DEF Last
<1>3. ToSet(a) = ToSet(s) \cup {c}
  BY <1>1 DEF ToSet
<1>4. QED
  BY <1>1, <1>2, <1>3 DEF a

\* The last client of a call is one of its clients, the only one if it has one.
LEMMA LastUsed ==
  ASSUME NEW S, NEW s \in Seq(S), s # <<>>
  PROVE  /\ Last(s) \in S /\ Last(s) \in ToSet(s)
         /\ Len(s) = 1 => ToSet(s) = {Last(s)}
<1>1. Len(s) \in 1 .. Len(s) /\ DOMAIN s = 1 .. Len(s) /\ s[Len(s)] \in S
  OBVIOUS
<1>2. QED
  BY <1>1 DEF Last, ToSet

LEMMA NoneUsed == ToSet(<<>>) = {}
BY DEF ToSet

-----------------------------------------------------------------------------
(* Types: a call that is under way on a client has one. *)

OnClient == {"auth", "check", "insert", "send", "wait", "retry", "giveUp"}

ClientsOK ==
  \A k \in Callers :
    /\ at[k] \in OnClient => clients[k] # <<>>
    /\ at[k] \in {"ensure", "connect"} => Len(clients[k]) <= 1
    /\ at[k] \in {"idle"} \cup Done => clients[k] = <<>>

TypeInv == TypeOK /\ ClientsOK

\* The connection a call uses is a connection.
LEMMA ConnOK ==
  ASSUME TypeInv, NEW k \in Callers, at[k] \in OnClient
  PROVE  /\ Conn(k) \in Conns /\ Conn(k) \in Used(k)
         /\ Len(clients[k]) = 1 => Used(k) = {Conn(k)}
<1>1. clients[k] \in Seq(Conns) /\ clients[k] # <<>>
  BY DEF TypeInv, TypeOK, ClientsOK
<1>2. QED
  BY <1>1, LastUsed DEF Conn, Used

LEMMA TypeInit == Init => TypeInv
<1> SUFFICES ASSUME Init PROVE TypeInv
  OBVIOUS
<1> USE RemoteAssumption DEF Init, Steps, Done
<1>1. /\ current \in Conns \cup {NoConn} /\ guard \in Callers \cup {Nobody}
      /\ at \in [Callers -> Steps] /\ opened \in 0 .. MaxConns /\ resets \in 0 .. MaxResets
      /\ reply \in [Callers -> {NoReply, "result", "refused", "gone"}]
      /\ executed \in [Callers -> Nat]
  OBVIOUS
<1>2. /\ clients \in [Callers -> Seq(Conns)] /\ \A k \in Callers : Len(clients[k]) <= 2
      /\ queue \in [Conns -> Seq(Callers)] /\ \A c \in Conns : Len(queue[c]) <= QueueSize
  OBVIOUS
<1>3. /\ link \in [Conns -> {"none", "up", "down"}] /\ connected \in [Conns -> BOOLEAN]
      /\ pending \in [Conns -> SUBSET Callers] /\ gaps \in [Conns -> Nat]
      /\ reader \in [Conns -> {"none", "reading", "drain", "drainAgain", "stopped"}]
      /\ writer \in [Conns ->
                     {"none", "writing", "drain", "drainAgain", "closing", "stopped"}]
      /\ subscribed \subseteq Conns
  OBVIOUS
<1>4. /\ inbox \in [Conns -> SUBSET Callers] /\ answers \in [Conns -> SUBSET Callers]
      /\ timely \in [Conns -> SUBSET Callers] /\ late \in BOOLEAN
  OBVIOUS
<1>5. ClientsOK
  BY DEF ClientsOK, OnClient
<1>6. QED
  BY <1>1, <1>2, <1>3, <1>4, <1>5 DEF TypeInv, TypeOK

LEMMA TypeEnsure ==
  ASSUME TypeInv, NEW k \in Callers,
         Begin(k) \/ Ensure(k) \/ ConnectFails(k) \/ Connect(k)
  PROVE  TypeInv'
<1> USE RemoteAssumption DEF Steps, Done, OnClient
<1>1. CASE Begin(k)
  BY <1>1 DEF Begin, Goto, TypeInv, TypeOK, ClientsOK, daemonVars, taskVars, pastVars
<1>2. CASE Ensure(k)
  <2>1. CASE current = NoConn
    <3>1. /\ at[k] = "ensure" /\ at' = [at EXCEPT ![k] = "connect"] /\ guard' = k
          /\ UNCHANGED <<current, clients, reply, opened, link, taskVars, pending, queue,
                        daemonVars, resets, pastVars>>
      BY <1>2, <2>1 DEF Ensure, Goto
    <3>2. ClientsOK'
      BY <3>1 DEF TypeInv, TypeOK, ClientsOK
    <3>3. QED
      BY <3>1, <3>2 DEF TypeInv, TypeOK, daemonVars, taskVars, pastVars
  <2>2. CASE current # NoConn
    <3>1. /\ current \in Conns /\ clients[k] \in Seq(Conns) /\ Len(clients[k]) <= 1
      BY <1>2, <2>2 DEF Ensure, TypeInv, TypeOK, ClientsOK
    <3>2. /\ Append(clients[k], current) \in Seq(Conns)
          /\ Append(clients[k], current) # <<>>
          /\ Len(Append(clients[k], current)) <= 2
      BY <3>1, Taken
    <3>3. /\ at[k] = "ensure" /\ at' = [at EXCEPT ![k] = "check"]
          /\ clients' = [clients EXCEPT ![k] = Append(clients[k], current)]
          /\ UNCHANGED <<current, guard, reply, opened, link, taskVars, pending, queue,
                        daemonVars, resets, pastVars>>
      BY <1>2, <2>2 DEF Ensure, Goto, Takes, TypeInv, TypeOK
    <3>4. ClientsOK'
      BY <3>2, <3>3 DEF TypeInv, TypeOK, ClientsOK
    <3>5. QED
      BY <3>2, <3>3, <3>4 DEF TypeInv, TypeOK, daemonVars, taskVars, pastVars
  <2>3. QED
    BY <2>1, <2>2
<1>3. CASE ConnectFails(k)
  BY <1>3 DEF ConnectFails, Goto, Finish, TypeInv, TypeOK, ClientsOK, daemonVars, taskVars,
              pastVars
<1>4. CASE Connect(k)
  <2>1. /\ opened + 1 \in Conns /\ clients[k] \in Seq(Conns) /\ Len(clients[k]) <= 1
        /\ opened + 1 \in 0 .. MaxConns
    BY <1>4 DEF Connect, TypeInv, TypeOK, ClientsOK, Conns
  <2>2. /\ Append(clients[k], opened + 1) \in Seq(Conns)
        /\ Append(clients[k], opened + 1) # <<>>
        /\ Len(Append(clients[k], opened + 1)) <= 2
    BY <2>1, Taken
  <2>3. QED
    BY <1>4, <2>1, <2>2 DEF Connect, Goto, Takes, TypeInv, TypeOK, ClientsOK,
                            daemonVars, pastVars
<1>5. QED
  BY <1>1, <1>2, <1>3, <1>4

LEMMA TypeCall ==
  ASSUME TypeInv, NEW k \in Callers,
         \/ Authenticated(k) \/ AuthFails(k) \/ Check(k) \/ Insert(k) \/ Send(k)
         \/ SendClosed(k) \/ TimeOut(k) \/ Return(k) \/ Retry(k) \/ GiveUp(k)
  PROVE  TypeInv'
<1> USE RemoteAssumption DEF Steps, Done, OnClient
<1>0. at[k] \in OnClient
  BY DEF Authenticated, AuthFails, Check, Insert, Send, SendClosed, TimeOut, Return,
         Retry, GiveUp
<1>c. Conn(k) \in Conns
  BY <1>0, ConnOK
<1>1. CASE Authenticated(k)
  BY <1>1, <1>c DEF Authenticated, Goto, TypeInv, TypeOK, ClientsOK, taskVars, pastVars
<1>2. CASE AuthFails(k)
  <2>1. ClientsOK'
    BY <1>2 DEF AuthFails, Goto, Finish, TypeInv, TypeOK, ClientsOK
  <2>2. subscribed' \subseteq Conns /\ late' \in BOOLEAN
    BY <1>2, <1>c DEF AuthFails, TypeInv, TypeOK
  <2>3. QED
    BY SMTT(30), <1>2, <2>1, <2>2 DEF AuthFails, Goto, Finish, TypeInv, TypeOK, taskVars
<1>3. CASE Check(k)
  BY <1>3, <1>c DEF Check, Goto, TypeInv, TypeOK, ClientsOK, daemonVars, taskVars, pastVars
<1>4. CASE Insert(k)
  BY SMTT(30), <1>4, <1>c DEF Insert, Goto, TypeInv, TypeOK, ClientsOK, daemonVars, taskVars
<1>5. CASE Send(k)
  <2>1. /\ queue[Conn(k)] \in Seq(Callers)
        /\ Len(queue[Conn(k)]) < QueueSize
    BY <1>5, <1>c DEF Send, TypeInv, TypeOK
  <2>2. /\ Append(queue[Conn(k)], k) \in Seq(Callers)
        /\ Len(Append(queue[Conn(k)], k)) <= QueueSize
    BY <2>1
  <2>3. QED
    BY <1>5, <1>c, <2>2 DEF Send, Goto, TypeInv, TypeOK, ClientsOK, daemonVars, taskVars,
                            pastVars
<1>6. CASE SendClosed(k)
  BY <1>6, <1>c DEF SendClosed, Forget, Goto, TypeInv, TypeOK, ClientsOK, daemonVars,
                    taskVars, pastVars
<1>7. CASE TimeOut(k)
  BY <1>7, <1>c DEF TimeOut, Forget, Goto, TypeInv, TypeOK, ClientsOK, daemonVars, taskVars
<1>8. CASE Return(k)
  <2>1. ClientsOK'
    BY <1>8 DEF Return, Goto, Finish, TypeInv, TypeOK, ClientsOK
  <2>2. QED
    BY <1>8, <2>1 DEF Return, Finish, Goto, TypeInv, TypeOK, daemonVars, taskVars, pastVars
<1>9. CASE Retry(k)
  <2> DEFINE again == k \in RetrySafe /\ Len(clients[k]) = 1
  <2>1. /\ at[k] = "retry" /\ current' \in {NoConn, current}
        /\ again => UNCHANGED clients /\ at' = [at EXCEPT ![k] = "ensure"]
        /\ ~again => /\ clients' = [clients EXCEPT ![k] = <<>>]
                     /\ at' = [at EXCEPT ![k] = "failed"]
    BY <1>9 DEF Retry, Cleared, Finish, Goto
  <2>2. at' \in [Callers -> Steps] /\ clients' \in [Callers -> Seq(Conns)]
        /\ (\A l \in Callers : Len(clients'[l]) <= 2) /\ ClientsOK'
    <3> USE DEF TypeInv, TypeOK, ClientsOK
    <3>1. CASE again
      <4>1. UNCHANGED clients /\ at' = [at EXCEPT ![k] = "ensure"] /\ Len(clients[k]) = 1
        BY <2>1, <3>1
      <4>2. at' \in [Callers -> Steps]
        BY <4>1
      <4>3. ASSUME NEW l \in Callers
            PROVE  /\ at'[l] \in OnClient => clients'[l] # <<>>
                   /\ at'[l] \in {"ensure", "connect"} => Len(clients'[l]) <= 1
                   /\ at'[l] \in {"idle"} \cup Done => clients'[l] = <<>>
        <5>1. CASE l = k
          <6>1. at'[l] = "ensure"
            BY <4>1, <5>1
          <6>2. Len(clients'[l]) = 1
            BY <4>1, <5>1
          <6>3. Len(clients'[l]) <= 1
            BY <6>2
          <6>4. QED
            BY <6>1, <6>3
        <5>2. CASE l # k
          BY <4>1, <5>2
        <5>3. QED
          BY <5>1, <5>2
      <4>4. QED
        BY <4>1, <4>2, <4>3
    <3>2. CASE ~again
      <4>1. /\ clients' = [clients EXCEPT ![k] = <<>>]
            /\ at' = [at EXCEPT ![k] = "failed"]
        BY <2>1, <3>2
      <4>2. at' \in [Callers -> Steps] /\ clients' \in [Callers -> Seq(Conns)]
        BY <4>1
      <4>3. \A l \in Callers : Len(clients'[l]) <= 2
        BY <4>1
      <4>4. ClientsOK'
        BY <4>1
      <4>5. QED
        BY <4>2, <4>3, <4>4
    <3>3. QED
      BY <3>1, <3>2
  <2>3. QED
    BY <1>9, <2>1, <2>2 DEF Retry, TypeInv, TypeOK, daemonVars, taskVars, pastVars
<1>10. CASE GiveUp(k)
  BY SMTT(30), <1>10, <1>c DEF GiveUp, Cleared, Finish, Goto, TypeInv, TypeOK, ClientsOK, daemonVars,
                     taskVars, pastVars
<1>11. QED
  BY <1>1, <1>2, <1>3, <1>4, <1>5, <1>6, <1>7, <1>8, <1>9, <1>10

\* The head of a channel is taken from it.
LEMMA Dequeued ==
  ASSUME TypeInv, NEW c \in Conns, queue[c] # <<>>
  PROVE  /\ Tail(queue[c]) \in Seq(Callers) /\ Len(Tail(queue[c])) <= QueueSize
         /\ Head(queue[c]) \in Callers
<1>1. queue[c] \in Seq(Callers) /\ Len(queue[c]) <= QueueSize
  BY DEF TypeInv, TypeOK
<1>2. QED
  BY <1>1, RemoteAssumption

LEMMA SameClients == ClientsOK /\ UNCHANGED callVars => ClientsOK'
BY DEF ClientsOK, callVars

LEMMA TypeWriter ==
  ASSUME TypeInv, NEW c \in Conns, WriterStep(c)
  PROVE  TypeInv'
<1> USE DEF TypeInv, TypeOK
<1>0. ClientsOK'
  BY SameClients DEF WriterStep, WriterWrites, WriterLoses, WriterFails, WriterEnds,
                     WriterDrains, WriterCloses
<1>1. ASSUME WriterWrites(c) \/ WriterLoses(c) \/ WriterFails(c)
      PROVE  /\ queue' \in [Conns -> Seq(Callers)]
             /\ \A d \in Conns : Len(queue'[d]) <= QueueSize
             /\ Head(queue[c]) \in Callers
  <2>1. queue[c] # <<>> /\ queue' = [queue EXCEPT ![c] = Tail(queue[c])]
    BY <1>1 DEF WriterWrites, WriterLoses, WriterFails
  <2>2. QED
    BY <2>1, Dequeued
<1>2. CASE WriterWrites(c)
  BY <1>0, <1>1, <1>2 DEF WriterWrites, callVars, taskVars, pastVars
<1>3. CASE WriterLoses(c)
  BY <1>0, <1>1, <1>3 DEF WriterLoses, callVars, taskVars, daemonVars, pastVars
<1>4. CASE WriterFails(c)
  BY <1>0, <1>1, <1>4 DEF WriterFails, Swapped, callVars, daemonVars, pastVars
<1>5. CASE WriterEnds(c)
  BY <1>0, <1>5 DEF WriterEnds, callVars, daemonVars, pastVars
<1>6. CASE WriterDrains(c)
  BY <1>0, <1>6 DEF WriterDrains, Drained, Fails, callVars, daemonVars, pastVars
<1>7. CASE WriterCloses(c)
  <2>1. /\ queue' \in [Conns -> Seq(Callers)]
        /\ \A d \in Conns : Len(queue'[d]) <= QueueSize
    BY <1>7, RemoteAssumption DEF WriterCloses
  <2>2. QED
    BY <1>0, <1>7, <2>1 DEF WriterCloses, callVars, daemonVars, pastVars
<1>8. QED
  BY <1>2, <1>3, <1>4, <1>5, <1>6, <1>7 DEF WriterStep

LEMMA TypeReader ==
  ASSUME TypeInv, NEW c \in Conns, ReaderStep(c)
  PROVE  TypeInv'
<1> USE DEF TypeInv, TypeOK
<1>0. ClientsOK'
  BY SameClients DEF ReaderStep, ReaderAnswers, ReaderEnds, ReaderDrains
<1>1. CASE ReaderAnswers(c)
  <2>1. PICK k \in answers[c], kind \in {"result", "refused"} :
          /\ answers' = [answers EXCEPT ![c] = @ \ {k}]
          /\ pending' = [pending EXCEPT ![c] = @ \ {k}]
          /\ reply' = IF k \in pending[c] THEN [reply EXCEPT ![k] = kind] ELSE reply
    BY <1>1 DEF ReaderAnswers
  <2>2. QED
    BY <1>0, <1>1, <2>1 DEF ReaderAnswers, callVars, taskVars, pastVars
<1>2. CASE ReaderEnds(c)
  BY <1>0, <1>2 DEF ReaderEnds, Swapped, callVars, daemonVars, pastVars
<1>3. CASE ReaderDrains(c)
  BY <1>0, <1>3 DEF ReaderDrains, Drained, Fails, callVars, daemonVars, pastVars
<1>4. QED
  BY <1>1, <1>2, <1>3 DEF ReaderStep

LEMMA TypeNext == TypeInv /\ [Next]_vars => TypeInv'
<1> SUFFICES ASSUME TypeInv, [Next]_vars PROVE TypeInv'
  OBVIOUS
<1>1. ASSUME NEW c \in Conns, LinkBreaks(c) \/ DaemonCloses(c) \/ Execute(c)
      PROVE  TypeInv'
  <2> USE DEF TypeInv, TypeOK
  <2>0. ClientsOK'
    BY <1>1, SameClients DEF LinkBreaks, DaemonCloses, Execute
  <2>1. CASE LinkBreaks(c) \/ DaemonCloses(c)
    BY <2>0, <2>1 DEF LinkBreaks, DaemonCloses, callVars, daemonVars, taskVars, pastVars
  <2>2. CASE Execute(c)
    <3>1. PICK k \in inbox[c] :
            /\ inbox' = [inbox EXCEPT ![c] = @ \ {k}]
            /\ executed' = [executed EXCEPT ![k] = @ + 1]
            /\ answers' = IF link[c] = "up" THEN [answers EXCEPT ![c] = @ \cup {k}]
                          ELSE answers
      BY <2>2 DEF Execute
    <3>2. k \in Callers
      OBVIOUS
    <3>3. QED
      BY <2>0, <2>2, <3>1, <3>2 DEF Execute, callVars, taskVars, pastVars
  <2>3. QED
    BY <1>1, <2>1, <2>2
<1>2. CASE ResetBackend
  BY <1>2, RemoteAssumption
     DEF ResetBackend, TypeInv, TypeOK, ClientsOK, callVars, daemonVars, taskVars, pastVars
<1>3. CASE UNCHANGED vars
  BY <1>3 DEF vars, TypeInv, TypeOK, ClientsOK, callVars, daemonVars, taskVars, pastVars
<1>4. QED
  BY <1>1, <1>2, <1>3, TypeEnsure, TypeCall, TypeWriter, TypeReader DEF Next, CallStep

THEOREM RemoteTypes == Spec => []TypeInv
BY TypeInit, TypeNext, PTL DEF Spec

-----------------------------------------------------------------------------
(* The connections that calls hold, and the making of one. *)

\* Whoever makes a connection holds the lock of a cache that is empty, nobody
\* else holds what it makes, and a call that comes back for another client does
\* not find the one it had.
KnownMade == \A k \in Callers : Used(k) \subseteq Made
GuardKept ==
  \A k \in Callers : at[k] \in {"connect", "auth"} => guard = k /\ current = NoConn
MakesItsOwn ==
  \A j, k \in Callers : at[k] = "auth" /\ j # k => Conn(k) \notin Used(j)
NotAgain ==
  \A k \in Callers : at[k] \in {"ensure", "connect"} => current \notin Used(k)

CallsInv ==
  TypeInv /\ current \in Made \cup {NoConn}
    /\ KnownMade /\ GuardKept /\ MakesItsOwn /\ NotAgain

LEMMA CallsInit == Init => CallsInv
<1> SUFFICES ASSUME Init PROVE CallsInv
  OBVIOUS
<1>1. \A k \in Callers : Used(k) = {} /\ at[k] = "idle"
  BY NoneUsed DEF Init, Used
<1>2. current = NoConn
  BY DEF Init
<1>3. QED
  BY <1>1, <1>2, TypeInit DEF CallsInv, KnownMade, GuardKept, MakesItsOwn, NotAgain

\* What a step of k does to the clients of the others: nothing.
LEMMA OthersKeep ==
  ASSUME TypeInv, NEW k \in Callers, NEW s, clients' = [clients EXCEPT ![k] = s]
  PROVE  /\ \A j \in Callers \ {k} : Used(j)' = Used(j) /\ Conn(j)' = Conn(j)
         /\ Used(k)' = ToSet(s) /\ Conn(k)' = Last(s)
<1>1. clients \in [Callers -> Seq(Conns)]
  BY DEF TypeInv, TypeOK
<1>2. clients'[k] = s /\ \A j \in Callers \ {k} : clients'[j] = clients[j]
  BY <1>1
<1>3. QED
  BY <1>2 DEF Used, Conn

LEMMA AllKeep ==
  ASSUME UNCHANGED clients, NEW k
  PROVE  Used(k)' = Used(k) /\ Conn(k)' = Conn(k)
BY DEF Used, Conn

\* A step that neither makes nor looks for a connection.
LEMMA CallsQuiet ==
  ASSUME CallsInv, TypeInv', NEW k \in Callers, NEW x, x \notin {"ensure", "connect", "auth"},
         at' = [at EXCEPT ![k] = x],
         UNCHANGED clients \/ clients' = [clients EXCEPT ![k] = <<>>],
         current' \in {current, NoConn}, UNCHANGED opened,
         UNCHANGED guard \/ at[k] \in {"connect", "auth"}
  PROVE  CallsInv'
<1>1. \A j \in Callers \ {k} : Used(j)' = Used(j) /\ Conn(j)' = Conn(j)
  BY OthersKeep, AllKeep DEF CallsInv
<1>2. Used(k)' \subseteq Used(k)
  BY OthersKeep, AllKeep, NoneUsed DEF CallsInv
<1>3. at'[k] = x /\ \A j \in Callers \ {k} : at'[j] = at[j]
  BY DEF CallsInv, TypeInv, TypeOK
<1>4. \A j \in Callers \ {k} : at[j] \in {"connect", "auth"} => UNCHANGED guard
  BY DEF CallsInv, GuardKept
<1>5. KnownMade' /\ current' \in (Made \cup {NoConn})'
  BY <1>1, <1>2 DEF CallsInv, KnownMade, Made
<1>6. GuardKept'
  BY <1>3, <1>4 DEF CallsInv, GuardKept
<1>7. MakesItsOwn'
  BY <1>1, <1>2, <1>3 DEF CallsInv, MakesItsOwn
<1>8. NoConn \notin Made /\ NoConn \notin Conns
  BY RemoteAssumption DEF CallsInv, Made, Conns, TypeInv, TypeOK
<1>9. NotAgain'
  BY <1>1, <1>3, <1>8 DEF CallsInv, NotAgain, KnownMade
<1>10. QED
  BY <1>5, <1>6, <1>7, <1>9 DEF CallsInv

LEMMA CallsEnsure ==
  ASSUME CallsInv, TypeInv', NEW k \in Callers, Begin(k) \/ Ensure(k) \/ Connect(k)
  PROVE  CallsInv'
<1> USE DEF CallsInv
<1>1. \A j \in Callers \ {k} : at'[j] = at[j] /\ Used(j)' = Used(j) /\ Conn(j)' = Conn(j)
  <2>1. \A j \in Callers \ {k} : at'[j] = at[j]
    BY SMTT(30) DEF Begin, Ensure, Connect, Goto, TypeInv, TypeOK
  <2>2. UNCHANGED clients \/ \E c : clients' = [clients EXCEPT ![k] = Append(clients[k], c)]
    BY DEF Begin, Ensure, Connect, Takes, TypeInv, TypeOK
  <2>3. QED
    BY <2>1, <2>2, OthersKeep, AllKeep
<1>2. CASE Begin(k)
  <2>1. clients[k] = <<>> /\ UNCHANGED <<current, guard, clients, opened>>
        /\ at'[k] = "ensure"
    BY <1>2 DEF Begin, Goto, TypeInv, TypeOK, ClientsOK
  <2>2. Used(k)' = {} /\ Used(k) = {}
    BY <2>1, NoneUsed DEF Used
  <2>3. QED
    BY <1>1, <2>1, <2>2 DEF KnownMade, GuardKept, MakesItsOwn, NotAgain, Made
<1>3. CASE Ensure(k) /\ current = NoConn
  <2>1. UNCHANGED <<current, clients, opened>> /\ guard = Nobody /\ guard' = k
        /\ at'[k] = "connect" /\ at[k] = "ensure"
    BY <1>3 DEF Ensure, Goto, TypeInv, TypeOK
  <2>2. \A j \in Callers : at[j] \notin {"connect", "auth"}
    BY <2>1, RemoteAssumption DEF GuardKept
  <2>3. Used(k)' = Used(k)
    BY <2>1, AllKeep
  <2>4. QED
    BY <1>1, <1>3, <2>1, <2>2, <2>3 DEF KnownMade, GuardKept, MakesItsOwn, NotAgain, Made
<1>4. CASE Ensure(k) /\ current # NoConn
  <2>1. UNCHANGED <<current, guard, opened>> /\ guard = Nobody /\ at'[k] = "check"
        /\ clients' = [clients EXCEPT ![k] = Append(clients[k], current)]
    BY SMTT(30), <1>4 DEF Ensure, Goto, Takes, TypeInv, TypeOK
  <2>2. \A j \in Callers : at[j] \notin {"connect", "auth"}
    BY <2>1, RemoteAssumption DEF GuardKept
  <2>3. clients[k] \in Seq(Conns) /\ current \in Conns
    BY <1>4 DEF TypeInv, TypeOK
  <2>4. Used(k)' = Used(k) \cup {current}
    <3>1. Used(k)' = ToSet(Append(clients[k], current))
      BY <2>1, OthersKeep
    <3>2. QED
      BY <2>3, <3>1, Taken DEF Used
  <2>5. QED
    BY <1>1, <1>4, <2>1, <2>2, <2>4 DEF KnownMade, GuardKept, MakesItsOwn, NotAgain, Made
<1>5. CASE Connect(k)
  <2>1. /\ UNCHANGED <<current, guard>> /\ at'[k] = "auth" /\ at[k] = "connect"
        /\ clients' = [clients EXCEPT ![k] = Append(clients[k], opened + 1)]
        /\ opened' = opened + 1 /\ opened < MaxConns
    BY <1>5 DEF Connect, Goto, Takes, TypeInv, TypeOK
  <2>2. clients[k] \in Seq(Conns) /\ opened + 1 \in Conns /\ opened \in Nat
    BY <2>1, RemoteAssumption DEF TypeInv, TypeOK, Conns
  <2>3. Used(k)' = Used(k) \cup {opened + 1} /\ Conn(k)' = opened + 1
    <3>1. /\ Used(k)' = ToSet(Append(clients[k], opened + 1))
          /\ Conn(k)' = Last(Append(clients[k], opened + 1))
      BY <2>1, OthersKeep
    <3>2. QED
      BY <2>2, <3>1, Taken DEF Used
  <2>4. Made' = Made \cup {opened + 1} /\ opened + 1 \notin Made
    BY <2>1, <2>2 DEF Made
  <2>5. \A j \in Callers \ {k} : at[j] \notin {"connect", "auth"}
    BY <2>1 DEF GuardKept
  <2>6. QED
    BY <1>1, <2>1, <2>3, <2>4, <2>5 DEF KnownMade, GuardKept, MakesItsOwn, NotAgain
<1>6. QED
  BY <1>2, <1>3, <1>4, <1>5

LEMMA CallsStep ==
  ASSUME CallsInv, TypeInv', NEW k \in Callers, CallStep(k)
  PROVE  CallsInv'
<1>1. CASE Ensure(k) \/ Connect(k)
  BY <1>1, CallsEnsure
<1>2. CASE ConnectFails(k) \/ AuthFails(k)
  <2>1. /\ at' = [at EXCEPT ![k] = "failed"] /\ clients' = [clients EXCEPT ![k] = <<>>]
        /\ UNCHANGED <<current, opened>> /\ at[k] \in {"connect", "auth"}
    BY <1>2 DEF ConnectFails, AuthFails, Finish, Goto
  <2>2. QED
    BY <2>1, CallsQuiet
<1>3. CASE Authenticated(k)
  <2>1. /\ at[k] = "auth" /\ at'[k] = "check" /\ current' = Conn(k) /\ guard' = Nobody
        /\ UNCHANGED <<clients, opened>> /\ \A j \in Callers \ {k} : at'[j] = at[j]
    BY <1>3 DEF Authenticated, Goto, CallsInv, TypeInv, TypeOK
  <2>2. \A j \in Callers : Used(j)' = Used(j) /\ Conn(j)' = Conn(j)
    BY <2>1, AllKeep
  <2>3. \A j \in Callers \ {k} : at[j] \notin {"connect", "auth"}
    BY <2>1 DEF CallsInv, GuardKept
  <2>4. Conn(k) \in Used(k)
    BY <2>1, ConnOK DEF OnClient, CallsInv
  <2>5. QED
    BY <2>1, <2>2, <2>3, <2>4 DEF CallsInv, KnownMade, GuardKept, MakesItsOwn, NotAgain, Made
<1>4. CASE Check(k) \/ Insert(k) \/ Send(k) \/ SendClosed(k) \/ TimeOut(k)
  <2>1. PICK x \in {"insert", "retry", "send", "wait", "giveUp"} : at' = [at EXCEPT ![k] = x]
    BY <1>4 DEF Check, Insert, Send, SendClosed, TimeOut, Goto
  <2>2. UNCHANGED <<current, guard, clients, opened>>
    BY <1>4 DEF Check, Insert, Send, SendClosed, TimeOut
  <2>3. QED
    BY <2>1, <2>2, CallsQuiet
<1>5. CASE Return(k) \/ GiveUp(k)
  <2>1. PICK x \in Done : /\ at' = [at EXCEPT ![k] = x]
                          /\ clients' = [clients EXCEPT ![k] = <<>>]
    BY <1>5 DEF Return, GiveUp, Finish, Goto, Done
  <2>2. UNCHANGED <<guard, opened>> /\ current' \in {current, NoConn}
    BY <1>5 DEF Return, GiveUp, Cleared
  <2>3. QED
    BY <2>1, <2>2, CallsQuiet DEF Done
<1>6. CASE Retry(k)
  <2>1. at[k] = "retry" /\ current' = Cleared(k) /\ UNCHANGED <<guard, opened>>
    BY <1>6 DEF Retry
  <2>2. CASE k \in RetrySafe /\ Len(clients[k]) = 1
    <3>1. UNCHANGED clients /\ at' = [at EXCEPT ![k] = "ensure"]
      BY <1>6, <2>2 DEF Retry, Goto
    <3>2. \A j \in Callers : Used(j)' = Used(j) /\ Conn(j)' = Conn(j)
      BY <3>1, AllKeep
    <3>3. at'[k] = "ensure" /\ \A j \in Callers \ {k} : at'[j] = at[j]
      BY <3>1 DEF CallsInv, TypeInv, TypeOK
    <3>4. Used(k) = {Conn(k)} /\ Conn(k) \in Conns
      BY <2>1, <2>2, ConnOK DEF OnClient, CallsInv
    <3>5. Cleared(k) \in {current, NoConn} /\ Cleared(k) # Conn(k) /\ NoConn \notin Conns
      BY <3>4, RemoteAssumption DEF Cleared
    <3>6. NotAgain'
      <4>1. \A j \in Callers : Used(j) \subseteq Conns
        BY RemoteAssumption DEF CallsInv, KnownMade, Made, Conns, TypeInv, TypeOK
      <4>2. QED
        BY <2>1, <3>2, <3>3, <3>4, <3>5, <4>1 DEF CallsInv, NotAgain
    <3>7. QED
      BY <2>1, <3>2, <3>3, <3>5, <3>6 DEF CallsInv, KnownMade, GuardKept, MakesItsOwn, Made
  <2>3. CASE ~(k \in RetrySafe /\ Len(clients[k]) = 1)
    <3>1. at' = [at EXCEPT ![k] = "failed"] /\ clients' = [clients EXCEPT ![k] = <<>>]
      BY <1>6, <2>3 DEF Retry, Finish, Goto
    <3>2. QED
      BY <2>1, <3>1, CallsQuiet DEF Cleared
  <2>4. QED
    BY <2>2, <2>3
<1>7. QED
  BY <1>1, <1>2, <1>3, <1>4, <1>5, <1>6 DEF CallStep

\* The tasks, the network and the daemon leave the calls and the cache alone.
LEMMA TasksLeaveCalls ==
  ASSUME NEW c \in Conns,
         \/ WriterStep(c) \/ ReaderStep(c)
         \/ LinkBreaks(c) \/ DaemonCloses(c) \/ Execute(c)
  PROVE  UNCHANGED <<current, guard, at, clients, opened, subscribed, resets, timely, late>>
BY DEF WriterStep, ReaderStep, WriterWrites, WriterLoses, WriterFails, WriterEnds,
       WriterDrains, WriterCloses, ReaderAnswers, ReaderEnds, ReaderDrains, LinkBreaks,
       DaemonCloses, Execute, callVars, daemonVars, pastVars

LEMMA CallsUnchanged ==
  CallsInv /\ TypeInv' /\ UNCHANGED <<current, guard, at, clients, opened>> => CallsInv'
BY DEF CallsInv, KnownMade, GuardKept, MakesItsOwn, NotAgain, Used, Conn, Made

LEMMA CallsNext == CallsInv /\ [Next]_vars => CallsInv'
<1> SUFFICES ASSUME CallsInv, [Next]_vars PROVE CallsInv'
  OBVIOUS
<1>1. TypeInv'
  BY TypeNext DEF CallsInv
<1>2. CASE ResetBackend
  <2>1. UNCHANGED <<guard, at, clients, opened>> /\ current' = NoConn
    BY <1>2 DEF ResetBackend, callVars
  <2>2. \A k \in Callers : Used(k) \subseteq Conns
    BY RemoteAssumption DEF CallsInv, KnownMade, Made, Conns, TypeInv, TypeOK
  <2>3. \A k \in Callers : Used(k)' = Used(k) /\ Conn(k)' = Conn(k)
    BY <2>1, AllKeep
  <2>4. QED
    BY <1>1, <2>1, <2>2, <2>3, RemoteAssumption
       DEF CallsInv, KnownMade, GuardKept, MakesItsOwn, NotAgain, Made
<1>3. CASE UNCHANGED vars
  BY <1>1, <1>3, CallsUnchanged DEF vars, callVars
<1>4. QED
  BY <1>1, <1>2, <1>3, CallsEnsure, CallsStep, TasksLeaveCalls, CallsUnchanged DEF Next

-----------------------------------------------------------------------------
(* A lost connection is announced once: the task whose swap finds the flag  *)
(* up announces it, and which one that is shows in where the tasks are.     *)

OneAnnounces(c) ==
  \/ reader[c] = "drain" /\ writer[c] # "drain" /\ gaps[c] = 0
  \/ reader[c] # "drain" /\ writer[c] = "drain" /\ gaps[c] = 0
  \/ reader[c] # "drain" /\ writer[c] # "drain" /\ gaps[c] = 1

Sound(c) ==
  /\ connected[c] => /\ reader[c] = "reading" /\ writer[c] \in {"writing", "stopped"}
                     /\ gaps[c] = 0
  /\ ~connected[c] => OneAnnounces(c)

Absent(c) == reader[c] = "none" /\ writer[c] = "none" /\ ~connected[c]

TasksInv ==
  /\ \A c \in Made : Sound(c)
  /\ \A c \in Conns \ Made : Absent(c) /\ gaps[c] = 0

LEMMA MadeConns == TypeInv => Made \subseteq Conns
BY RemoteAssumption DEF TypeInv, TypeOK, Made, Conns

\* A step of one connection's tasks.
LEMMA TasksOne ==
  ASSUME TypeInv, TasksInv, UNCHANGED opened, NEW c \in Made,
         \A d \in Conns \ {c} : /\ reader'[d] = reader[d] /\ writer'[d] = writer[d]
                                /\ connected'[d] = connected[d] /\ gaps'[d] = gaps[d],
         Sound(c)'
  PROVE  TasksInv'
<1>1. Made' = Made /\ Made \subseteq Conns
  BY MadeConns DEF Made
<1>2. QED
  BY <1>1 DEF TasksInv, Sound, Absent, OneAnnounces

LEMMA TasksWriter ==
  ASSUME TypeInv, TasksInv, NEW c \in Conns, WriterStep(c)
  PROVE  TasksInv'
<1> USE DEF TypeInv, TypeOK
<1>0. c \in Made /\ UNCHANGED opened
  BY TasksLeaveCalls
     DEF TasksInv, Absent, WriterStep, WriterWrites, WriterLoses, WriterFails, WriterEnds,
         WriterDrains, WriterCloses
<1>1. CASE WriterWrites(c) \/ WriterLoses(c)
  BY SMTT(30), <1>0, <1>1 DEF WriterWrites, WriterLoses, taskVars, TasksInv, Sound, Absent,
                    OneAnnounces, Made
<1>2. CASE WriterFails(c)
  <2>1. Sound(c)'
    BY <1>0, <1>2 DEF WriterFails, Swapped, TasksInv, Sound, OneAnnounces
  <2>2. QED
    BY <1>0, <1>2, <2>1, TasksOne DEF WriterFails
<1>3. CASE WriterEnds(c) \/ WriterCloses(c)
  <2>1. Sound(c)'
    BY <1>0, <1>3 DEF WriterEnds, WriterCloses, TasksInv, Sound, OneAnnounces
  <2>2. QED
    BY <1>0, <1>3, <2>1, TasksOne DEF WriterEnds, WriterCloses
<1>4. CASE WriterDrains(c)
  <2>1. Sound(c)'
    <3>1. CASE writer[c] = "drain"
      <4>1. ~connected[c] /\ reader[c] # "drain" /\ gaps[c] = 0
        BY <1>0, <3>1 DEF TasksInv, Sound, OneAnnounces
      <4>2. /\ gaps' = [gaps EXCEPT ![c] = @ + 1] /\ writer' = [writer EXCEPT ![c] = "closing"]
            /\ UNCHANGED <<reader, connected>>
        BY <1>4, <3>1 DEF WriterDrains, Drained
      <4>3. gaps'[c] = 1 /\ writer'[c] = "closing"
        BY <4>1, <4>2
      <4>4. QED
        BY <4>1, <4>2, <4>3 DEF Sound, OneAnnounces
    <3>2. CASE writer[c] = "drainAgain"
      BY <1>0, <1>4, <3>2 DEF WriterDrains, Drained, TasksInv, Sound, OneAnnounces
    <3>3. QED
      BY <1>4, <3>1, <3>2 DEF WriterDrains
  <2>2. QED
    BY <1>0, <1>4, <2>1, TasksOne DEF WriterDrains, Drained
<1>5. QED
  BY <1>1, <1>2, <1>3, <1>4 DEF WriterStep

LEMMA TasksReader ==
  ASSUME TypeInv, TasksInv, NEW c \in Conns, ReaderStep(c)
  PROVE  TasksInv'
<1> USE DEF TypeInv, TypeOK
<1>0. c \in Made /\ UNCHANGED opened
  BY TasksLeaveCalls
     DEF TasksInv, Absent, ReaderStep, ReaderAnswers, ReaderEnds, ReaderDrains
<1>1. CASE ReaderAnswers(c)
  BY <1>0, <1>1 DEF ReaderAnswers, taskVars, TasksInv, Sound, Absent, OneAnnounces, Made
<1>2. CASE ReaderEnds(c)
  <2>1. Sound(c)'
    BY <1>0, <1>2 DEF ReaderEnds, Swapped, TasksInv, Sound, OneAnnounces
  <2>2. QED
    BY <1>0, <1>2, <2>1, TasksOne DEF ReaderEnds
<1>3. CASE ReaderDrains(c)
  <2>1. Sound(c)'
    BY <1>0, <1>3 DEF ReaderDrains, Drained, TasksInv, Sound, OneAnnounces
  <2>2. QED
    BY <1>0, <1>3, <2>1, TasksOne DEF ReaderDrains, Drained
<1>4. QED
  BY <1>1, <1>2, <1>3 DEF ReaderStep

LEMMA TasksInit == Init => TasksInv
BY RemoteAssumption DEF Init, TasksInv, Absent, Made, Conns

LEMMA TasksNext == TypeInv /\ TasksInv /\ [Next]_vars => TasksInv'
<1> SUFFICES ASSUME TypeInv, TasksInv, [Next]_vars PROVE TasksInv'
  OBVIOUS
<1>1. ASSUME UNCHANGED <<opened, taskVars>> PROVE TasksInv'
  BY <1>1 DEF taskVars, TasksInv, Sound, Absent, OneAnnounces, Made
<1>2. ASSUME NEW k \in Callers, Connect(k) PROVE TasksInv'
  <2>1. opened + 1 \in Conns /\ opened \in Nat
    BY <1>2, RemoteAssumption DEF Connect, TypeInv, TypeOK, Conns
  <2>2. PICK c \in Conns : c = opened + 1
    BY <2>1
  <2>3. /\ opened' = c
        /\ reader' = [reader EXCEPT ![c] = "reading"]
        /\ writer' = [writer EXCEPT ![c] = "writing"]
        /\ connected' = [connected EXCEPT ![c] = TRUE] /\ gaps' = gaps
    BY <1>2, <2>2 DEF Connect
  <2>4. Made' = Made \cup {c} /\ c \notin Made /\ Made \subseteq Conns
    BY <2>1, <2>2, <2>3, MadeConns DEF Made
  <2>5. Sound(c)'
    BY <2>3, <2>4 DEF Sound, TasksInv, TypeInv, TypeOK
  <2>6. \A d \in Conns \ {c} :
          /\ reader'[d] = reader[d] /\ writer'[d] = writer[d]
          /\ connected'[d] = connected[d] /\ gaps'[d] = gaps[d]
    BY <2>3 DEF TypeInv, TypeOK
  <2>7. \A d \in Made : Sound(d)'
    BY <2>4, <2>6 DEF TasksInv, Sound, OneAnnounces
  <2>8. \A d \in Conns \ Made' : (Absent(d) /\ gaps[d] = 0)'
    BY <2>4, <2>6 DEF TasksInv, Absent
  <2>9. QED
    BY <2>4, <2>5, <2>7, <2>8 DEF TasksInv
<1>3. ASSUME NEW k \in Callers, Begin(k) \/ CallStep(k) PROVE TasksInv'
  BY <1>1, <1>2, <1>3
     DEF Begin, CallStep, Ensure, ConnectFails, Authenticated, AuthFails, Check, Insert, Send,
         SendClosed, TimeOut, Return, Retry, GiveUp
<1>4. ASSUME NEW c \in Conns, LinkBreaks(c) \/ DaemonCloses(c) \/ Execute(c) PROVE TasksInv'
  BY <1>1, <1>4 DEF LinkBreaks, DaemonCloses, Execute
<1>5. CASE ResetBackend \/ UNCHANGED vars
  BY <1>1, <1>5 DEF ResetBackend, vars
<1>6. QED
  BY <1>3, <1>4, <1>5, TasksWriter, TasksReader DEF Next

-----------------------------------------------------------------------------
(* A call that registered while its connection was up: it does not register *)
(* a second time with the same connection.                                 *)

Registered(k, c) ==
  at[k] \in Done \/ (c \in Used(k) /\ (at[k] \in {"auth", "check", "insert"} => Conn(k) # c))

RegisteredOnce == \A c \in Conns : \A k \in timely[c] : Registered(k, c)

FailedInv == CallsInv /\ TasksInv /\ RegisteredOnce /\ NoneOverlooked

\* The call of another step keeps what it has.
LEMMA RegisteredKeeps ==
  ASSUME TypeInv, NEW k \in Callers, NEW c, Registered(k, c), at'[k] = at[k],
         Used(k)' = Used(k), Conn(k)' = Conn(k)
  PROVE  Registered(k, c)'
BY DEF Registered

LEMMA RegisteredStep ==
  ASSUME CallsInv, NEW k \in Callers, Begin(k) \/ CallStep(k), RegisteredOnce
  PROVE  RegisteredOnce'
<1> USE DEF CallsInv
<1>1. \A j \in Callers \ {k} : at'[j] = at[j] /\ Used(j)' = Used(j) /\ Conn(j)' = Conn(j)
  <2>1. \A j \in Callers \ {k} : at'[j] = at[j]
    BY DEF Begin, CallStep, Ensure, ConnectFails, Connect, Authenticated, AuthFails, Check,
           Insert, Send, SendClosed, TimeOut, Return, Retry, GiveUp, Finish, Goto, TypeInv,
           TypeOK
  <2>2. UNCHANGED clients \/ \E s : clients' = [clients EXCEPT ![k] = s]
    BY DEF Begin, CallStep, Ensure, ConnectFails, Connect, Authenticated, AuthFails, Check,
           Insert, Send, SendClosed, TimeOut, Return, Retry, GiveUp, Finish, Takes
  <2>3. QED
    BY <2>1, <2>2, OthersKeep, AllKeep
<1>2. timely \in [Conns -> SUBSET Callers]
  BY DEF TypeInv, TypeOK
<1>3. ASSUME UNCHANGED timely, \A c \in Conns : Registered(k, c) => Registered(k, c)'
      PROVE  RegisteredOnce'
  BY <1>1, <1>2, <1>3, RegisteredKeeps DEF RegisteredOnce
<1>4. CASE Insert(k)
  <2>1. at[k] = "insert" /\ at'[k] = "send" /\ Conn(k) \in Conns /\ Conn(k) \in Used(k)
    BY <1>4, ConnOK DEF Insert, Goto, OnClient, TypeInv, TypeOK
  <2>2. Used(k)' = Used(k)
    BY <1>4, AllKeep DEF Insert
  <2>3. \A c \in Conns : timely'[c] \subseteq timely[c] \cup (IF c = Conn(k) THEN {k} ELSE {})
    BY <1>2, <1>4, <2>1 DEF Insert
  <2>4. ASSUME NEW c \in Conns, NEW j \in timely'[c] PROVE Registered(j, c)'
    <3>1. CASE j = k
      BY <2>1, <2>2, <2>3, <2>4, <3>1 DEF RegisteredOnce, Registered, Done
    <3>2. CASE j # k
      BY <1>1, <1>2, <2>3, <2>4, <3>2, RegisteredKeeps DEF RegisteredOnce
    <3>3. QED
      BY <3>1, <3>2
  <2>5. QED
    BY <2>4 DEF RegisteredOnce
<1>5. CASE Begin(k)
  <2>1. at[k] = "idle" /\ Used(k) = {} /\ UNCHANGED timely
    BY <1>5, NoneUsed DEF Begin, Used, TypeInv, ClientsOK, pastVars
  <2>2. QED
    BY <1>3, <2>1 DEF Registered, Done
<1>6. CASE Ensure(k) /\ current = NoConn
  <2>1. UNCHANGED <<timely, clients>> /\ at[k] = "ensure" /\ at'[k] = "connect"
    BY <1>6 DEF Ensure, Goto, TypeInv, TypeOK, pastVars
  <2>2. QED
    BY <1>3, <2>1, AllKeep DEF Registered, Done
<1>7. CASE Ensure(k) /\ current # NoConn
  <2>1. /\ UNCHANGED timely /\ at[k] = "ensure" /\ at'[k] = "check" /\ current \in Conns
        /\ clients' = [clients EXCEPT ![k] = Append(clients[k], current)]
        /\ clients[k] \in Seq(Conns)
    BY <1>7 DEF Ensure, Goto, Takes, TypeInv, TypeOK, pastVars
  <2>2. /\ Used(k)' = ToSet(Append(clients[k], current))
        /\ Conn(k)' = Last(Append(clients[k], current))
    BY <2>1, OthersKeep
  <2>3. Used(k)' = Used(k) \cup {current} /\ Conn(k)' = current
    BY <2>1, <2>2, Taken DEF Used
  <2>4. current \notin Used(k)
    BY <2>1 DEF NotAgain
  <2>5. QED
    BY <1>3, <2>1, <2>3, <2>4 DEF Registered, Done
<1>8. CASE Connect(k)
  <2>1. /\ UNCHANGED timely /\ at[k] = "connect" /\ at'[k] = "auth" /\ opened + 1 \in Conns
        /\ clients' = [clients EXCEPT ![k] = Append(clients[k], opened + 1)]
        /\ clients[k] \in Seq(Conns) /\ opened \in Nat
    BY <1>8, RemoteAssumption DEF Connect, Goto, Takes, TypeInv, TypeOK, pastVars, Conns
  <2>2. /\ Used(k)' = ToSet(Append(clients[k], opened + 1))
        /\ Conn(k)' = Last(Append(clients[k], opened + 1))
    BY <2>1, OthersKeep
  <2>3. Used(k)' = Used(k) \cup {opened + 1} /\ Conn(k)' = opened + 1
    BY <2>1, <2>2, Taken DEF Used
  <2>4. opened + 1 \notin Used(k)
    BY <2>1 DEF KnownMade, Made
  <2>5. QED
    BY <1>3, <2>1, <2>3, <2>4 DEF Registered, Done
<1>9. CASE Authenticated(k) \/ Check(k)
  <2>1. /\ UNCHANGED <<timely, clients>> /\ at[k] \in {"auth", "check"}
        /\ at'[k] \in {"check", "insert", "retry"}
    BY <1>9 DEF Authenticated, Check, Goto, TypeInv, TypeOK, pastVars
  <2>2. QED
    BY <1>3, <2>1, AllKeep DEF Registered, Done
<1>10. CASE Send(k) \/ SendClosed(k) \/ TimeOut(k)
  <2>1. /\ UNCHANGED <<timely, clients>> /\ at[k] \in {"send", "wait"}
        /\ at'[k] \in {"wait", "retry", "giveUp"}
    BY <1>10 DEF Send, SendClosed, TimeOut, Goto, TypeInv, TypeOK, pastVars
  <2>2. QED
    BY <1>3, <2>1, AllKeep DEF Registered, Done
<1>11. CASE ConnectFails(k) \/ AuthFails(k) \/ Return(k) \/ GiveUp(k)
  <2>1. UNCHANGED timely /\ at'[k] \in Done
    BY <1>11 DEF ConnectFails, AuthFails, Return, GiveUp, Finish, Goto, TypeInv, TypeOK,
                 pastVars, Done
  <2>2. QED
    BY <1>3, <2>1 DEF Registered
<1>12. CASE Retry(k)
  <2>1. /\ UNCHANGED timely /\ at[k] = "retry"
        /\ at'[k] \in Done \/ (at'[k] = "ensure" /\ UNCHANGED clients)
    BY <1>12 DEF Retry, Finish, Goto, TypeInv, TypeOK, pastVars, Done
  <2>2. QED
    BY <1>3, <2>1, AllKeep DEF Registered, Done
<1>13. QED
  BY <1>4, <1>5, <1>6, <1>7, <1>8, <1>9, <1>10, <1>11, <1>12 DEF CallStep

\* Only Insert adds to pending, and only the drains make a connection Marked.
LEMMA OverlookedKeeps ==
  ASSUME NoneOverlooked, UNCHANGED <<opened, timely>>,
         \A c \in Made : pending'[c] \subseteq pending[c] /\ (Marked(c)' => Marked(c))
  PROVE  NoneOverlooked'
BY DEF NoneOverlooked, Made

LEMMA OverlookedStep ==
  ASSUME FailedInv, NEW k \in Callers, Begin(k) \/ CallStep(k)
  PROVE  NoneOverlooked'
<1> USE DEF FailedInv, CallsInv
<1>0. Made \subseteq Conns
  BY MadeConns
<1>1. CASE Insert(k)
  <2>1. /\ at[k] = "insert" /\ Conn(k) \in Conns /\ Conn(k) \in Made
        /\ UNCHANGED <<opened, reader, writer>>
        /\ pending' = [pending EXCEPT ![Conn(k)] = @ \cup {k}]
        /\ timely' = IF connected[Conn(k)] THEN [timely EXCEPT ![Conn(k)] = @ \cup {k}]
                     ELSE timely
    BY <1>1, ConnOK DEF Insert, OnClient, KnownMade, taskVars
  <2>2. connected[Conn(k)] => ~Marked(Conn(k))
    BY <2>1 DEF TasksInv, Sound, Marked
  <2>3. k \notin timely[Conn(k)]
    BY <2>1 DEF RegisteredOnce, Registered, Done
  <2>4. pending \in [Conns -> SUBSET Callers] /\ timely \in [Conns -> SUBSET Callers]
    BY DEF TypeInv, TypeOK
  <2>5. Made' = Made /\ \A c \in Made : Marked(c)' = Marked(c)
    BY <2>1 DEF Made, Marked
  <2>6. ASSUME NEW c \in Made, Marked(c) PROVE pending'[c] \cap timely'[c] = {}
    <3>1. pending[c] \cap timely[c] = {}
      BY <2>6 DEF NoneOverlooked
    <3>2. CASE c # Conn(k)
      BY <1>0, <2>1, <2>4, <3>1, <3>2
    <3>3. CASE c = Conn(k)
      BY <1>0, <2>1, <2>2, <2>3, <2>4, <2>6, <3>1, <3>3
    <3>4. QED
      BY <3>2, <3>3
  <2>7. QED
    BY <2>5, <2>6 DEF NoneOverlooked
<1>2. CASE Connect(k)
  <2>1. opened + 1 \in Conns /\ opened \in Nat
    BY <1>2, RemoteAssumption DEF Connect, TypeInv, TypeOK, Conns
  <2>2. PICK c \in Conns : c = opened + 1
    BY <2>1
  <2>3. /\ reader' = [reader EXCEPT ![c] = "reading"] /\ writer' = [writer EXCEPT ![c] = "writing"]
        /\ Made' = Made \cup {c} /\ UNCHANGED <<pending, timely>>
    BY <1>2, <2>1, <2>2 DEF Connect, Made, pastVars
  <2>4. \A d \in Conns : Marked(d)' => Marked(d) /\ d # c
    BY <2>3 DEF Marked, TypeInv, TypeOK
  <2>5. QED
    BY <1>0, <2>3, <2>4 DEF NoneOverlooked
<1>3. CASE SendClosed(k) \/ TimeOut(k)
  <2>1. /\ pending' = [pending EXCEPT ![Conn(k)] = @ \ {k}]
        /\ UNCHANGED <<opened, timely, reader, writer>>
    BY <1>3 DEF SendClosed, TimeOut, Forget, taskVars, pastVars
  <2>2. \A c \in Conns : pending'[c] \subseteq pending[c]
    BY <2>1 DEF TypeInv, TypeOK
  <2>3. QED
    BY <1>0, <2>1, <2>2, OverlookedKeeps DEF Marked
<1>4. CASE ~(Insert(k) \/ Connect(k) \/ SendClosed(k) \/ TimeOut(k))
  <2>1. UNCHANGED <<opened, timely, reader, writer, pending>>
    BY <1>4 DEF Begin, CallStep, Ensure, ConnectFails, Authenticated, AuthFails, Check, Send,
                Return, Retry, GiveUp, taskVars, pastVars
  <2>2. QED
    BY <2>1, OverlookedKeeps DEF Marked
<1>5. QED
  BY <1>1, <1>2, <1>3, <1>4

LEMMA OverlookedTask ==
  ASSUME FailedInv, NEW c \in Conns, WriterStep(c) \/ ReaderStep(c)
  PROVE  NoneOverlooked'
<1> USE DEF FailedInv, CallsInv, TypeInv, TypeOK
<1>0. UNCHANGED <<opened, timely>> /\ Made \subseteq Conns
  BY TasksLeaveCalls, MadeConns
<1>1. CASE WriterDrains(c) \/ ReaderDrains(c)
  <2>1. /\ pending' = [pending EXCEPT ![c] = {}]
        /\ \A d \in Conns \ {c} : Marked(d)' = Marked(d)
    BY <1>1 DEF WriterDrains, ReaderDrains, Drained, Marked
  <2>2. QED
    BY <1>0, <2>1 DEF NoneOverlooked, Made
<1>2. CASE ReaderAnswers(c)
  <2>1. (\A d \in Conns : pending'[d] \subseteq pending[d]) /\ UNCHANGED taskVars
    BY <1>2 DEF ReaderAnswers
  <2>2. QED
    BY <1>0, <2>1, OverlookedKeeps DEF Marked, taskVars
<1>3. CASE ~(WriterDrains(c) \/ ReaderDrains(c) \/ ReaderAnswers(c))
  <2>1. UNCHANGED pending
    BY <1>3 DEF WriterStep, ReaderStep, WriterWrites, WriterLoses, WriterFails, WriterEnds,
                WriterCloses, ReaderEnds
  <2>2. \A d \in Conns : Marked(d)' => Marked(d)
    BY <1>3 DEF WriterStep, ReaderStep, WriterWrites, WriterLoses, WriterFails, WriterEnds,
                WriterCloses, ReaderEnds, Marked, Swapped, taskVars
  <2>3. QED
    BY <1>0, <2>1, <2>2, OverlookedKeeps
<1>4. QED
  BY <1>1, <1>2, <1>3

LEMMA FailedInit == Init => FailedInv
<1> SUFFICES ASSUME Init PROVE FailedInv
  OBVIOUS
<1>1. \A c \in Conns : timely[c] = {} /\ pending[c] = {}
  BY DEF Init
<1>2. RegisteredOnce /\ NoneOverlooked
  <2>1. Made \subseteq Conns
    BY TypeInit, MadeConns
  <2>2. QED
    BY <1>1, <2>1 DEF RegisteredOnce, NoneOverlooked
<1>3. QED
  BY <1>2, CallsInit, TasksInit DEF FailedInv

LEMMA FailedNext == FailedInv /\ [Next]_vars => FailedInv'
<1> SUFFICES ASSUME FailedInv, [Next]_vars PROVE FailedInv'
  OBVIOUS
<1>1. CallsInv' /\ TasksInv'
  BY CallsNext, TasksNext DEF FailedInv, CallsInv
<1>2. ASSUME UNCHANGED <<at, clients, timely>> PROVE RegisteredOnce'
  BY <1>2 DEF FailedInv, RegisteredOnce, Registered, Used, Conn
<1>3. ASSUME UNCHANGED <<pending, timely, opened, reader, writer>> PROVE NoneOverlooked'
  BY <1>3, OverlookedKeeps DEF FailedInv, Marked
<1>4. ASSUME NEW k \in Callers, Begin(k) \/ CallStep(k)
      PROVE  RegisteredOnce' /\ NoneOverlooked'
  BY <1>4, RegisteredStep, OverlookedStep DEF FailedInv
<1>5. ASSUME NEW c \in Conns, WriterStep(c) \/ ReaderStep(c)
      PROVE  RegisteredOnce' /\ NoneOverlooked'
  BY <1>2, <1>5, TasksLeaveCalls, OverlookedTask
<1>6. ASSUME NEW c \in Conns, LinkBreaks(c) \/ DaemonCloses(c) \/ Execute(c)
      PROVE  RegisteredOnce' /\ NoneOverlooked'
  BY <1>2, <1>3, <1>6 DEF LinkBreaks, DaemonCloses, Execute, callVars, taskVars, pastVars
<1>7. ASSUME ResetBackend \/ UNCHANGED vars PROVE RegisteredOnce' /\ NoneOverlooked'
  <2>1. UNCHANGED <<callVars, pastVars, taskVars, pending, opened>>
    BY <1>7 DEF ResetBackend, vars
  <2>2. QED
    BY <1>2, <1>3, <2>1 DEF callVars, taskVars, pastVars
<1>8. QED
  BY <1>1, <1>4, <1>5, <1>6, <1>7 DEF FailedInv, Next

\* Two tasks may notice that a connection is lost: what was registered while it
\* was up has failed or been answered once one of them is through with
\* mark_disconnected, and one of them only announces the gap.
THEOREM LossHandled == Spec => []LossHandledOnce
<1>1. FailedInv => LossHandledOnce
  BY DEF FailedInv, TasksInv, Sound, OneAnnounces, LossReportedOnce, LossHandledOnce
<1>2. QED
  BY <1>1, FailedInit, FailedNext, PTL DEF Spec

-----------------------------------------------------------------------------
(* The client that is cached. *)

\* A writer that ended by itself had nobody left to send, a call that comes to
\* retry has seen its connection lost, and what the daemon sends its events to is
\* what is cached, until a live connection is given up or replaced.
EndedUnheld == \A c \in Conns : writer[c] = "stopped" /\ connected[c] => ~Held(c)
SawLoss ==
  \A k \in Callers :
    /\ at[k] = "retry" => ~connected[Conn(k)]
    /\ at[k] = "giveUp" => late \/ ~connected[Conn(k)]
LiveIsCached ==
  resets = 0 /\ ~late => \A c \in subscribed : connected[c] => current = c

CacheInv ==
  CallsInv /\ TasksInv /\ subscribed \subseteq Made
    /\ EndedUnheld /\ SawLoss /\ LiveIsCached

LEMMA HeldUsed ==
  TypeInv => \A c : Held(c) <=> current = c \/ \E k \in Callers : c \in Used(k)
BY DEF Held, Used

\* A step of a call that neither takes a client nor publishes one.
LEMMA CacheQuiet ==
  ASSUME CacheInv, NEW k \in Callers, NEW x, at' = [at EXCEPT ![k] = x],
         UNCHANGED clients \/ clients' = [clients EXCEPT ![k] = <<>>],
         UNCHANGED <<opened, taskVars, resets>>,
         late => late',
         current' = current \/ (current' = NoConn /\ (late' \/ ~connected[current])),
         subscribed' \subseteq Made,
         \A c \in subscribed' \ subscribed : ~connected[c] \/ late',
         x = "retry" => ~connected[Conn(k)] /\ UNCHANGED clients,
         x = "giveUp" => (late' \/ ~connected[Conn(k)]) /\ UNCHANGED clients
  PROVE  subscribed' \subseteq Made' /\ EndedUnheld' /\ SawLoss' /\ LiveIsCached'
<1> USE DEF CacheInv, CallsInv
<1>1. \A j \in Callers \ {k} : at'[j] = at[j] /\ Used(j)' = Used(j) /\ Conn(j)' = Conn(j)
  BY OthersKeep, AllKeep DEF TypeInv, TypeOK
<1>2. Used(k)' \subseteq Used(k) /\ at'[k] = x
  <2>1. at'[k] = x
    BY DEF TypeInv, TypeOK
  <2>2. Used(k)' \subseteq Used(k)
    BY OthersKeep, AllKeep, NoneUsed
  <2>3. QED
    BY <2>1, <2>2
<1>3. Made' = Made /\ connected' = connected /\ writer' = writer
  BY DEF Made, taskVars
<1>4. NoConn \notin Conns /\ subscribed \subseteq Conns
  BY RemoteAssumption DEF TypeInv, TypeOK
<1>5. EndedUnheld'
  <2>1. \A c \in Conns : ~Held(c) => ~Held(c)'
    <3>1. \A c \in Conns : ~Held(c) => current # c /\ \A j \in Callers : c \notin Used(j)
      BY DEF Held, Used
    <3>2. \A c \in Conns : ~Held(c) => current' # c /\ \A j \in Callers : c \notin Used(j)'
      BY <1>1, <1>2, <1>4, <3>1
    <3>3. QED
      BY <3>2 DEF Held, Used
  <2>2. QED
    BY <1>3, <2>1 DEF EndedUnheld
<1>6. SawLoss'
  <2>1. ASSUME UNCHANGED clients PROVE Conn(k)' = Conn(k)
    BY <2>1, AllKeep
  <2>2. QED
    BY <1>1, <1>2, <1>3, <2>1 DEF SawLoss
<1>7. LiveIsCached'
  BY <1>3, <1>4 DEF LiveIsCached
<1>8. QED
  BY <1>3, <1>5, <1>6, <1>7

\* Ensure takes the cached client, Connect makes one.
LEMMA CacheEnsure ==
  ASSUME CacheInv, NEW k \in Callers, Ensure(k) \/ Connect(k)
  PROVE  subscribed' \subseteq Made' /\ EndedUnheld' /\ SawLoss' /\ LiveIsCached'
<1> USE DEF CacheInv, CallsInv
<1>0. NoConn \notin Conns /\ subscribed \subseteq Conns /\ Made \subseteq Conns
  BY RemoteAssumption, MadeConns DEF TypeInv, TypeOK
<1>1. CASE Ensure(k) /\ current = NoConn
  <2>1. at' = [at EXCEPT ![k] = "connect"] /\ UNCHANGED <<clients, current>>
    BY <1>1 DEF Ensure, Goto
  <2>2. UNCHANGED <<opened, taskVars, resets, subscribed, late>>
    BY <1>1 DEF Ensure, daemonVars, pastVars
  <2>3. QED
    BY <2>1, <2>2, CacheQuiet
<1>2. CASE Ensure(k) /\ current # NoConn
  <2>1. /\ at'[k] = "check" /\ (\A j \in Callers \ {k} : at'[j] = at[j])
        /\ current \in Conns /\ clients[k] \in Seq(Conns)
        /\ clients' = [clients EXCEPT ![k] = Append(clients[k], current)]
        /\ UNCHANGED <<current, opened, connected, writer, resets, subscribed, late>>
    BY <1>2 DEF Ensure, Goto, Takes, TypeInv, TypeOK, taskVars, daemonVars, pastVars
  <2>2. \A j \in Callers \ {k} : Used(j)' = Used(j) /\ Conn(j)' = Conn(j)
    BY <2>1, OthersKeep
  <2>3. Used(k)' = ToSet(Append(clients[k], current))
    BY <2>1, OthersKeep
  <2>4. Used(k)' = Used(k) \cup {current}
    BY <2>1, <2>3, Taken DEF Used
  <2>5. \A c : Held(c)' => Held(c)
    <3>1. \A c : ~Held(c) => current # c /\ \A j \in Callers : c \notin Used(j)
      BY DEF Held, Used
    <3>2. \A c : ~Held(c) => current' # c /\ \A j \in Callers : c \notin Used(j)'
      BY <2>1, <2>2, <2>4, <3>1
    <3>3. QED
      BY <3>2 DEF Held, Used
  <2>6. QED
    BY <2>1, <2>2, <2>5 DEF EndedUnheld, SawLoss, LiveIsCached, Made
<1>3. CASE Connect(k)
  <2>1. opened + 1 \in Conns /\ opened \in Nat /\ clients[k] \in Seq(Conns)
    BY <1>3, RemoteAssumption DEF Connect, TypeInv, TypeOK, Conns
  <2>2. PICK c \in Conns : c = opened + 1
    BY <2>1
  <2>3. /\ at'[k] = "auth" /\ (\A j \in Callers \ {k} : at'[j] = at[j])
        /\ clients' = [clients EXCEPT ![k] = Append(clients[k], c)]
        /\ connected' = [connected EXCEPT ![c] = TRUE]
        /\ writer' = [writer EXCEPT ![c] = "writing"]
        /\ opened' = c /\ UNCHANGED <<current, resets, subscribed, late>>
    BY <1>3, <2>2 DEF Connect, Goto, Takes, TypeInv, TypeOK, daemonVars, pastVars
  <2>4. \A j \in Callers \ {k} : Used(j)' = Used(j) /\ Conn(j)' = Conn(j)
    BY <2>3, OthersKeep
  <2>5. Used(k)' = ToSet(Append(clients[k], c))
    BY <2>3, OthersKeep
  <2>6. Used(k)' = Used(k) \cup {c}
    BY <2>1, <2>5, Taken DEF Used
  <2>7. c \notin Made /\ Made' = Made \cup {c}
    BY <2>1, <2>2, <2>3 DEF Made
  <2>8. \A d \in Conns \ {c} : /\ connected'[d] = connected[d] /\ writer'[d] = writer[d]
                               /\ (~Held(d) => ~Held(d)')
    <3>1. \A d \in Conns : ~Held(d) => current # d /\ \A j \in Callers : d \notin Used(j)
      BY DEF Held, Used
    <3>2. \A d \in Conns \ {c} :
            ~Held(d) => current' # d /\ \A j \in Callers : d \notin Used(j)'
      BY <2>3, <2>4, <2>6, <3>1
    <3>3. \A d \in Conns \ {c} : ~Held(d) => ~Held(d)'
      BY <3>2 DEF Held, Used
    <3>4. QED
      BY <2>3, <3>3 DEF TypeInv, TypeOK
  <2>9. EndedUnheld'
    BY <2>3, <2>8 DEF EndedUnheld, TypeInv, TypeOK
  <2>10. SawLoss'
    <3>1. \A j \in Callers \ {k} : at[j] \in OnClient => Conn(j) \in Made
      BY ConnOK DEF KnownMade
    <3>2. QED
      BY <1>0, <2>3, <2>4, <2>7, <2>8, <3>1 DEF SawLoss, OnClient
  <2>11. LiveIsCached'
    BY <1>0, <2>3, <2>7, <2>8 DEF LiveIsCached
  <2>12. QED
    BY <2>3, <2>7, <2>9, <2>10, <2>11
<1>4. QED
  BY <1>1, <1>2, <1>3

LEMMA CacheStep ==
  ASSUME CacheInv, NEW k \in Callers, Begin(k) \/ CallStep(k)
  PROVE  subscribed' \subseteq Made' /\ EndedUnheld' /\ SawLoss' /\ LiveIsCached'
<1> USE DEF CacheInv, CallsInv
<1>0. /\ NoConn \notin Conns /\ subscribed \subseteq Conns
      /\ at[k] \in OnClient => /\ Conn(k) \in Conns /\ Conn(k) \in Used(k)
                               /\ Conn(k) \in Made
  BY ConnOK, RemoteAssumption DEF TypeInv, TypeOK, KnownMade
<1>1. CASE Ensure(k) \/ Connect(k)
  BY <1>1, CacheEnsure
<1>2. CASE Authenticated(k)
  <2>1. /\ at[k] = "auth" /\ at'[k] = "check" /\ (\A j \in Callers \ {k} : at'[j] = at[j])
        /\ current' = Conn(k) /\ subscribed' = subscribed \cup {Conn(k)}
        /\ UNCHANGED <<clients, opened, connected, writer, resets, late>>
    BY <1>2 DEF Authenticated, Goto, TypeInv, TypeOK, taskVars, pastVars
  <2>2. current = NoConn /\ Conn(k) \in Used(k) /\ Conn(k) \in Made
    BY <1>0, <2>1 DEF GuardKept, OnClient
  <2>3. \A j \in Callers : Used(j)' = Used(j) /\ Conn(j)' = Conn(j)
    BY <2>1, AllKeep
  <2>4. \A c \in Conns : ~Held(c) => ~Held(c)'
    <3>1. \A c \in Conns : ~Held(c) => \A j \in Callers : c \notin Used(j)
      BY DEF Held, Used
    <3>2. \A c \in Conns : ~Held(c) => current' # c /\ \A j \in Callers : c \notin Used(j)'
      BY <2>1, <2>2, <2>3, <3>1
    <3>3. QED
      BY <3>2 DEF Held, Used
  <2>5. EndedUnheld' /\ SawLoss'
    BY <2>1, <2>3, <2>4 DEF EndedUnheld, SawLoss
  <2>6. LiveIsCached' /\ subscribed' \subseteq Made'
    BY <1>0, <2>1, <2>2 DEF LiveIsCached, Made
  <2>7. QED
    BY <2>5, <2>6
<1>3. CASE AuthFails(k)
  <2>1. /\ at[k] = "auth" /\ at' = [at EXCEPT ![k] = "failed"]
        /\ clients' = [clients EXCEPT ![k] = <<>>]
        /\ UNCHANGED <<current, opened, taskVars, resets>>
    BY <1>3 DEF AuthFails, Finish, Goto
  <2>2. (late => late') /\ subscribed' \subseteq subscribed \cup {Conn(k)}
        /\ (Conn(k) \in subscribed' \ subscribed => ~connected[Conn(k)] \/ late')
    <3>1. CASE UNCHANGED <<subscribed, late>>
      BY <3>1
    <3>2. CASE /\ subscribed' = subscribed \cup {Conn(k)}
               /\ late' = (late \/ connected[Conn(k)])
      BY <3>2
    <3>3. QED
      BY <1>3, <3>1, <3>2 DEF AuthFails
  <2>3. QED
    BY <1>0, <2>1, <2>2, CacheQuiet DEF OnClient
<1>4. CASE Check(k)
  <2>1. /\ at' = [at EXCEPT ![k] = IF connected[Conn(k)] THEN "insert" ELSE "retry"]
        /\ UNCHANGED <<clients, current, opened, taskVars, resets, subscribed, late>>
    BY <1>4 DEF Check, Goto, daemonVars, pastVars
  <2>2. QED
    BY <2>1, CacheQuiet
<1>5. CASE SendClosed(k)
  <2>1. /\ at[k] = "send" /\ at' = [at EXCEPT ![k] = "retry"] /\ writer[Conn(k)] = "stopped"
        /\ UNCHANGED <<clients, current, opened, taskVars, resets, subscribed, late>>
    BY <1>5 DEF SendClosed, Goto, daemonVars, pastVars
  <2>2. Conn(k) \in Conns /\ Held(Conn(k))
    BY <1>0, <2>1 DEF OnClient, Held, Used
  <2>3. ~connected[Conn(k)]
    BY <2>1, <2>2 DEF EndedUnheld
  <2>4. QED
    BY <2>1, <2>3, CacheQuiet
<1>6. CASE TimeOut(k)
  <2>1. /\ at[k] \in {"send", "wait"} /\ at' = [at EXCEPT ![k] = "giveUp"]
        /\ late' = (late \/ connected[Conn(k)])
        /\ UNCHANGED <<clients, current, opened, taskVars, resets, subscribed>>
    BY <1>6 DEF TimeOut, Goto, daemonVars
  <2>2. QED
    BY <2>1, CacheQuiet
<1>7. CASE Retry(k) \/ GiveUp(k)
  <2>1. /\ at[k] \in {"retry", "giveUp"} /\ current' = Cleared(k)
        /\ UNCHANGED <<opened, taskVars, resets, subscribed, late>>
    BY <1>7 DEF Retry, GiveUp, daemonVars, pastVars
  <2>2. PICK x \in {"ensure", "failed"} : at' = [at EXCEPT ![k] = x]
    BY <1>7 DEF Retry, GiveUp, Finish, Goto
  <2>3. UNCHANGED clients \/ clients' = [clients EXCEPT ![k] = <<>>]
    BY <1>7 DEF Retry, GiveUp, Finish
  <2>4. late \/ ~connected[Conn(k)]
    BY <2>1 DEF SawLoss
  <2>5. current' = current \/ (current' = NoConn /\ (late' \/ ~connected[current]))
    BY <2>1, <2>4 DEF Cleared
  <2>6. QED
    BY <2>1, <2>2, <2>3, <2>5, CacheQuiet
<1>8. CASE ConnectFails(k) \/ Return(k)
  <2>1. /\ clients' = [clients EXCEPT ![k] = <<>>]
        /\ UNCHANGED <<current, opened, taskVars, resets, subscribed, late>>
    BY <1>8 DEF ConnectFails, Return, Finish, daemonVars, pastVars
  <2>2. PICK x \in Done : at' = [at EXCEPT ![k] = x]
    BY <1>8 DEF ConnectFails, Return, Finish, Goto, Done
  <2>3. QED
    BY <2>1, <2>2, CacheQuiet DEF Done
<1>9. CASE Begin(k) \/ Insert(k) \/ Send(k)
  <2>1. UNCHANGED <<clients, current, opened, taskVars, resets, subscribed, late>>
    BY <1>9 DEF Begin, Insert, Send, daemonVars, pastVars
  <2>2. PICK x \in {"ensure", "send", "wait"} : at' = [at EXCEPT ![k] = x]
    BY <1>9 DEF Begin, Insert, Send, Goto
  <2>3. QED
    BY <2>1, <2>2, CacheQuiet
<1>10. QED
  BY <1>1, <1>2, <1>3, <1>4, <1>5, <1>6, <1>7, <1>8, <1>9 DEF CallStep

\* The tasks only lower the flag, and a writer ends alone if nobody holds it.
LEMMA CacheTask ==
  ASSUME CacheInv, NEW c \in Conns,
         \/ WriterStep(c) \/ ReaderStep(c)
         \/ LinkBreaks(c) \/ DaemonCloses(c) \/ Execute(c)
  PROVE  subscribed' \subseteq Made' /\ EndedUnheld' /\ SawLoss' /\ LiveIsCached'
<1> USE DEF CacheInv, CallsInv
<1>1. UNCHANGED <<current, guard, at, clients, opened, subscribed, resets, timely, late>>
  BY TasksLeaveCalls
<1>2. \A d \in Conns : connected'[d] => connected[d]
  BY DEF WriterStep, ReaderStep, WriterWrites, WriterLoses, WriterFails, WriterEnds,
         WriterDrains, WriterCloses, ReaderAnswers, ReaderEnds, ReaderDrains, LinkBreaks,
         DaemonCloses, Execute, taskVars, TypeInv, TypeOK, Drained
<1>3. \A d \in Conns : Held(d)' = Held(d)
  BY <1>1 DEF Held
<1>4. \A k \in Callers : Conn(k)' = Conn(k) /\ (at[k] \in OnClient => Conn(k) \in Conns)
  BY <1>1, AllKeep, ConnOK
<1>5. SawLoss'
  BY <1>1, <1>2, <1>4 DEF SawLoss, OnClient
<1>6. LiveIsCached' /\ subscribed' \subseteq Made'
  BY <1>1, <1>2 DEF LiveIsCached, Made, TypeInv, TypeOK
<1>7. EndedUnheld'
  <2>1. CASE WriterEnds(c)
    BY <1>2, <1>3, <2>1 DEF WriterEnds, EndedUnheld, TypeInv, TypeOK
  <2>2. CASE WriterCloses(c)
    <3>1. ~connected[c]
      BY <2>2, MadeConns DEF WriterCloses, TasksInv, Sound, Absent
    <3>2. QED
      BY <1>2, <1>3, <2>2, <3>1 DEF WriterCloses, EndedUnheld, TypeInv, TypeOK
  <2>3. CASE ~(WriterEnds(c) \/ WriterCloses(c))
    <3>1. \A d \in Conns : writer'[d] = "stopped" => writer[d] = "stopped"
      BY <2>3 DEF WriterStep, ReaderStep, WriterWrites, WriterLoses, WriterFails, WriterDrains,
                  ReaderAnswers, ReaderEnds, ReaderDrains, LinkBreaks, DaemonCloses, Execute,
                  taskVars, TypeInv, TypeOK, Drained, Swapped
    <3>2. QED
      BY <1>2, <1>3, <3>1 DEF EndedUnheld
  <2>4. QED
    BY <2>1, <2>2, <2>3
<1>8. QED
  BY <1>5, <1>6, <1>7

LEMMA CacheInit == Init => CacheInv
<1> SUFFICES ASSUME Init PROVE CacheInv
  OBVIOUS
<1>1. EndedUnheld /\ SawLoss /\ LiveIsCached /\ subscribed \subseteq Made
  BY DEF Init, EndedUnheld, SawLoss, LiveIsCached
<1>2. QED
  BY <1>1, CallsInit, TasksInit DEF CacheInv

LEMMA CacheNext == CacheInv /\ [Next]_vars => CacheInv'
<1> SUFFICES ASSUME CacheInv, [Next]_vars PROVE CacheInv'
  OBVIOUS
<1>1. CallsInv' /\ TasksInv'
  BY CallsNext, TasksNext DEF CacheInv, CallsInv
<1>2. CASE ResetBackend
  <2>1. /\ current' = NoConn /\ resets' = resets + 1
        /\ UNCHANGED <<at, clients, opened, connected, writer, subscribed, late>>
    BY <1>2 DEF ResetBackend, callVars, taskVars, daemonVars, pastVars
  <2>2. NoConn \notin Conns /\ resets \in Nat
    BY RemoteAssumption DEF CacheInv, CallsInv, TypeInv, TypeOK
  <2>3. EndedUnheld' /\ SawLoss'
    BY <2>1, <2>2, AllKeep DEF CacheInv, EndedUnheld, SawLoss, Held
  <2>4. LiveIsCached' /\ subscribed' \subseteq Made'
    BY <2>1, <2>2 DEF CacheInv, LiveIsCached, Made
  <2>5. QED
    BY <1>1, <2>3, <2>4 DEF CacheInv
<1>3. CASE UNCHANGED vars
  BY <1>1, <1>3 DEF vars, callVars, taskVars, daemonVars, pastVars, CacheInv, EndedUnheld,
                    SawLoss, LiveIsCached, Held, Conn, Made
<1>4. QED
  BY <1>1, <1>2, <1>3, CacheStep, CacheTask DEF CacheInv, Next

\* The daemon's events reach the frontend over one connection at a time, as long
\* as no live connection is given up and the settings stay as they are.
THEOREM OneTransportAtATime == Spec => []OneTransport
<1>1. CacheInv => OneTransport
  BY DEF CacheInv, LiveIsCached, OneTransport
<1>2. QED
  BY <1>1, CacheInit, CacheNext, PTL DEF Spec

\* Until then a failed call clears the cached client only if its connection is
\* lost, and never the client that replaced it.
THEOREM DeadClientsCleared == Spec => OnlyDeadCleared
<1>1. CacheInv /\ [Next]_vars =>
        [current # NoConn /\ current' # current /\ resets' = resets /\ ~late
           => ~connected[current]]_vars
  <2> SUFFICES ASSUME CacheInv, Next, current # NoConn, current' # current,
                      resets' = resets, ~late
               PROVE  ~connected[current]
    BY DEF vars
  <2>1. ~ResetBackend
    BY RemoteAssumption DEF ResetBackend, CacheInv, CallsInv, TypeInv, TypeOK
  <2>2. PICK k \in Callers : Begin(k) \/ CallStep(k)
    BY <2>1, TasksLeaveCalls DEF Next
  <2>3. ~Authenticated(k)
    BY DEF Authenticated, CacheInv, CallsInv, GuardKept
  <2>4. Retry(k) \/ GiveUp(k)
    BY <2>2, <2>3 DEF Begin, CallStep, Ensure, ConnectFails, Connect, AuthFails, Check, Insert,
                      Send, SendClosed, TimeOut, Return
  <2>5. current = Conn(k) /\ at[k] \in {"retry", "giveUp"}
    BY <2>4 DEF Retry, GiveUp, Cleared
  <2>6. QED
    BY <2>5 DEF CacheInv, SawLoss
<1>2. QED
  BY <1>1, CacheInit, CacheNext, PTL DEF Spec, OnlyDeadCleared

-----------------------------------------------------------------------------
(* Where a request is: not sent yet, in one channel, with the daemon over one *)
(* connection, or executed; a write to a lost connection drops it.           *)

Waiting(c) == ToSet(queue[c])

Distinct(q) == \A i, j \in DOMAIN q : q[i] = q[j] => i = j

LEMMA Queued ==
  ASSUME NEW S, NEW q \in Seq(S), NEW k \in S, k \notin ToSet(q), Distinct(q)
  PROVE  ToSet(Append(q, k)) = ToSet(q) \cup {k} /\ Distinct(Append(q, k))
<1> DEFINE a == Append(q, k)
<1>1. /\ DOMAIN q = 1 .. Len(q) /\ DOMAIN a = 1 .. Len(q) + 1 /\ Len(q) \in Nat
      /\ \A i \in 1 .. Len(q) : a[i] = q[i]
      /\ a[Len(q) + 1] = k
  OBVIOUS
<1> HIDE DEF a
<1>2. \A i \in 1 .. Len(q) : q[i] # k
  BY <1>1 DEF ToSet
<1>3. Distinct(a)
  BY <1>1, <1>2 DEF Distinct
<1>4. QED
  BY <1>3, Taken DEF a

LEMMA Sent ==
  ASSUME NEW S, NEW q \in Seq(S), q # <<>>, Distinct(q)
  PROVE  /\ Head(q) \in ToSet(q) /\ ToSet(Tail(q)) = ToSet(q) \ {Head(q)}
         /\ Distinct(Tail(q))
<1> DEFINE t == Tail(q)
<1>1. /\ DOMAIN q = 1 .. Len(q) /\ DOMAIN t = 1 .. Len(q) - 1 /\ Len(q) \in Nat \ {0}
      /\ \A i \in 1 .. Len(q) - 1 : t[i] = q[i + 1]
      /\ Head(q) = q[1]
  OBVIOUS
<1> HIDE DEF t
<1>2. Distinct(t)
  BY <1>1 DEF Distinct
<1>3. ToSet(t) \subseteq ToSet(q) \ {Head(q)}
  BY <1>1 DEF Distinct, ToSet
<1>4. ASSUME NEW x \in ToSet(q) \ {Head(q)} PROVE x \in ToSet(t)
  <2>1. PICK i \in 1 .. Len(q) : q[i] = x
    BY <1>1, <1>4 DEF ToSet
  <2>2. i # 1 /\ i - 1 \in 1 .. Len(q) - 1 /\ t[i - 1] = x
    BY <1>1, <1>4, <2>1
  <2>3. QED
    BY <1>1, <2>2 DEF ToSet
<1>5. Head(q) \in ToSet(q)
  BY <1>1 DEF ToSet
<1>6. QED
  BY <1>2, <1>3, <1>4, <1>5 DEF t

Early == {"idle", "ensure", "connect", "auth", "check", "insert", "send", "retry"}

Nowhere(k) == executed[k] = 0 /\ \A c \in Conns : k \notin Waiting(c) /\ k \notin inbox[c]

InOnePlace(k) ==
  /\ executed[k] \in {0, 1}
  /\ \A c \in Conns :
       /\ k \in Waiting(c) \cup inbox[c] => executed[k] = 0
       /\ k \in Waiting(c) => \A d \in Conns : k \notin inbox[d]
       /\ \A d \in Conns \ {c} :
            /\ k \in Waiting(c) => k \notin Waiting(d)
            /\ k \in inbox[c] => k \notin inbox[d]

SentInv ==
  /\ TypeInv
  /\ \A c \in Conns : Distinct(queue[c])
  /\ \A k \in Callers : InOnePlace(k) /\ (at[k] \in Early => Nowhere(k))

\* Requests that no step moves stay where they are, or are dropped.
LEMMA SentKeeps ==
  ASSUME SentInv, TypeInv', NEW k \in Callers,
         executed'[k] = executed[k],
         \A c \in Conns : /\ (k \in Waiting(c)' => k \in Waiting(c))
                          /\ (k \in inbox'[c] => k \in inbox[c]),
         at'[k] \in Early => at[k] \in Early
  PROVE  InOnePlace(k)' /\ (at'[k] \in Early => Nowhere(k)')
BY DEF SentInv, InOnePlace, Nowhere

LEMMA SentCall ==
  ASSUME SentInv, TypeInv', NEW k \in Callers, Begin(k) \/ CallStep(k)
  PROVE  SentInv'
<1>0. at \in [Callers -> Steps]
  BY DEF SentInv, TypeInv, TypeOK
<1>1. CASE Send(k)
  <2>1. /\ at[k] = "send" /\ at'[k] = "wait" /\ (\A j \in Callers \ {k} : at'[j] = at[j])
        /\ Conn(k) \in Conns
        /\ queue' = [queue EXCEPT ![Conn(k)] = Append(@, k)]
        /\ UNCHANGED <<inbox, executed>> /\ queue \in [Conns -> Seq(Callers)]
    BY <1>1, ConnOK DEF Send, Goto, daemonVars, SentInv, TypeInv, TypeOK, OnClient
  <2>2. PICK c \in Conns : c = Conn(k)
    BY <2>1
  <2>3. Nowhere(k)
    BY <2>1 DEF SentInv, Early
  <2>4. queue'[c] = Append(queue[c], k) /\ \A d \in Conns \ {c} : queue'[d] = queue[d]
    BY <2>1, <2>2
  <2>5. queue[c] \in Seq(Callers) /\ k \notin ToSet(queue[c]) /\ Distinct(queue[c])
    BY <2>1, <2>3 DEF Nowhere, Waiting, SentInv
  <2>6. Waiting(c)' = Waiting(c) \cup {k} /\ Distinct(queue'[c])
    BY <2>4, <2>5, Queued DEF Waiting
  <2>7. \A d \in Conns \ {c} : Waiting(d)' = Waiting(d)
    BY <2>4 DEF Waiting
  <2>8. \A d \in Conns : Distinct(queue'[d])
    BY <2>4, <2>6 DEF SentInv
  <2>9. \A j \in Callers \ {k} : InOnePlace(j)' /\ (at'[j] \in Early => Nowhere(j)')
    BY <2>1, <2>6, <2>7, SentKeeps
  <2>10. InOnePlace(k)'
    BY <2>1, <2>3, <2>6, <2>7 DEF InOnePlace, Nowhere
  <2>11. QED
    BY <2>1, <2>8, <2>9, <2>10 DEF SentInv, Early
<1>2. CASE ~Send(k)
  <2>1. UNCHANGED <<queue, inbox, executed>> /\ \A j \in Callers \ {k} : at'[j] = at[j]
    BY <1>0, <1>2
       DEF Begin, CallStep, Ensure, ConnectFails, Connect, Authenticated, AuthFails, Check,
           Insert, SendClosed, TimeOut, Return, Retry, GiveUp, Finish, Goto, daemonVars
  <2>2. at'[k] \in Early => at[k] \in Early
    BY <1>0, <1>2
       DEF Begin, CallStep, Ensure, ConnectFails, Connect, Authenticated, AuthFails, Check,
           Insert, SendClosed, TimeOut, Return, Retry, GiveUp, Finish, Goto, Early
  <2>3. \A j \in Callers : InOnePlace(j)' /\ (at'[j] \in Early => Nowhere(j)')
    BY <2>1, <2>2, SentKeeps DEF Waiting
  <2>4. QED
    BY <2>1, <2>3 DEF SentInv
<1>3. QED
  BY <1>1, <1>2

LEMMA SentTask ==
  ASSUME SentInv, TypeInv', NEW c \in Conns,
         \/ WriterStep(c) \/ ReaderStep(c)
         \/ LinkBreaks(c) \/ DaemonCloses(c) \/ Execute(c)
  PROVE  SentInv'
<1>0. /\ UNCHANGED at /\ queue \in [Conns -> Seq(Callers)] /\ inbox \in [Conns -> SUBSET Callers]
      /\ executed \in [Callers -> Nat]
  BY TasksLeaveCalls DEF SentInv, TypeInv, TypeOK
<1>1. CASE WriterWrites(c) \/ WriterLoses(c) \/ WriterFails(c)
  <2>1. /\ queue[c] # <<>> /\ queue' = [queue EXCEPT ![c] = Tail(@)] /\ UNCHANGED executed
        /\ \/ inbox' = [inbox EXCEPT ![c] = @ \cup {Head(queue[c])}]
           \/ UNCHANGED inbox
    BY <1>1 DEF WriterWrites, WriterLoses, WriterFails, daemonVars
  <2>2. PICK k \in Callers : k = Head(queue[c])
    BY <2>1, Dequeued DEF SentInv
  <2>3. queue[c] \in Seq(Callers) /\ Distinct(queue[c])
    BY <1>0 DEF SentInv
  <2>4. k \in Waiting(c) /\ Distinct(queue'[c]) /\ Waiting(c)' = Waiting(c) \ {k}
    BY <1>0, <2>1, <2>2, <2>3, Sent DEF Waiting
  <2>5. \A d \in Conns \ {c} : queue'[d] = queue[d] /\ Waiting(d)' = Waiting(d)
    BY <1>0, <2>1 DEF Waiting
  <2>6. \A d \in Conns : Distinct(queue'[d])
    BY <2>4, <2>5 DEF SentInv
  <2>7. \A d \in Conns : inbox'[d] \subseteq inbox[d] \cup (IF d = c THEN {k} ELSE {})
    BY <1>0, <2>1, <2>2
  <2>8. \A j \in Callers \ {k} : InOnePlace(j)' /\ (at'[j] \in Early => Nowhere(j)')
    BY <1>0, <2>1, <2>4, <2>5, <2>7, SentKeeps
  <2>9. at[k] \notin Early
    BY <2>4 DEF SentInv, Nowhere
  <2>10. InOnePlace(k)'
    <3>1. InOnePlace(k)
      BY DEF SentInv
    <3>2. executed[k] = 0 /\ \A d \in Conns : k \notin inbox[d] /\ (d # c => k \notin Waiting(d))
      <4>1. executed[k] = 0
        BY <2>4, <3>1 DEF InOnePlace
      <4>2. \A d \in Conns : k \notin inbox[d]
        BY <2>4, <3>1 DEF InOnePlace
      <4>3. \A d \in Conns \ {c} : k \notin Waiting(d)
        BY <2>4, <3>1 DEF InOnePlace
      <4>4. QED
        BY <4>1, <4>2, <4>3
    <3>3. \A d \in Conns : k \notin Waiting(d)' /\ (d # c => k \notin inbox'[d])
      BY <2>4, <2>5, <2>7, <3>2
    <3>4. QED
      BY <2>1, <3>2, <3>3 DEF InOnePlace
  <2>11. QED
    BY <1>0, <2>6, <2>8, <2>9, <2>10 DEF SentInv
<1>2. CASE Execute(c)
  <2>1. PICK k \in inbox[c] : /\ inbox' = [inbox EXCEPT ![c] = @ \ {k}]
                              /\ executed' = [executed EXCEPT ![k] = @ + 1]
    BY <1>2 DEF Execute
  <2>2. k \in Callers /\ UNCHANGED queue
    BY <1>0, <1>2 DEF Execute
  <2>3. \A d \in Conns : Waiting(d)' = Waiting(d)
    BY <2>2 DEF Waiting
  <2>4. \A j \in Callers \ {k} : InOnePlace(j)' /\ (at'[j] \in Early => Nowhere(j)')
    BY <1>0, <2>1, <2>2, <2>3, SentKeeps
  <2>5. executed[k] = 0 /\ \A d \in Conns : k \notin Waiting(d) /\ (d # c => k \notin inbox[d])
    BY <2>2 DEF SentInv, InOnePlace
  <2>6. executed'[k] = 1 /\ \A d \in Conns : k \notin inbox'[d]
    BY <1>0, <2>1, <2>2, <2>5
  <2>7. InOnePlace(k)'
    BY <2>3, <2>5, <2>6 DEF InOnePlace
  <2>8. at[k] \notin Early
    BY <2>2 DEF SentInv, Nowhere
  <2>9. QED
    BY <1>0, <2>2, <2>4, <2>7, <2>8 DEF SentInv
<1>3. CASE WriterCloses(c)
  <2>1. queue' = [queue EXCEPT ![c] = <<>>] /\ UNCHANGED <<inbox, executed>>
    BY <1>3 DEF WriterCloses, daemonVars
  <2>2. queue'[c] = <<>> /\ \A d \in Conns \ {c} : queue'[d] = queue[d]
    BY <1>0, <2>1
  <2>3. Waiting(c)' = {} /\ \A d \in Conns \ {c} : Waiting(d)' = Waiting(d)
    BY <2>2, NoneUsed DEF Waiting
  <2>4. \A d \in Conns : Distinct(queue'[d])
    BY <2>2 DEF SentInv, Distinct
  <2>5. \A j \in Callers : InOnePlace(j)' /\ (at'[j] \in Early => Nowhere(j)')
    BY <1>0, <2>1, <2>3, SentKeeps
  <2>6. QED
    BY <2>4, <2>5 DEF SentInv
<1>4. CASE UNCHANGED <<queue, inbox, executed>>
  <2>1. \A j \in Callers : InOnePlace(j)' /\ (at'[j] \in Early => Nowhere(j)')
    BY <1>0, <1>4, SentKeeps DEF Waiting
  <2>2. QED
    BY <1>4, <2>1 DEF SentInv
<1>5. QED
  BY <1>1, <1>2, <1>3, <1>4
     DEF WriterStep, ReaderStep, WriterEnds, WriterDrains, ReaderAnswers, ReaderEnds,
         ReaderDrains, LinkBreaks, DaemonCloses, daemonVars

LEMMA SentInit == Init => SentInv
<1> SUFFICES ASSUME Init PROVE SentInv
  OBVIOUS
<1>1. \A c \in Conns : Waiting(c) = {} /\ inbox[c] = {} /\ Distinct(queue[c])
  BY NoneUsed DEF Init, Waiting, Distinct
<1>2. \A k \in Callers : executed[k] = 0
  BY DEF Init
<1>3. QED
  BY <1>1, <1>2, TypeInit DEF SentInv, InOnePlace, Nowhere

LEMMA SentNext == SentInv /\ [Next]_vars => SentInv'
<1> SUFFICES ASSUME SentInv, [Next]_vars PROVE SentInv'
  OBVIOUS
<1>1. TypeInv'
  BY TypeNext DEF SentInv
<1>2. CASE ResetBackend \/ UNCHANGED vars
  <2>1. UNCHANGED <<at, queue, inbox, executed>>
    BY <1>2 DEF ResetBackend, vars, callVars, daemonVars
  <2>2. \A j \in Callers : InOnePlace(j)' /\ (at'[j] \in Early => Nowhere(j)')
    BY <1>1, <2>1, SentKeeps DEF Waiting
  <2>3. QED
    BY <1>1, <2>1, <2>2 DEF SentInv
<1>3. QED
  BY <1>1, <1>2, SentCall, SentTask DEF Next

\* Whatever is lost, times out or is retried, the daemon runs a call once at most.
THEOREM CallsRunOnce == Spec => []RunAtMostOnce
<1>1. SentInv => RunAtMostOnce
  BY DEF SentInv, InOnePlace, RunAtMostOnce
<1>2. QED
  BY <1>1, SentInit, SentNext, PTL DEF Spec
=============================================================================
