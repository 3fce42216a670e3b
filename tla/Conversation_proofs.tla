------------------------- MODULE Conversation_proofs -------------------------
(***************************************************************************)
(* Proofs about the two queues of a conversation: the messages waiting to  *)
(* be sent (QueuedSend), for any threads, messages and commands, and the   *)
(* items of a thread (ThreadItems), for any items and reads of them.       *)
(***************************************************************************)
EXTENDS QueuedSend, ThreadItems, RecursionLemmas

(* QueuedSend *)

(* The operations on a queue whose messages are distinct. *)

Distinct(q) == \A i, j \in DOMAIN q : q[i] = q[j] => i = j

\* q is a queue of messages, each of them once.
IsQueue(q) == q \in Seq(Messages) /\ Distinct(q)

\* The new message is at the end.
LEMMA Appended ==
  ASSUME NEW q, IsQueue(q), NEW m \in Messages, m \notin Elements(q)
  PROVE  IsQueue(Append(q, m)) /\ Elements(Append(q, m)) = Elements(q) \cup {m}
<1> DEFINE a == Append(q, m)
<1>1. /\ q \in Seq(Messages) /\ a \in Seq(Messages) /\ Len(a) = Len(q) + 1
      /\ DOMAIN q = 1..Len(q) /\ DOMAIN a = 1..Len(a)
      /\ \A i \in DOMAIN a : a[i] = IF i = Len(a) THEN m ELSE q[i]
  BY DEF IsQueue
<1>2. \A i \in DOMAIN q : q[i] # m
  BY DEF Elements
<1> HIDE DEF a
<1>3. Distinct(a)
  BY <1>1, <1>2 DEF IsQueue, Distinct
<1>4. \A i \in DOMAIN q : a[i] = q[i] /\ i \in DOMAIN a
  BY <1>1
<1>5. a[Len(a)] = m /\ Len(a) \in DOMAIN a
  BY <1>1
<1>6. Elements(a) = Elements(q) \cup {m}
  BY <1>1, <1>4, <1>5 DEF Elements
<1>7. QED
  BY <1>1, <1>3, <1>6 DEF IsQueue, a

\* The new message is at place i, the others move.
LEMMA Inserted ==
  ASSUME NEW q, IsQueue(q), NEW m \in Messages, m \notin Elements(q), NEW i \in 1..(Len(q) + 1)
  PROVE  IsQueue(InsertAt(q, i, m)) /\ Elements(InsertAt(q, i, m)) = Elements(q) \cup {m}
<1> DEFINE a == InsertAt(q, i, m)
<1>1. q \in Seq(Messages) /\ DOMAIN q = 1..Len(q) /\ Len(q) \in Nat
  BY DEF IsQueue
<1>2. /\ a \in Seq(Messages) /\ Len(a) = Len(q) + 1 /\ DOMAIN a = 1..(Len(q) + 1)
      /\ \A j \in DOMAIN a : a[j] = IF j < i THEN q[j] ELSE IF j = i THEN m ELSE q[j - 1]
  <2> DEFINE l == SubSeq(q, 1, i - 1)
             r == SubSeq(q, i, Len(q))
  <2>1. /\ l \in Seq(Messages) /\ Len(l) = i - 1
        /\ \A j \in 1..(i - 1) : l[j] = q[j]
    BY <1>1
  <2>2. /\ r \in Seq(Messages) /\ Len(r) = Len(q) - i + 1
        /\ \A j \in 1..(Len(q) - i + 1) : r[j] = q[i + j - 1]
    BY <1>1
  <2> HIDE DEF l, r
  <2> DEFINE lm == l \o <<m>>
  <2>3. /\ lm \in Seq(Messages) /\ Len(lm) = i
        /\ \A j \in 1..i : lm[j] = IF j < i THEN q[j] ELSE m
    BY <2>1
  <2> HIDE DEF lm
  <2>4. a = lm \o r
    BY DEF InsertAt, lm, l, r
  <2> HIDE DEF a
  <2>5. a \in Seq(Messages) /\ Len(a) = Len(q) + 1
    <3>1. lm \in Seq(Messages) /\ Len(lm) = i /\ r \in Seq(Messages) /\ Len(r) = Len(q) - i + 1
      BY <2>2, <2>3
    <3>2. a \in Seq(Messages) /\ Len(a) = Len(lm) + Len(r)
      BY <2>4, <3>1
    <3>3. QED
      BY <1>1, <3>1, <3>2
  <2>6. \A j \in 1..i : a[j] = lm[j]
    BY <1>1, <2>2, <2>3, <2>4
  <2>7. \A j \in (i + 1)..(Len(q) + 1) : a[j] = r[j - i]
    BY <1>1, <2>2, <2>3, <2>4
  <2>8. \A j \in (i + 1)..(Len(q) + 1) : a[j] = q[j - 1]
    BY <1>1, <2>2, <2>7
  <2>9. QED
    BY <1>1, <2>3, <2>5, <2>6, <2>8
<1>3. \A j \in DOMAIN q : q[j] # m
  BY DEF Elements
<1> HIDE DEF a
<1>4. Distinct(a)
  BY <1>1, <1>2, <1>3 DEF IsQueue, Distinct
<1>5. \A j \in DOMAIN q : \E k \in DOMAIN a : a[k] = q[j]
  <2> TAKE j \in DOMAIN q
  <2>1. CASE j < i
    BY <1>1, <1>2, <2>1
  <2>2. CASE ~(j < i)
    <3>1. j + 1 \in DOMAIN a /\ a[j + 1] = q[j]
      BY <1>1, <1>2, <2>2
    <3>2. QED
      BY <3>1
  <2>3. QED
    BY <2>1, <2>2
<1>6. \A k \in DOMAIN a : a[k] = m \/ \E j \in DOMAIN q : a[k] = q[j]
  <2> TAKE k \in DOMAIN a
  <2>1. CASE k < i
    BY <1>1, <1>2, <2>1
  <2>2. CASE k > i
    <3>1. k - 1 \in DOMAIN q /\ a[k] = q[k - 1]
      BY <1>1, <1>2, <2>2
    <3>2. QED
      BY <3>1
  <2>3. QED
    BY <1>1, <1>2, <2>1, <2>2
<1>7. a[i] = m /\ i \in DOMAIN a
  BY <1>1, <1>2
<1>8. Elements(a) = Elements(q) \cup {m}
  BY <1>5, <1>6, <1>7 DEF Elements
<1>9. QED
  BY <1>2, <1>4, <1>8 DEF IsQueue, a

\* Without place i, what was behind it moves up.
LEMMA RemovedAt ==
  ASSUME NEW q, IsQueue(q), NEW i \in 1..Len(q)
  PROVE  /\ RemoveAt(q, i) \in Seq(Messages) /\ Len(RemoveAt(q, i)) = Len(q) - 1
         /\ DOMAIN RemoveAt(q, i) = 1..(Len(q) - 1)
         /\ \A j \in DOMAIN RemoveAt(q, i) : RemoveAt(q, i)[j] = IF j < i THEN q[j] ELSE q[j + 1]
<1> DEFINE a == RemoveAt(q, i)
           l == SubSeq(q, 1, i - 1)
           r == SubSeq(q, i + 1, Len(q))
<1>1. q \in Seq(Messages) /\ DOMAIN q = 1..Len(q) /\ Len(q) \in Nat
  BY DEF IsQueue
<1>2. l \in Seq(Messages) /\ Len(l) = i - 1 /\ \A j \in 1..(i - 1) : l[j] = q[j]
  BY <1>1
<1>3. r \in Seq(Messages) /\ Len(r) = Len(q) - i /\ \A j \in 1..(Len(q) - i) : r[j] = q[i + j]
  <2>1. \A j \in (i + 1)..Len(q) : q[j] \in Messages
    BY <1>1
  <2>2. r = [j \in 1..(Len(q) - i) |-> q[i + j]]
    BY <1>1
  <2> DEFINE n == Len(q) - i
  <2>3. n \in Nat /\ \A j \in 1..n : i + j \in (i + 1)..Len(q)
    BY <1>1
  <2> HIDE DEF r
  <2>4. r = [j \in 1..n |-> q[i + j]]
    BY <2>2
  <2> HIDE DEF n
  <2>5. r \in [1..n -> Messages]
    BY <2>1, <2>3, <2>4
  <2>6. r \in Seq(Messages) /\ Len(r) = n
    BY <2>3, <2>5
  <2>7. QED
    BY <2>4, <2>6 DEF n
<1>4. a = l \o r
  BY DEF RemoveAt
<1> HIDE DEF l, r, a
<1>5. a \in Seq(Messages) /\ Len(a) = Len(q) - 1
  <2>1. l \in Seq(Messages) /\ r \in Seq(Messages)
    BY <1>2, <1>3
  <2>2. l \o r \in Seq(Messages) /\ Len(l \o r) = Len(l) + Len(r)
    BY <2>1
  <2>3. (i - 1) + (Len(q) - i) = Len(q) - 1
    BY <1>1
  <2>4. QED
    BY <1>2, <1>3, <1>4, <2>2, <2>3
<1>6. \A j \in 1..(i - 1) : a[j] = q[j]
  BY <1>1, <1>2, <1>3, <1>4
<1>7. \A j \in i..(Len(q) - 1) : a[j] = r[j - i + 1]
  BY <1>1, <1>2, <1>3, <1>4
<1>8. \A j \in i..(Len(q) - 1) : a[j] = q[j + 1]
  <2> TAKE j \in i..(Len(q) - 1)
  <2>1. j - i + 1 \in 1..(Len(q) - i) /\ i + (j - i + 1) = j + 1
    BY <1>1
  <2>2. QED
    BY <1>3, <1>7, <2>1
<1>9. DOMAIN a = 1..(Len(q) - 1)
  BY <1>5
<1>10. \A j \in DOMAIN a : a[j] = IF j < i THEN q[j] ELSE q[j + 1]
  BY <1>1, <1>6, <1>8, <1>9
<1>11. QED
  BY <1>5, <1>9, <1>10 DEF a

\* The message is gone, the others are there.
LEMMA Removed ==
  ASSUME NEW q, IsQueue(q), NEW m \in Messages
  PROVE  IsQueue(Without(q, m)) /\ Elements(Without(q, m)) = Elements(q) \ {m}
<1>1. CASE m \notin Elements(q)
  BY <1>1 DEF Without
<1>2. CASE m \in Elements(q)
  <2>1. q \in Seq(Messages) /\ DOMAIN q = 1..Len(q) /\ Len(q) \in Nat
    BY DEF IsQueue
  <2>2. PICK i \in 1..Len(q) : i = Index(q, m) /\ i \in DOMAIN q /\ q[i] = m
    BY <1>2, <2>1 DEF Index, Elements
  <2> DEFINE a == RemoveAt(q, i)
  <2>3. /\ a \in Seq(Messages) /\ Len(a) = Len(q) - 1 /\ DOMAIN a = 1..(Len(q) - 1)
        /\ \A j \in DOMAIN a : a[j] = IF j < i THEN q[j] ELSE q[j + 1]
    BY RemovedAt
  <2> HIDE DEF a
  <2>4. Distinct(a)
    BY <2>1, <2>2, <2>3 DEF IsQueue, Distinct
  <2>5. \A k \in DOMAIN a : \E j \in DOMAIN q : j # i /\ a[k] = q[j]
    <3> TAKE k \in DOMAIN a
    <3>1. CASE k < i
      BY <2>1, <2>2, <2>3, <3>1
    <3>2. CASE ~(k < i)
      <4>1. k + 1 \in DOMAIN q /\ k + 1 # i /\ a[k] = q[k + 1]
        BY <2>1, <2>2, <2>3, <3>2
      <4>2. QED
        BY <4>1
    <3>3. QED
      BY <3>1, <3>2
  <2>6. \A j \in DOMAIN q : j # i => \E k \in DOMAIN a : a[k] = q[j]
    <3> SUFFICES ASSUME NEW j \in DOMAIN q, j # i PROVE \E k \in DOMAIN a : a[k] = q[j]
      OBVIOUS
    <3>1. CASE j < i
      BY <2>1, <2>2, <2>3, <3>1
    <3>2. CASE j > i
      <4>1. j - 1 \in DOMAIN a /\ a[j - 1] = q[j]
        BY <2>1, <2>2, <2>3, <3>2
      <4>2. QED
        BY <4>1
    <3>3. QED
      BY <2>1, <2>2, <3>1, <3>2
  <2>7. \A j \in DOMAIN q : q[j] = m <=> j = i
    BY <2>2 DEF IsQueue, Distinct
  <2>8. Elements(a) = Elements(q) \ {m}
    BY <2>5, <2>6, <2>7 DEF Elements
  <2>9. QED
    BY <1>2, <2>2, <2>3, <2>4, <2>8 DEF Without, IsQueue, a
<1>3. QED
  BY <1>1, <1>2

\* The first message is gone, the others are there.
LEMMA Shortened ==
  ASSUME NEW q, IsQueue(q), q # <<>>
  PROVE  /\ IsQueue(Tail(q)) /\ Elements(Tail(q)) = Elements(q) \ {Head(q)}
         /\ Head(q) \in Elements(q) /\ Head(q) \in Messages
<1> DEFINE a == Tail(q)
<1>1. /\ q \in Seq(Messages) /\ DOMAIN q = 1..Len(q) /\ Len(q) \in Nat \ {0}
      /\ a \in Seq(Messages) /\ DOMAIN a = 1..(Len(q) - 1)
      /\ \A j \in DOMAIN a : a[j] = q[j + 1]
      /\ Head(q) = q[1]
  BY DEF IsQueue
<1> HIDE DEF a
<1>2. Distinct(a)
  BY <1>1 DEF IsQueue, Distinct
<1>3. \A k \in DOMAIN a : \E j \in DOMAIN q : j # 1 /\ a[k] = q[j]
  <2> TAKE k \in DOMAIN a
  <2>1. k + 1 \in DOMAIN q /\ k + 1 # 1 /\ a[k] = q[k + 1]
    BY <1>1
  <2>2. QED
    BY <2>1
<1>4. \A j \in DOMAIN q : j # 1 => \E k \in DOMAIN a : a[k] = q[j]
  <2> SUFFICES ASSUME NEW j \in DOMAIN q, j # 1 PROVE \E k \in DOMAIN a : a[k] = q[j]
    OBVIOUS
  <2>1. j - 1 \in DOMAIN a /\ a[j - 1] = q[j]
    BY <1>1
  <2>2. QED
    BY <2>1
<1>5. 1 \in DOMAIN q /\ \A j \in DOMAIN q : q[j] = q[1] <=> j = 1
  BY <1>1 DEF IsQueue, Distinct
<1>6. Elements(a) = Elements(q) \ {q[1]} /\ q[1] \in Elements(q) /\ q[1] \in Messages
  BY <1>1, <1>3, <1>4, <1>5 DEF Elements
<1>7. QED
  BY <1>1, <1>2, <1>6 DEF IsQueue, a

\* The message is first again.
LEMMA Prepended ==
  ASSUME NEW q, IsQueue(q), NEW m \in Messages, m \notin Elements(q)
  PROVE  IsQueue(<<m>> \o q) /\ Elements(<<m>> \o q) = Elements(q) \cup {m}
<1> DEFINE a == <<m>> \o q
<1>1. /\ q \in Seq(Messages) /\ DOMAIN q = 1..Len(q) /\ Len(q) \in Nat
      /\ a \in Seq(Messages) /\ DOMAIN a = 1..(Len(q) + 1)
      /\ \A j \in DOMAIN a : a[j] = IF j = 1 THEN m ELSE q[j - 1]
  BY DEF IsQueue
<1> HIDE DEF a
<1>2. \A j \in DOMAIN q : q[j] # m
  BY DEF Elements
<1>3. Distinct(a)
  BY <1>1, <1>2 DEF IsQueue, Distinct
<1>4. \A k \in DOMAIN a : a[k] = m \/ \E j \in DOMAIN q : a[k] = q[j]
  <2> TAKE k \in DOMAIN a
  <2>1. k # 1 => k - 1 \in DOMAIN q /\ a[k] = q[k - 1]
    BY <1>1
  <2>2. QED
    BY <1>1, <2>1
<1>5. \A j \in DOMAIN q : \E k \in DOMAIN a : a[k] = q[j]
  <2> TAKE j \in DOMAIN q
  <2>1. j + 1 \in DOMAIN a /\ a[j + 1] = q[j]
    BY <1>1
  <2>2. QED
    BY <2>1
<1>6. 1 \in DOMAIN a /\ a[1] = m
  BY <1>1
<1>7. Elements(a) = Elements(q) \cup {m}
  BY <1>4, <1>5, <1>6 DEF Elements
<1>8. QED
  BY <1>1, <1>3, <1>7 DEF IsQueue, a

\* restoreQueuedMessage: as an insertion, unless the message is there.
LEMMA PutBackInPlace ==
  ASSUME NEW q, IsQueue(q), NEW m \in Messages, m \notin Elements(q), NEW i \in Nat \ {0}
  PROVE  IsQueue(Restored(q, m, i)) /\ Elements(Restored(q, m, i)) = Elements(q) \cup {m}
<1> DEFINE n == IF i <= Len(q) THEN i ELSE Len(q) + 1
<1>1. n \in 1..(Len(q) + 1)
  BY DEF IsQueue
<1>2. Restored(q, m, i) = InsertAt(q, n, m)
  BY DEF Restored
<1> HIDE DEF n
<1>3. QED
  BY <1>1, <1>2, Inserted

\* What slice(1) leaves, and what it takes.
LEMMA Slices ==
  ASSUME NEW q, IsQueue(q)
  PROVE  /\ IsQueue(Slice(q)) /\ Elements(Slice(q)) = Elements(q) \ Sliced(q)
         /\ Sliced(q) \subseteq Elements(q) /\ Elements(q) \subseteq Messages
         /\ \A m, n \in Sliced(q) : m = n
<1>1. q \in Seq(Messages) /\ Elements(q) \subseteq Messages
  BY DEF IsQueue, Elements
<1>2. CASE q = <<>>
  BY <1>1, <1>2 DEF Slice, Sliced
<1>3. CASE q # <<>>
  BY <1>1, <1>3, Shortened DEF Slice, Sliced
<1>4. QED
  BY <1>2, <1>3

-----------------------------------------------------------------------------
(* Where a message can be.  One that has not gone astray is in one place at  *)
(* a time: in a queue, in a draft, under way, or sent.  And what the stop    *)
(* button took is not queued and does not come back.                         *)

SeenIn(m, t) == seen.active = t /\ m \in Elements(seen.queue)

IsAt(m, t) ==
  \/ m \in Elements(queue[t]) \/ draft[t] = m \/ SeenIn(m, t)
  \/ Under(m) /\ call[m].thread = t

\* Of every message.
Sound(m) ==
  /\ \A t, u \in Threads : IsAt(m, t) /\ IsAt(m, u) => t = u
  /\ (\E t \in Threads : IsAt(m, t)) \/ m \in accepted \/ m \in astray => m \in written
  /\ Under(m) => call[m].thread \in Threads
  /\ call[m].via = "steer" => call[m].index # 0
  /\ call[m].via \in {"direct", "directSteer"} => \A t \in Threads : m \notin Elements(queue[t])
  /\ m \in stopped =>
       /\ \A t \in Threads : m \notin Elements(queue[t])
       /\ OfQueue(m) => ~call[m].fresh
       /\ call[m].via # "directSteer"
       /\ m \in Elements(seen.queue) => seen.busy \in Working /\ "render" \in due
  /\ OfQueue(m) /\ ~call[m].fresh => m \in stopped

\* Of one that has not gone astray; and what effects that are due may flush is
\* nowhere else.
Home(m) ==
  /\ \A t, u \in Threads : m \in Elements(queue[t]) => draft[u] # m
  /\ Under(m) \/ m \in accepted =>
       \A t \in Threads : m \notin Elements(queue[t]) /\ draft[t] # m
  /\ Under(m) => m \notin accepted
  /\ "effects" \in due /\ seen.busy = "idle" /\ m \in Elements(seen.queue) =>
       ~Under(m) /\ m \notin accepted /\ \A t \in Threads : draft[t] # m

Placed(m) == Sound(m) /\ (m \in astray \/ Home(m))

Queues == \A t \in Threads : IsQueue(queue[t])

\* What is rendered is still queued until the user acts or it is flushed.
Rendered ==
  "render" \notin due /\ (seen.busy # "idle" \/ "effects" \in due) =>
    Elements(seen.queue) \subseteq Elements(queue[seen.active])

HomeInv == TypeOK /\ Queues /\ Rendered /\ \A m \in Messages : Placed(m)

\* Of the queues, only that of thread t changes, and it then holds the messages S.
Holds(t, S) ==
  /\ queue' \in [Threads -> Seq(Messages)] /\ Queues'
  /\ \A u \in Threads : Elements(queue'[u]) = IF u = t THEN S ELSE Elements(queue[u])

LEMMA OneChanges ==
  ASSUME HomeInv, NEW t \in Threads, NEW q, IsQueue(q), queue' = [queue EXCEPT ![t] = q]
  PROVE  Holds(t, Elements(q))
<1>1. \A u \in Threads : queue'[u] = IF u = t THEN q ELSE queue[u]
  BY DEF HomeInv, TypeOK
<1>2. queue' \in [Threads -> Seq(Messages)]
  BY DEF HomeInv, TypeOK, IsQueue
<1>3. \A u \in Threads : IsQueue(queue'[u])
  BY <1>1 DEF HomeInv, Queues
<1>4. QED
  BY <1>1, <1>2, <1>3 DEF Holds, Queues

LEMMA Appends ==
  ASSUME HomeInv, NEW t \in Threads, NEW m \in Messages, m \notin Elements(queue[t]),
         queue' = [queue EXCEPT ![t] = Append(queue[t], m)]
  PROVE  Holds(t, Elements(queue[t]) \cup {m})
<1>1. IsQueue(queue[t])
  BY DEF HomeInv, Queues
<1>2. /\ IsQueue(Append(queue[t], m))
      /\ Elements(Append(queue[t], m)) = Elements(queue[t]) \cup {m}
  BY <1>1, Appended
<1>3. QED
  BY <1>2, OneChanges

LEMMA Prepends ==
  ASSUME HomeInv, NEW t \in Threads, NEW m \in Messages, m \notin Elements(queue[t]),
         queue' = [queue EXCEPT ![t] = <<m>> \o queue[t]]
  PROVE  Holds(t, Elements(queue[t]) \cup {m})
<1>1. IsQueue(queue[t])
  BY DEF HomeInv, Queues
<1>2. IsQueue(<<m>> \o queue[t]) /\ Elements(<<m>> \o queue[t]) = Elements(queue[t]) \cup {m}
  BY <1>1, Prepended
<1>3. QED
  BY <1>2, OneChanges

LEMMA NoneChanges ==
  ASSUME HomeInv, queue' = queue, NEW t \in Threads
  PROVE  Holds(t, Elements(queue[t]))
BY DEF HomeInv, TypeOK, Queues, Holds

\* No commit: what is seen stays, and acts are rendered only by one.
PageStays ==
  /\ seen' = seen /\ due' \subseteq {"effects", "render"}
  /\ "effects" \in due' => "effects" \in due
  /\ "render" \in due => "render" \in due'

\* What is rendered is still there after a step that only adds to the queues, or
\* that the user has asked for.
LEMMA RenderedStays ==
  ASSUME HomeInv, PageStays,
         \/ "render" \in due'
         \/ \A u \in Threads : Elements(queue[u]) \subseteq Elements(queue'[u])
         \/ "effects" \notin due' /\ seen.busy = "idle"
  PROVE  Rendered'
<1>1. seen.active \in Threads
  BY DEF HomeInv, TypeOK
<1>2. QED
  BY <1>1 DEF HomeInv, Rendered, PageStays

\* A message the step does not touch, unless it takes it out of a queue or a draft.
LEMMA Stays ==
  ASSUME HomeInv, PageStays, NEW n \in Messages,
         \A u \in Threads : n \in Elements(queue'[u]) => n \in Elements(queue[u]),
         \A u \in Threads : draft'[u] = n => draft[u] = n,
         call'[n] = call[n],
         n \in accepted' <=> n \in accepted, n \in written => n \in written',
         n \in stopped' <=> n \in stopped,
         n \in astray => n \in astray', n \in astray' => n \in written'
  PROVE  Placed(n)'
<1>1. Sound(n) /\ (n \in astray \/ Home(n))
  BY DEF HomeInv, Placed
<1>2. /\ Under(n)' <=> Under(n)
      /\ OfQueue(n)' <=> OfQueue(n)
      /\ \A u \in Threads : IsAt(n, u)' => IsAt(n, u)
  BY DEF Under, OfQueue, IsAt, SeenIn, PageStays
<1>3. Sound(n)'
  BY <1>1, <1>2 DEF Sound, PageStays
<1>4. Home(n) => Home(n)'
  BY <1>2 DEF Home, PageStays
<1>5. QED
  BY <1>1, <1>3, <1>4 DEF Placed

LEMMA InitHome == Init => HomeInv
<1> SUFFICES ASSUME Init PROVE HomeInv
  OBVIOUS
<1> USE NoneIsNoMessage DEF Init
<1>1. TypeOK
  BY DEF TypeOK, Now, NoCall, Modes
<1>2. Queues
  BY DEF Queues, IsQueue, Distinct
<1>3. Rendered
  BY DEF Rendered, Now
<1>4. \A m \in Messages : Placed(m)
  <2> TAKE m \in Messages
  <2>1. /\ \A t \in Threads : m \notin Elements(queue[t]) /\ draft[t] # m
        /\ m \notin Elements(seen.queue)
    BY DEF Elements, Now
  <2>2. call[m].via = "none" /\ m \notin accepted /\ m \notin stopped /\ m \notin astray
    BY DEF NoCall
  <2>3. \A t \in Threads : ~IsAt(m, t)
    BY <2>1, <2>2 DEF IsAt, SeenIn, Under
  <2>4. Sound(m)
    BY <2>1, <2>2, <2>3 DEF Sound, Under, OfQueue
  <2>5. Home(m)
    BY <2>1, <2>2 DEF Home, Under
  <2>6. QED
    BY <2>4, <2>5 DEF Placed
<1>5. QED
  BY <1>1, <1>2, <1>3, <1>4 DEF HomeInv

\* What leaves the messages alone.
LEMMA Untouched ==
  ASSUME HomeInv, TypeOK', UNCHANGED <<queue, draft, written, accepted, stopped, astray>>, PageStays,
         \A m \in Messages : /\ call'[m].via = call[m].via /\ call'[m].thread = call[m].thread
                             /\ call'[m].index = call[m].index
                             /\ call'[m].fresh = call[m].fresh
  PROVE  HomeInv'
<1>1. Queues' /\ Rendered'
  BY RenderedStays DEF HomeInv, Queues
<1>2. ASSUME NEW m \in Messages PROVE Placed(m)'
  <2>1. Sound(m) /\ (m \in astray \/ Home(m))
    BY DEF HomeInv, Placed
  <2>2. /\ Under(m)' <=> Under(m)
        /\ OfQueue(m)' <=> OfQueue(m)
        /\ \A u \in Threads : IsAt(m, u)' => IsAt(m, u)
    BY DEF Under, OfQueue, IsAt, SeenIn, PageStays
  <2>3. Sound(m)'
    BY <2>1, <2>2 DEF Sound, PageStays
  <2>4. Home(m) => Home(m)'
    BY <2>2 DEF Home, PageStays
  <2>5. QED
    BY <2>1, <2>3, <2>4 DEF Placed
<1>3. QED
  BY <1>1, <1>2 DEF HomeInv

-----------------------------------------------------------------------------
(* The steps. *)

LEMMA CommitHome == HomeInv /\ Commit => HomeInv'
<1> SUFFICES ASSUME HomeInv, Commit PROVE HomeInv'
  OBVIOUS
<1>1. /\ UNCHANGED <<queue, inFlight, started, failures, timers, busy, active, draft, written, stopped,
                     deleted, call, accepted, astray>>
      /\ due' = {"effects"} /\ seen' = Now /\ active \in Threads
  BY DEF Commit, hookVars, viewVars, userVars, sentVars, HomeInv, TypeOK
<1>2. TypeOK'
  BY <1>1 DEF HomeInv, TypeOK, Now
<1>3. Queues' /\ Rendered'
  BY <1>1 DEF HomeInv, Queues, Rendered, Now
<1>4. ASSUME NEW m \in Messages PROVE Placed(m)'
  <2>1. Sound(m) /\ (m \in astray \/ Home(m))
    BY DEF HomeInv, Placed
  <2>2. /\ Under(m)' <=> Under(m)
        /\ OfQueue(m)' <=> OfQueue(m)
        /\ \A u \in Threads : IsAt(m, u)' => IsAt(m, u)
        /\ m \in Elements(seen'.queue) => m \in Elements(queue[active])
    BY <1>1 DEF Under, OfQueue, IsAt, SeenIn, Now
  <2>3. Sound(m)'
    BY <1>1, <2>1, <2>2 DEF Sound
  <2>4. Home(m) => Home(m)'
    BY <1>1, <2>2 DEF Home
  <2>5. QED
    BY <1>1, <2>1, <2>3, <2>4 DEF Placed
<1>5. QED
  BY <1>2, <1>3, <1>4 DEF HomeInv

\* The message the closure has first is under way, and the first of the latest
\* queue is out of it; they are the same, or have gone astray.
LEMMA FlushMoves ==
  ASSUME HomeInv, Effects, Flush
  PROVE  \E t \in Threads, m \in Messages, S \in SUBSET Messages :
           /\ t = seen.active /\ m = Head(seen.queue) /\ m \in Elements(seen.queue)
           /\ S = Sliced(queue[t]) /\ S \subseteq Elements(queue[t])
           /\ Holds(t, Elements(queue[t]) \ S)
           /\ queue' = [queue EXCEPT ![t] = Slice(queue[t])]
           /\ astray' = IF S = {m} THEN astray ELSE astray \cup {m} \cup S
           /\ inFlight' = [inFlight EXCEPT ![t] = m]
           /\ started' = [started EXCEPT ![t] = FALSE]
           /\ call' = [call EXCEPT ![m] = [via |-> "flush", thread |-> t, index |-> 0,
                                           fresh |-> TRUE, begun |-> FALSE]]
           /\ seen.busy = "idle" /\ seen.inFlight = None /\ ~Under(m)
<1>1. PICK t \in Threads : t = seen.active
  BY DEF HomeInv, TypeOK
<1>2. /\ IsQueue(queue[t]) /\ seen.queue \in Seq(Messages) /\ seen.queue # <<>>
      /\ seen.busy = "idle" /\ seen.inFlight = None
  BY <1>1 DEF HomeInv, TypeOK, Queues, Flush, MayFlush
<1>3. PICK m \in Messages : m = Head(seen.queue) /\ m \in Elements(seen.queue)
  <2>1. 1 \in DOMAIN seen.queue /\ Head(seen.queue) = seen.queue[1] /\ seen.queue[1] \in Messages
    BY <1>2
  <2>2. QED
    BY <2>1 DEF Elements
<1>4. PICK S \in SUBSET Messages : S = Sliced(queue[t])
  BY <1>2, Slices
<1>5. S \subseteq Elements(queue[t]) /\ Holds(t, Elements(queue[t]) \ S)
  <2>1. queue' = [queue EXCEPT ![t] = Slice(queue[t])]
    BY <1>1 DEF Flush
  <2>2. /\ IsQueue(Slice(queue[t])) /\ Elements(Slice(queue[t])) = Elements(queue[t]) \ S
        /\ S \subseteq Elements(queue[t])
    BY <1>2, <1>4, Slices
  <2>3. Holds(t, Elements(Slice(queue[t])))
    BY <2>1, <2>2, OneChanges
  <2>4. QED
    BY <2>2, <2>3
<1>6. QED
  BY <1>1, <1>2, <1>3, <1>4, <1>5 DEF Flush, Calls

LEMMA FlushHome == HomeInv /\ Effects /\ Flush => HomeInv'
<1> SUFFICES ASSUME HomeInv, Effects, Flush PROVE HomeInv'
  OBVIOUS
<1>1. PICK t \in Threads, m \in Messages, S \in SUBSET Messages :
        /\ t = seen.active /\ m \in Elements(seen.queue)
        /\ S \subseteq Elements(queue[t]) /\ Holds(t, Elements(queue[t]) \ S)
        /\ astray' = IF S = {m} THEN astray ELSE astray \cup {m} \cup S
        /\ inFlight' = [inFlight EXCEPT ![t] = m] /\ started' = [started EXCEPT ![t] = FALSE]
        /\ call' = [call EXCEPT ![m] = [via |-> "flush", thread |-> t, index |-> 0,
                                        fresh |-> TRUE, begun |-> FALSE]]
        /\ seen.busy = "idle" /\ ~Under(m)
  BY FlushMoves
<1>2. /\ UNCHANGED <<failures, timers, busy, active, draft, written, stopped, deleted, seen, accepted>>
      /\ due' = due \ {"effects"}
  BY DEF Effects, viewVars, userVars
<1>3. PageStays /\ "effects" \notin due'
  BY <1>2 DEF PageStays, HomeInv, TypeOK
<1>4. TypeOK'
  BY <1>1, <1>2, <1>3 DEF HomeInv, TypeOK, Holds, PageStays
<1>5. Rendered'
  BY <1>1, <1>3, RenderedStays
<1>6. Placed(m)'
  <2>1. Sound(m) /\ (m \in astray \/ Home(m))
    BY DEF HomeInv, Placed
  <2>2. call'[m] = [via |-> "flush", thread |-> t, index |-> 0, fresh |-> TRUE, begun |-> FALSE]
    BY <1>1 DEF HomeInv, TypeOK
  <2>3. IsAt(m, t) /\ \A u \in Threads : IsAt(m, u) => u = t
    BY <1>1, <2>1 DEF IsAt, SeenIn, Sound
  <2>4. \A u \in Threads : IsAt(m, u)' => u = t
    BY <1>1, <1>2, <2>2, <2>3 DEF IsAt, SeenIn, Holds
  <2>5. m \notin stopped
    BY <1>1, <2>1 DEF Sound, Working
  <2>6. Sound(m)'
    BY <1>2, <2>1, <2>2, <2>3, <2>4, <2>5 DEF Sound, Under, OfQueue
  <2>7. ASSUME m \notin astray' PROVE Home(m)'
    <3>1. S = {m} /\ Home(m) /\ m \in Elements(queue[t])
      BY <1>1, <2>1, <2>7
    <3>2. \A u \in Threads : m \notin Elements(queue'[u]) /\ draft'[u] # m
      BY <1>1, <1>2, <2>3, <3>1 DEF Home, Holds, IsAt
    <3>3. QED
      BY <1>1, <1>2, <1>3, <3>1, <3>2 DEF Home
  <2>8. QED
    BY <2>6, <2>7 DEF Placed
<1>7. ASSUME NEW n \in Messages, n # m PROVE Placed(n)'
  <2>1. call'[n] = call[n]
    BY <1>1, <1>7 DEF HomeInv, TypeOK
  <2>2. Sound(n)
    BY DEF HomeInv, Placed
  <2>3. n \in astray' => n \in written'
    BY <1>1, <1>2, <1>7, <2>2 DEF Sound, IsAt
  <2>4. QED
    BY <1>1, <1>2, <1>3, <2>1, <2>3, Stays DEF Holds
<1>8. QED
  BY <1>1, <1>4, <1>5, <1>6, <1>7 DEF HomeInv, Holds

LEMMA EffectsHome == HomeInv /\ Effects => HomeInv'
<1> SUFFICES ASSUME HomeInv, Effects PROVE HomeInv'
  OBVIOUS
<1>1. CASE Flush
  BY <1>1, FlushHome
<1>2. CASE InFlightEffect \/ NoEffect
  <2>1. /\ UNCHANGED <<queue, call, astray, failures, timers, busy, active, draft, written, stopped,
                       deleted, seen, accepted>>
        /\ due' = due \ {"effects"}
    BY <1>2 DEF Effects, InFlightEffect, NoEffect, viewVars, userVars
  <2>2. inFlight' \in [Threads -> Messages \cup {None}] /\ started' \in [Threads -> BOOLEAN]
    BY <1>2 DEF InFlightEffect, NoEffect, HomeInv, TypeOK
  <2>3. TypeOK'
    BY <2>1, <2>2 DEF HomeInv, TypeOK
  <2>4. PageStays
    BY <2>1 DEF PageStays, HomeInv, TypeOK
  <2>5. QED
    BY <2>1, <2>3, <2>4, Untouched
<1>3. QED
  BY <1>1, <1>2 DEF Effects

\* A message that is typed.
LEMMA NewDraft ==
  ASSUME HomeInv, NEW m \in Messages, m \notin written, m \in written', NEW t \in Threads,
         draft' = [draft EXCEPT ![t] = m], UNCHANGED <<stopped, seen, call, accepted, astray>>,
         \A u \in Threads : m \in Elements(queue'[u]) => m \in Elements(queue[u]),
         "render" \in due => "render" \in due'
  PROVE  /\ Placed(m)' /\ m \notin accepted /\ m \notin astray /\ call[m].via = "none"
         /\ \A u \in Threads : ~IsAt(m, u)
<1>1. Sound(m)
  BY DEF HomeInv, Placed
<1>2. \A u \in Threads : ~IsAt(m, u) /\ m \notin Elements(queue'[u])
  BY <1>1 DEF Sound, IsAt
<1>3. m \notin accepted /\ m \notin astray /\ ~Under(m) /\ ~OfQueue(m)
  BY <1>1, <1>2 DEF Sound, IsAt, Under, OfQueue
<1>4. \A u \in Threads : draft'[u] = m => u = t
  BY <1>2 DEF HomeInv, TypeOK, IsAt
<1>5. m \notin Elements(seen.queue)
  <2>1. seen.active \in Threads
    BY DEF HomeInv, TypeOK
  <2>2. QED
    BY <1>2, <2>1 DEF IsAt, SeenIn
<1>6. Sound(m)'
  BY <1>1, <1>2, <1>3, <1>4, <1>5 DEF Sound, IsAt, SeenIn, Under, OfQueue
<1>7. Home(m)'
  BY <1>2, <1>3, <1>5 DEF Home, Under
<1>8. QED
  BY <1>2, <1>3, <1>6, <1>7 DEF Placed, Under

LEMMA TypeHome == ASSUME NEW m \in Messages PROVE HomeInv /\ Type(m) => HomeInv'
<1> SUFFICES ASSUME HomeInv, Type(m) PROVE HomeInv'
  OBVIOUS
<1>1. PICK t \in Threads : t = seen.active
  BY DEF HomeInv, TypeOK
<1>2. /\ m \notin written /\ written' = written \cup {m} /\ draft' = [draft EXCEPT ![t] = m]
      /\ UNCHANGED <<queue, inFlight, started, failures, timers, busy, active, stopped, deleted, seen,
                     due, call, accepted, astray>>
  BY <1>1 DEF Type, hookVars, viewVars, pageVars, sentVars
<1>3. TypeOK' /\ PageStays
  BY <1>1, <1>2 DEF HomeInv, TypeOK, PageStays
<1>4. Queues' /\ Rendered'
  BY <1>2, <1>3, RenderedStays DEF HomeInv, Queues
<1>5. Placed(m)'
  BY <1>1, <1>2, NewDraft
<1>6. ASSUME NEW n \in Messages, n # m PROVE Placed(n)'
  <2>1. \A u \in Threads : draft'[u] = n => draft[u] = n
    BY <1>1, <1>2, <1>6 DEF HomeInv, TypeOK
  <2>2. n \in astray => n \in written
    BY DEF HomeInv, Placed, Sound
  <2>3. QED
    BY <1>2, <1>3, <1>6, <2>1, <2>2, Stays
<1>7. QED
  BY <1>3, <1>4, <1>5, <1>6 DEF HomeInv

LEMMA SubmitHome == ASSUME NEW m \in Messages PROVE HomeInv /\ Submit(m) => HomeInv'
<1> SUFFICES ASSUME HomeInv, Submit(m) PROVE HomeInv'
  OBVIOUS
<1>1. PICK t \in Threads : t = seen.active
  BY DEF HomeInv, TypeOK
<1>2. /\ draft[t] = m /\ draft' = [draft EXCEPT ![t] = None]
      /\ stopped' = stopped \ {m} /\ deleted' = deleted \ {m}
      /\ failures' = [failures EXCEPT ![m] = 0] /\ due' = due \cup {"render"}
      /\ ~Under(m) /\ ~Queued(m)
      /\ UNCHANGED <<inFlight, started, timers, busy, active, written, seen, accepted, astray>>
  BY <1>1 DEF Submit, Act, viewVars, sentVars
<1>3. \/ queue' = [queue EXCEPT ![t] = Append(queue[t], m)] /\ UNCHANGED call
      \/ UNCHANGED queue /\ \E via \in {"direct", "directSteer"} : Calls(m, via, t, 0)
  BY <1>1 DEF Submit
<1>4. PageStays /\ Rendered'
  <2>1. PageStays
    BY <1>2 DEF PageStays, HomeInv, TypeOK
  <2>2. QED
    BY <1>2, <2>1, RenderedStays
<1>5. /\ Sound(m) /\ (m \in astray \/ Home(m)) /\ IsAt(m, t) /\ m \in written
      /\ call[m].via = "none" /\ \A u \in Threads : m \notin Elements(queue[u])
  <2>1. Sound(m) /\ (m \in astray \/ Home(m)) /\ IsAt(m, t)
    BY <1>2 DEF HomeInv, Placed, IsAt
  <2>2. QED
    BY <1>2, <2>1 DEF Sound, Under, Queued
<1>6. /\ \A u \in Threads : draft'[u] # m /\ (IsAt(m, u) => u = t)
      /\ \A n \in Messages : \A u \in Threads : draft'[u] = n => draft[u] = n
  BY <1>2, <1>5, NoneIsNoMessage DEF Sound, IsAt, HomeInv, TypeOK
<1>7. CASE queue' = [queue EXCEPT ![t] = Append(queue[t], m)] /\ UNCHANGED call
  <2>1. Holds(t, Elements(queue[t]) \cup {m})
    BY <1>5, <1>7, Appends
  <2>2. TypeOK'
    BY <1>2, <1>4, <1>7, <2>1 DEF HomeInv, TypeOK, Holds, PageStays
  <2>3. Placed(m)'
    <3>1. \A u \in Threads : (m \in Elements(queue'[u]) => u = t) /\ (IsAt(m, u)' => u = t)
      BY <1>2, <1>5, <1>6, <1>7, <2>1 DEF Holds, IsAt, SeenIn, Under
    <3>2. Sound(m)'
      BY <1>2, <1>5, <1>7, <3>1 DEF Sound, Under, OfQueue
    <3>3. Home(m) => Home(m)'
      BY <1>2, <1>5, <1>6, <1>7 DEF Home, Under
    <3>4. QED
      BY <1>2, <1>5, <3>2, <3>3 DEF Placed
  <2>4. ASSUME NEW n \in Messages, n # m PROVE Placed(n)'
    <3>1. n \in astray => n \in written
      BY DEF HomeInv, Placed, Sound
    <3>2. QED
      BY <1>2, <1>4, <1>6, <1>7, <2>1, <2>4, <3>1, Stays DEF Holds
  <2>5. QED
    BY <1>4, <2>1, <2>2, <2>3, <2>4 DEF HomeInv, Holds
<1>8. ASSUME NEW via \in {"direct", "directSteer"}, Calls(m, via, t, 0), UNCHANGED queue
      PROVE  HomeInv'
  <2>1. call' = [call EXCEPT ![m] = [via |-> via, thread |-> t, index |-> 0, fresh |-> TRUE, begun |-> FALSE]]
    BY <1>8 DEF Calls
  <2>2. call'[m] = [via |-> via, thread |-> t, index |-> 0, fresh |-> TRUE, begun |-> FALSE]
        /\ \A n \in Messages : n # m => call'[n] = call[n]
    BY <2>1 DEF HomeInv, TypeOK
  <2>3. TypeOK'
    BY <1>2, <1>4, <1>8, <2>1 DEF HomeInv, TypeOK, PageStays
  <2>4. Placed(m)'
    <3>1. \A u \in Threads : IsAt(m, u)' => u = t
      BY <1>2, <1>5, <1>6, <1>8, <2>2 DEF IsAt, SeenIn
    <3>2. Sound(m)'
      BY <1>2, <1>5, <1>8, <2>2, <3>1 DEF Sound, Under, OfQueue
    <3>3. Home(m) => Home(m)'
      BY <1>2, <1>5, <1>6, <1>8, <2>2 DEF Home, Under
    <3>4. QED
      BY <1>2, <1>5, <3>2, <3>3 DEF Placed
  <2>5. ASSUME NEW n \in Messages, n # m PROVE Placed(n)'
    <3>1. n \in astray => n \in written
      BY DEF HomeInv, Placed, Sound
    <3>2. QED
      BY <1>2, <1>4, <1>6, <1>8, <2>2, <2>5, <3>1, Stays
  <2>6. QED
    BY <1>4, <1>8, <2>3, <2>4, <2>5 DEF HomeInv, Queues
<1>9. QED
  BY <1>3, <1>7, <1>8

\* What the three operations on a shown message have in common.
LEMMA RemovedShown ==
  ASSUME HomeInv, NEW m \in Messages, Act, RemoveQueued(m), seen' = seen, NEW t \in Threads, t = seen.active
  PROVE  /\ Holds(t, Elements(queue[t]) \ {m})
         /\ failures' \in [Messages -> 0 .. 2] /\ timers' \subseteq Messages
         /\ UNCHANGED <<inFlight, started>> /\ PageStays /\ Rendered' /\ "render" \in due'
<1>1. IsQueue(queue[t])
  BY DEF HomeInv, Queues
<1>2. /\ IsQueue(Without(queue[t], m))
      /\ Elements(Without(queue[t], m)) = Elements(queue[t]) \ {m}
  BY <1>1, Removed
<1>3. queue' = [queue EXCEPT ![t] = Without(queue[t], m)]
  BY DEF RemoveQueued
<1>4. Holds(t, Elements(queue[t]) \ {m})
  BY <1>2, <1>3, OneChanges
<1>5. failures' \in [Messages -> 0 .. 2] /\ timers' \subseteq Messages /\ UNCHANGED <<inFlight, started>>
  BY DEF RemoveQueued, HomeInv, TypeOK
<1>6. PageStays /\ "render" \in due'
  BY DEF PageStays, Act, HomeInv, TypeOK
<1>7. QED
  BY <1>4, <1>5, <1>6, RenderedStays

LEMMA DeleteHome == ASSUME NEW m \in Messages PROVE HomeInv /\ DeleteQueued(m) => HomeInv'
<1> SUFFICES ASSUME HomeInv, DeleteQueued(m) PROVE HomeInv'
  OBVIOUS
<1>1. /\ Act /\ RemoveQueued(m) /\ Deletes(m)
      /\ UNCHANGED <<busy, active, draft, written, stopped, seen, call, accepted, astray>>
  BY DEF DeleteQueued, viewVars, sentVars
<1>2. PICK t \in Threads : t = seen.active
  BY DEF HomeInv, TypeOK
<1>3. /\ Holds(t, Elements(queue[t]) \ {m})
      /\ failures' \in [Messages -> 0 .. 2] /\ timers' \subseteq Messages
      /\ UNCHANGED <<inFlight, started>> /\ PageStays /\ Rendered'
  BY <1>1, <1>2, RemovedShown
<1>4. TypeOK'
  BY <1>1, <1>3 DEF HomeInv, TypeOK, Holds, PageStays, Deletes
<1>5. ASSUME NEW n \in Messages PROVE Placed(n)'
  <2>1. n \in astray => n \in written
    BY DEF HomeInv, Placed, Sound
  <2>2. QED
    BY <1>1, <1>3, <2>1, Stays DEF Holds
<1>6. QED
  BY <1>3, <1>4, <1>5 DEF HomeInv, Holds

LEMMA EditHome == ASSUME NEW m \in Messages PROVE HomeInv /\ EditQueued(m) => HomeInv'
<1> SUFFICES ASSUME HomeInv, EditQueued(m) PROVE HomeInv'
  OBVIOUS
<1>1. PICK t \in Threads : t = seen.active
  BY DEF HomeInv, TypeOK
<1>2. PICK new \in Messages \ written :
        written' = written \cup {new} /\ draft' = [draft EXCEPT ![t] = new]
  BY <1>1 DEF EditQueued
<1>3. /\ Act /\ RemoveQueued(m) /\ Deletes(m)
      /\ UNCHANGED <<busy, active, stopped, seen, call, accepted, astray>>
  BY DEF EditQueued, viewVars, sentVars
<1>4. /\ Holds(t, Elements(queue[t]) \ {m})
      /\ failures' \in [Messages -> 0 .. 2] /\ timers' \subseteq Messages
      /\ UNCHANGED <<inFlight, started>> /\ PageStays /\ Rendered' /\ "render" \in due'
  BY <1>1, <1>3, RemovedShown
<1>5. TypeOK'
  BY <1>2, <1>3, <1>4 DEF HomeInv, TypeOK, Holds, PageStays, Deletes
<1>6. Placed(new)'
  BY <1>2, <1>3, <1>4, NewDraft DEF Holds
<1>7. ASSUME NEW n \in Messages, n # new PROVE Placed(n)'
  <2>1. \A u \in Threads : draft'[u] = n => draft[u] = n
    BY <1>2, <1>7 DEF HomeInv, TypeOK
  <2>2. n \in astray => n \in written
    BY DEF HomeInv, Placed, Sound
  <2>3. QED
    BY <1>2, <1>3, <1>4, <1>7, <2>1, <2>2, Stays DEF Holds
<1>8. QED
  BY <1>4, <1>5, <1>6, <1>7 DEF HomeInv, Holds

\* What is steered is still queued, and goes from there.
LEMMA SteerMoves ==
  ASSUME HomeInv, NEW m \in Messages, SteerQueued(m)
  PROVE  \E t \in Threads, i \in Nat \ {0} :
           /\ t = seen.active /\ m \in Elements(queue[t]) /\ Holds(t, Elements(queue[t]) \ {m})
           /\ call' = [call EXCEPT ![m] = [via |-> "steer", thread |-> t, index |-> i,
                                           fresh |-> TRUE, begun |-> FALSE]]
           /\ failures' \in [Messages -> 0 .. 2] /\ timers' \subseteq Messages
           /\ UNCHANGED <<inFlight, started>> /\ PageStays /\ Rendered'
           /\ ~Under(m) /\ seen.busy = "turn"
<1>1. PICK t \in Threads : t = seen.active
  BY DEF HomeInv, TypeOK
<1>2. PICK i \in Nat \ {0} : i = Index(seen.queue, m)
  <2>1. seen.queue \in Seq(Messages) /\ \E i \in DOMAIN seen.queue : seen.queue[i] = m
    BY DEF HomeInv, TypeOK, SteerQueued, Shown, Elements
  <2>2. Index(seen.queue, m) \in DOMAIN seen.queue
    BY <2>1 DEF Index
  <2>3. DOMAIN seen.queue \subseteq Nat \ {0}
    BY <2>1
  <2>4. QED
    BY <2>2, <2>3
<1>3. /\ Act /\ Shown(m) /\ RemoveQueued(m) /\ seen' = seen /\ ~Under(m) /\ seen.busy = "turn"
      /\ call' = [call EXCEPT ![m] = [via |-> "steer", thread |-> t, index |-> i,
                                      fresh |-> TRUE, begun |-> FALSE]]
  BY <1>1, <1>2 DEF SteerQueued, Calls
<1>4. m \in Elements(queue[t])
  BY <1>1, <1>3 DEF HomeInv, Rendered, Act, Shown
<1>5. /\ Holds(t, Elements(queue[t]) \ {m})
      /\ failures' \in [Messages -> 0 .. 2] /\ timers' \subseteq Messages
      /\ UNCHANGED <<inFlight, started>> /\ PageStays /\ Rendered'
  BY <1>1, <1>3, RemovedShown
<1>6. QED
  BY <1>1, <1>3, <1>4, <1>5

LEMMA SteerHome == ASSUME NEW m \in Messages PROVE HomeInv /\ SteerQueued(m) => HomeInv'
<1> SUFFICES ASSUME HomeInv, SteerQueued(m) PROVE HomeInv'
  OBVIOUS
<1>1. UNCHANGED <<busy, active, draft, written, stopped, deleted, seen, accepted, astray>>
  BY DEF SteerQueued, viewVars, userVars, sentVars
<1>2. PICK t \in Threads, i \in Nat \ {0} :
        /\ t = seen.active /\ m \in Elements(queue[t]) /\ Holds(t, Elements(queue[t]) \ {m})
        /\ call' = [call EXCEPT ![m] = [via |-> "steer", thread |-> t, index |-> i,
                                        fresh |-> TRUE, begun |-> FALSE]]
        /\ failures' \in [Messages -> 0 .. 2] /\ timers' \subseteq Messages
        /\ UNCHANGED <<inFlight, started>> /\ PageStays /\ Rendered'
        /\ ~Under(m) /\ seen.busy = "turn"
  BY SteerMoves
<1>3. TypeOK'
  BY <1>1, <1>2 DEF HomeInv, TypeOK, Holds, PageStays
<1>4. /\ call'[m] = [via |-> "steer", thread |-> t, index |-> i, fresh |-> TRUE, begun |-> FALSE]
      /\ \A n \in Messages : n # m => call'[n] = call[n]
  BY <1>2 DEF HomeInv, TypeOK
<1>5. Placed(m)'
  <2>1. Sound(m) /\ (m \in astray \/ Home(m)) /\ IsAt(m, t)
    BY <1>2 DEF HomeInv, Placed, IsAt
  <2>2. m \notin stopped /\ \A u \in Threads : IsAt(m, u) => u = t
    BY <1>2, <2>1 DEF Sound
  <2>3. \A u \in Threads : m \notin Elements(queue'[u]) /\ (IsAt(m, u)' => u = t)
    BY <1>1, <1>2, <1>4, <2>2 DEF Holds, IsAt, SeenIn
  <2>4. Sound(m)'
    BY <1>1, <1>4, <2>1, <2>2, <2>3 DEF Sound, Under, OfQueue
  <2>5. Home(m) => Home(m)'
    BY <1>1, <1>2, <2>3 DEF Home
  <2>6. QED
    BY <1>1, <2>1, <2>4, <2>5 DEF Placed
<1>6. ASSUME NEW n \in Messages, n # m PROVE Placed(n)'
  <2>1. n \in astray => n \in written
    BY DEF HomeInv, Placed, Sound
  <2>2. QED
    BY <1>1, <1>2, <1>4, <1>6, <2>1, Stays DEF Holds
<1>7. QED
  BY <1>2, <1>3, <1>5, <1>6 DEF HomeInv, Holds

Calling == [via : {"none", "direct", "directSteer", "flush", "steer"},
            thread : Threads \cup {None}, index : Nat, fresh : BOOLEAN, begun : BOOLEAN]

\* The sends of a thread whose queue is cleared are only told so.
LEMMA ClearedKeeps ==
  ASSUME HomeInv, NEW t \in Threads, call' = ClearedCalls(t)
  PROVE  /\ call' \in [Messages -> Calling]
         /\ \A n \in Messages :
              /\ call'[n].via = call[n].via /\ call'[n].thread = call[n].thread
              /\ call'[n].index = call[n].index
              /\ call'[n].fresh = IF call[n].thread = t THEN FALSE ELSE call[n].fresh
<1>1. call' = [n \in Messages |-> IF call[n].thread = t THEN [call[n] EXCEPT !.fresh = FALSE]
                                 ELSE call[n]]
  BY DEF ClearedCalls
<1>2. ASSUME NEW n \in Messages
      PROVE  /\ call'[n] \in Calling
             /\ call'[n].via = call[n].via /\ call'[n].thread = call[n].thread
             /\ call'[n].index = call[n].index
             /\ call'[n].fresh = IF call[n].thread = t THEN FALSE ELSE call[n].fresh
  <2>1. call[n] \in Calling
    BY DEF HomeInv, TypeOK, Calling
  <2>2. call'[n] = IF call[n].thread = t THEN [call[n] EXCEPT !.fresh = FALSE] ELSE call[n]
    BY <1>1
  <2>3. QED
    BY <2>1, <2>2 DEF Calling
<1>3. QED
  BY <1>1, <1>2

LEMMA ClearHome == HomeInv /\ ClearQueued => HomeInv'
<1> SUFFICES ASSUME HomeInv, ClearQueued PROVE HomeInv'
  OBVIOUS
<1>1. PICK t \in Threads : t = seen.active
  BY DEF HomeInv, TypeOK
<1>2. /\ queue' = [queue EXCEPT ![t] = <<>>] /\ inFlight' = [inFlight EXCEPT ![t] = None]
      /\ started' = [started EXCEPT ![t] = FALSE]
      /\ call' = ClearedCalls(t) /\ due' = due \cup {"render"} /\ seen.busy \in Working
      /\ stopped' = stopped \cup Elements(queue[t])
                            \cup {m \in Messages : OfQueue(m) /\ call[m].thread = t}
      /\ UNCHANGED <<failures, timers, busy, active, draft, written, deleted, seen, accepted, astray>>
  BY <1>1 DEF ClearQueued, Act, viewVars, sentVars
<1>3. IsQueue(<<>>) /\ Elements(<<>>) = {}
  BY DEF IsQueue, Distinct, Elements
<1>4. Holds(t, {})
  BY <1>2, <1>3, OneChanges
<1>5. Elements(queue[t]) \subseteq Messages
  BY DEF Elements, HomeInv, TypeOK
<1>6. /\ call' \in [Messages -> Calling]
      /\ \A n \in Messages :
           /\ call'[n].via = call[n].via /\ call'[n].thread = call[n].thread
           /\ call'[n].index = call[n].index
           /\ call'[n].fresh = IF call[n].thread = t THEN FALSE ELSE call[n].fresh
  BY <1>2, ClearedKeeps
<1>7. PageStays /\ Rendered'
  <2>1. PageStays
    BY <1>2 DEF PageStays, HomeInv, TypeOK
  <2>2. QED
    BY <1>2, <2>1, RenderedStays
<1>8. TypeOK'
  BY <1>2, <1>4, <1>5, <1>6, <1>7 DEF HomeInv, TypeOK, Holds, Calling, PageStays
<1>9. ASSUME NEW n \in Messages PROVE Placed(n)'
  <2>1. Sound(n) /\ (n \in astray \/ Home(n))
    BY DEF HomeInv, Placed
  <2>2. /\ \A u \in Threads : n \in Elements(queue'[u]) => u # t /\ n \in Elements(queue[u])
        /\ Under(n)' <=> Under(n)
        /\ OfQueue(n)' <=> OfQueue(n)
    BY <1>4, <1>6 DEF Holds, Under, OfQueue
  <2>3. \A u \in Threads : IsAt(n, u)' => IsAt(n, u)
    BY <1>2, <1>6, <2>2 DEF IsAt, SeenIn
  <2>4. n \in stopped' /\ n \notin stopped =>
          n \in Elements(queue[t]) \/ (OfQueue(n) /\ call[n].thread = t)
    BY <1>2
  <2>5. n \in stopped' =>
          /\ \A u \in Threads : n \notin Elements(queue'[u])
          /\ OfQueue(n)' => ~call'[n].fresh
          /\ call'[n].via # "directSteer"
          /\ n \in Elements(seen'.queue) => seen'.busy \in Working /\ "render" \in due'
    <3>1. CASE n \in stopped
      BY <1>2, <1>6, <2>1, <2>2, <3>1 DEF Sound
    <3>2. CASE n \in Elements(queue[t])
      <4>1. \A u \in Threads : IsAt(n, u) => u = t
        BY <2>1, <3>2 DEF Sound, IsAt
      <4>2. OfQueue(n) => call[n].thread = t
        BY <2>1, <4>1 DEF Sound, IsAt, OfQueue, Under
      <4>3. call[n].via # "directSteer"
        BY <2>1, <3>2 DEF Sound
      <4>4. QED
        BY <1>2, <1>6, <2>2, <4>1, <4>2, <4>3 DEF IsAt
    <3>3. CASE OfQueue(n) /\ call[n].thread = t
      <4>1. IsAt(n, t)
        BY <3>3 DEF IsAt, OfQueue, Under
      <4>2. \A u \in Threads : IsAt(n, u) => u = t
        BY <2>1, <4>1 DEF Sound
      <4>3. QED
        BY <1>2, <1>6, <2>2, <3>3, <4>2 DEF IsAt, OfQueue
    <3>4. QED
      BY <2>4, <3>1, <3>2, <3>3
  <2>6. OfQueue(n)' /\ ~call'[n].fresh => n \in stopped'
    BY <1>2, <1>6, <2>1, <2>2 DEF Sound
  <2>7. Sound(n)'
    BY <1>2, <1>6, <2>1, <2>2, <2>3, <2>5, <2>6 DEF Sound
  <2>8. Home(n) => Home(n)'
    BY <1>2, <2>2 DEF Home, Working
  <2>9. QED
    BY <1>2, <2>1, <2>7, <2>8 DEF Placed
<1>10. QED
  BY <1>4, <1>7, <1>8, <1>9 DEF HomeInv, Holds

LEMMA Begun ==
  ASSUME NEW c \in Calling
  PROVE  LET d == [c EXCEPT !.begun = TRUE] IN
         /\ d \in Calling /\ d.via = c.via /\ d.thread = c.thread
         /\ d.index = c.index /\ d.fresh = c.fresh
BY DEF Calling

LEMMA BegunKeeps ==
  ASSUME HomeInv, NEW m \in Messages, call' = [call EXCEPT ![m].begun = TRUE]
  PROVE  /\ call' \in [Messages -> Calling]
         /\ \A n \in Messages :
              /\ call'[n].via = call[n].via /\ call'[n].thread = call[n].thread
              /\ call'[n].index = call[n].index /\ call'[n].fresh = call[n].fresh
<1>1. call \in [Messages -> Calling]
  BY DEF HomeInv, TypeOK, Calling
<1>2. call' = [n \in Messages |-> IF n = m THEN [call[n] EXCEPT !.begun = TRUE] ELSE call[n]]
  BY <1>1
<1>3. \A n \in Messages :
        /\ call'[n] \in Calling
        /\ call'[n].via = call[n].via /\ call'[n].thread = call[n].thread
        /\ call'[n].index = call[n].index /\ call'[n].fresh = call[n].fresh
  BY <1>1, <1>2, Begun
<1>4. QED
  BY <1>2, <1>3

LEMMA BeginHome == ASSUME NEW m \in Messages PROVE HomeInv /\ Begin(m) => HomeInv'
<1> SUFFICES ASSUME HomeInv, Begin(m) PROVE HomeInv'
  OBVIOUS
<1>1. /\ call' = [call EXCEPT ![m].begun = TRUE]
      /\ UNCHANGED <<queue, inFlight, started, failures, timers, active, draft, written,
                     stopped, deleted, seen, due, accepted, astray>>
  BY DEF Begin, hookVars, userVars, pageVars, sentVars
<1>2. PICK kind \in Working : busy' = [busy EXCEPT ![call[m].thread] = kind]
  BY DEF Begin, Working
<1>3. \A n \in Messages : /\ call'[n].via = call[n].via /\ call'[n].thread = call[n].thread
                           /\ call'[n].index = call[n].index /\ call'[n].fresh = call[n].fresh
  BY <1>1, BegunKeeps
<1>4. call' \in [Messages -> Calling]
  BY <1>1, BegunKeeps
<1>5. TypeOK' /\ PageStays
  BY <1>1, <1>2, <1>4 DEF HomeInv, TypeOK, Calling, Working, Modes, PageStays
<1>6. QED
  BY <1>1, <1>3, <1>5, Untouched

\* A send that is over.
LEMMA Ended ==
  ASSUME HomeInv, NEW m \in Messages, Ends(m)
  PROVE  /\ call' \in [Messages -> Calling] /\ call'[m].via = "none"
         /\ \A n \in Messages : n # m => call'[n] = call[n]
BY DEF HomeInv, TypeOK, Ends, NoCall, Calling

\* The message it was about.
LEMMA OnItsWay ==
  ASSUME HomeInv, NEW m \in Messages, Under(m)
  PROVE  /\ m \in written /\ call[m].thread \in Threads
         /\ \A u \in Threads : IsAt(m, u) => u = call[m].thread
         /\ m \in astray \/ /\ m \notin accepted
                            /\ \A u \in Threads : m \notin Elements(queue[u]) /\ draft[u] # m
<1>1. Sound(m) /\ (m \in astray \/ Home(m))
  BY DEF HomeInv, Placed
<1>2. call[m].thread \in Threads /\ IsAt(m, call[m].thread)
  BY <1>1 DEF Sound, IsAt
<1>3. QED
  BY <1>1, <1>2 DEF Sound, Home

\* It is at its thread, whatever becomes of it.
LEMMA SettlesDown ==
  ASSUME HomeInv, NEW m \in Messages, Under(m), Ends(m), PageStays,
         \A u \in Threads : m \in Elements(queue'[u]) =>
                              m \in Elements(queue[u]) \/ (u = call[m].thread /\ m \notin stopped),
         \A u \in Threads : draft'[u] = m => draft[u] = m \/ u = call[m].thread,
         m \in astray \/ \A u, v \in Threads : ~(m \in Elements(queue'[u]) /\ draft'[v] = m),
         m \in accepted' => m \in accepted \/ (queue' = queue /\ draft' = draft),
         UNCHANGED <<written, stopped, astray>>
  PROVE  Placed(m)'
<1>1. Sound(m) /\ (m \in astray \/ Home(m))
  BY DEF HomeInv, Placed
<1>2. call'[m].via = "none"
  BY Ended
<1>3. /\ m \in written /\ call[m].thread \in Threads
      /\ \A u \in Threads : IsAt(m, u) => u = call[m].thread
      /\ m \in astray \/ /\ m \notin accepted
                         /\ \A u \in Threads : m \notin Elements(queue[u]) /\ draft[u] # m
  BY OnItsWay
<1>4. \A u \in Threads : IsAt(m, u)' => u = call[m].thread
  BY <1>2, <1>3 DEF IsAt, SeenIn, Under, PageStays
<1>5. m \in stopped => \A u \in Threads : m \notin Elements(queue'[u])
  BY <1>1 DEF Sound
<1>6. Sound(m)'
  BY <1>1, <1>2, <1>3, <1>4, <1>5 DEF Sound, Under, OfQueue, PageStays
<1>7. Home(m) => Home(m)' \/ m \in astray
  BY <1>2, <1>3 DEF Home, Under, PageStays
<1>8. QED
  BY <1>1, <1>6, <1>7 DEF Placed

LEMMA SentHome == ASSUME NEW m \in Messages PROVE HomeInv /\ Sent(m) => HomeInv'
<1> SUFFICES ASSUME HomeInv, Sent(m) PROVE HomeInv'
  OBVIOUS
<1>1. /\ Ends(m) /\ Under(m) /\ accepted' = accepted \cup {m}
      /\ UNCHANGED <<queue, inFlight, started, active, draft, written, stopped, deleted, seen, due, astray>>
  BY DEF Sent, userVars, pageVars
<1>2. busy' \in [Threads -> Modes]
  BY DEF Sent, HomeInv, TypeOK, Modes
<1>3. failures' \in [Messages -> 0 .. 2] /\ timers' \subseteq Messages
  <2>1. \/ failures' = [failures EXCEPT ![m] = 0] /\ timers' = timers \ {m}
        \/ UNCHANGED <<failures, timers>>
    BY DEF Sent
  <2>2. [failures EXCEPT ![m] = 0] \in [Messages -> 0 .. 2]
    BY DEF HomeInv, TypeOK
  <2>3. QED
    BY <2>1, <2>2 DEF HomeInv, TypeOK
<1>4. /\ call' \in [Messages -> Calling] /\ call'[m].via = "none"
      /\ \A n \in Messages : n # m => call'[n] = call[n]
  BY <1>1, Ended
<1>5. TypeOK' /\ PageStays
  BY <1>1, <1>2, <1>3, <1>4 DEF HomeInv, TypeOK, Calling, PageStays
<1>6. Placed(m)'
  <2>1. m \in astray \/ \A u \in Threads : m \notin Elements(queue[u])
    BY <1>1, OnItsWay
  <2>2. QED
    BY <1>1, <1>5, <2>1, SettlesDown
<1>7. ASSUME NEW n \in Messages, n # m PROVE Placed(n)'
  <2>1. n \in astray => n \in written
    BY DEF HomeInv, Placed, Sound
  <2>2. QED
    BY <1>1, <1>4, <1>5, <1>7, <2>1, Stays
<1>8. QED
  BY <1>1, <1>5, <1>6, <1>7, RenderedStays DEF HomeInv, Queues

\* A send whose message goes to its thread's queue, or nowhere.
LEMMA Requeued ==
  ASSUME HomeInv, TypeOK', NEW m \in Messages, Under(m), Ends(m), PageStays,
         NEW t \in Threads, t = call[m].thread,
         NEW S \in {Elements(queue[t]), Elements(queue[t]) \cup {m}},
         Holds(t, S), m \in S => m \notin stopped,
         UNCHANGED <<draft, written, stopped, accepted, astray>>
  PROVE  HomeInv'
<1>1. /\ call' \in [Messages -> Calling] /\ call'[m].via = "none"
      /\ \A n \in Messages : n # m => call'[n] = call[n]
  BY Ended
<1>2. m \in astray \/ \A u \in Threads : draft[u] # m
  BY OnItsWay
<1>3. \A u \in Threads : m \in Elements(queue'[u]) =>
                           m \in Elements(queue[u]) \/ (u = t /\ m \notin stopped)
  BY DEF Holds
<1>4. Placed(m)'
  BY <1>2, <1>3, SettlesDown
<1>5. ASSUME NEW n \in Messages, n # m PROVE Placed(n)'
  <2>1. n \in astray => n \in written
    BY DEF HomeInv, Placed, Sound
  <2>2. QED
    BY <1>1, <1>5, <2>1, Stays DEF Holds
<1>6. Rendered'
  BY RenderedStays DEF Holds
<1>7. QED
  BY <1>4, <1>5, <1>6 DEF HomeInv, Holds

\* What a steered message that comes back does to the queue.
LEMMA RestoreHolds ==
  ASSUME HomeInv, NEW m \in Messages, call[m].via = "steer", Restore(m)
  PROVE  \E t \in Threads : \E S \in {Elements(queue[t]), Elements(queue[t]) \cup {m}} :
           /\ t = call[m].thread /\ Holds(t, S) /\ (m \in S => m \notin stopped)
           /\ m \in S <=> call[m].fresh
<1>1. Under(m) /\ Sound(m) /\ OfQueue(m)
  BY DEF Under, HomeInv, Placed, OfQueue
<1>2. PICK t \in Threads : t = call[m].thread
  BY <1>1, OnItsWay
<1>3. IsQueue(queue[t])
  BY DEF HomeInv, Queues
<1>4. CASE call[m].fresh
  <2>1. PICK i \in Nat \ {0} : i = call[m].index
    BY <1>1 DEF HomeInv, TypeOK, Sound
  <2>2. queue' = [queue EXCEPT ![t] = Restored(queue[t], m, i)]
    BY <1>2, <1>4, <2>1 DEF Restore
  <2>3. IsQueue(Restored(queue[t], m, i)) /\ Elements(Restored(queue[t], m, i)) = Elements(queue[t]) \cup {m}
    <3>1. CASE m \in Elements(queue[t])
      BY <1>3, <3>1 DEF Restored
    <3>2. CASE m \notin Elements(queue[t])
      BY <1>3, <3>2, PutBackInPlace
    <3>3. QED
      BY <3>1, <3>2
  <2>4. Holds(t, Elements(queue[t]) \cup {m})
    BY <2>2, <2>3, OneChanges
  <2>5. m \notin stopped
    BY <1>1, <1>4 DEF Sound
  <2>6. QED
    BY <1>2, <1>4, <2>4, <2>5
<1>5. CASE ~call[m].fresh
  <2>1. Holds(t, Elements(queue[t]))
    BY <1>5, NoneChanges DEF Restore
  <2>2. m \notin Elements(queue[t])
    BY <1>1, <1>5 DEF Sound
  <2>3. QED
    BY <1>2, <1>5, <2>1, <2>2
<1>6. QED
  BY <1>4, <1>5

\* A send whose message the user gets back.
LEMMA Returned ==
  ASSUME HomeInv, TypeOK', NEW m \in Messages, Under(m), Ends(m), GivenBack(m), PageStays,
         UNCHANGED <<queue, written, stopped, accepted, astray>>
  PROVE  HomeInv'
<1>1. /\ call' \in [Messages -> Calling] /\ call'[m].via = "none"
      /\ \A n \in Messages : n # m => call'[n] = call[n]
  BY Ended
<1>2. PICK t \in Threads : t = call[m].thread
  BY OnItsWay
<1>3. \A u \in Threads : draft'[u] = IF u = t THEN m ELSE draft[u]
  BY <1>2 DEF GivenBack, HomeInv, TypeOK
<1>4. Placed(m)'
  <2>1. m \in astray \/ \A u \in Threads : m \notin Elements(queue[u])
    BY OnItsWay
  <2>2. QED
    BY <1>2, <1>3, <2>1, SettlesDown
<1>5. ASSUME NEW n \in Messages, n # m PROVE Placed(n)'
  <2>1. n \in astray => n \in written
    BY DEF HomeInv, Placed, Sound
  <2>2. QED
    BY <1>1, <1>3, <1>5, <2>1, Stays
<1>6. QED
  BY <1>4, <1>5, RenderedStays DEF HomeInv, Queues

LEMMA BlockedHome == ASSUME NEW m \in Messages PROVE HomeInv /\ Blocked(m) => HomeInv'
<1> SUFFICES ASSUME HomeInv, Blocked(m) PROVE HomeInv'
  OBVIOUS
<1>1. /\ Under(m) /\ Ends(m)
      /\ UNCHANGED <<timers, active, written, stopped, deleted, seen, due, accepted, astray>>
  BY DEF Blocked, pageVars, sentVars
<1>2. busy' \in [Threads -> Modes]
  BY DEF Blocked, HomeInv, TypeOK, Modes
<1>3. call' \in [Messages -> Calling] /\ PageStays
  BY <1>1, Ended DEF PageStays, HomeInv, TypeOK
<1>4. CASE call[m].via = "steer" /\ Restore(m) /\ UNCHANGED <<inFlight, started, failures, draft>>
  <2>1. PICK t \in Threads : \E S \in {Elements(queue[t]), Elements(queue[t]) \cup {m}} :
          t = call[m].thread /\ Holds(t, S) /\ (m \in S => m \notin stopped)
    BY <1>4, RestoreHolds
  <2>2. PICK S \in {Elements(queue[t]), Elements(queue[t]) \cup {m}} :
          t = call[m].thread /\ Holds(t, S) /\ (m \in S => m \notin stopped)
    BY <2>1
  <2>3. TypeOK'
    BY <1>1, <1>2, <1>3, <1>4, <2>2 DEF HomeInv, TypeOK, Calling, Holds
  <2>4. QED
    BY <1>1, <1>3, <1>4, <2>2, <2>3, Requeued
<1>5. CASE /\ call[m].via # "steer" /\ GivenBack(m) /\ UNCHANGED queue
           /\ inFlight' \in [Threads -> Messages \cup {None}] /\ started' \in [Threads -> BOOLEAN]
           /\ failures' \in [Messages -> 0 .. 2]
  <2>1. draft' \in [Threads -> Messages \cup {None}]
    BY <1>5 DEF GivenBack, HomeInv, TypeOK
  <2>2. TypeOK'
    BY <1>1, <1>2, <1>3, <1>5, <2>1 DEF HomeInv, TypeOK, Calling
  <2>3. QED
    BY <1>1, <1>3, <1>5, <2>2, Returned
<1>6. CASE /\ call[m].via = "flush" /\ Landed(call[m].thread) /\ GivenBack(m) /\ UNCHANGED queue
           /\ failures' = [failures EXCEPT ![m] = 0]
  <2>1. inFlight' \in [Threads -> Messages \cup {None}] /\ started' \in [Threads -> BOOLEAN]
    BY <1>6 DEF Landed, HomeInv, TypeOK
  <2>2. failures' \in [Messages -> 0 .. 2]
    BY <1>6 DEF HomeInv, TypeOK
  <2>3. QED
    BY <1>5, <1>6, <2>1, <2>2
<1>7. CASE /\ call[m].via \in {"direct", "directSteer"} /\ GivenBack(m)
           /\ UNCHANGED <<queue, inFlight, started, failures>>
  BY <1>5, <1>7 DEF HomeInv, TypeOK
<1>8. QED
  BY <1>4, <1>6, <1>7 DEF Blocked

LEMMA SteerFailsHome == ASSUME NEW m \in Messages PROVE HomeInv /\ SteerFails(m) => HomeInv'
<1> SUFFICES ASSUME HomeInv, SteerFails(m) PROVE HomeInv'
  OBVIOUS
<1>1. /\ Ends(m) /\ call[m].via \in {"steer", "directSteer"}
      /\ UNCHANGED <<inFlight, started, failures, timers, busy, active, draft, written,
                     stopped, deleted, seen, due, accepted, astray>>
  BY DEF SteerFails, viewVars, userVars, pageVars, sentVars
<1>2. Under(m)
  BY <1>1 DEF Under
<1>3. PICK t \in Threads : t = call[m].thread
  BY <1>2, OnItsWay
<1>4. PICK S \in {Elements(queue[t]), Elements(queue[t]) \cup {m}} :
        Holds(t, S) /\ (m \in S => m \notin stopped)
  <2>1. CASE call[m].via = "steer"
    BY <1>3, <2>1, RestoreHolds DEF SteerFails
  <2>2. CASE call[m].via = "directSteer"
    <3>1. m \notin Elements(queue[t]) /\ m \notin stopped
      BY <1>2, <2>2 DEF HomeInv, Placed, Sound
    <3>2. queue' = [queue EXCEPT ![t] = Append(queue[t], m)]
      BY <1>3, <2>2 DEF SteerFails
    <3>3. Holds(t, Elements(queue[t]) \cup {m})
      BY <3>1, <3>2, Appends
    <3>4. QED
      BY <3>1, <3>3
  <2>3. QED
    BY <1>1, <2>1, <2>2
<1>5. TypeOK' /\ PageStays
  BY <1>1, <1>4, Ended DEF HomeInv, TypeOK, Calling, Holds, PageStays
<1>6. QED
  BY <1>1, <1>2, <1>3, <1>4, <1>5, Requeued

LEMMA ThrowsHome == ASSUME NEW m \in Messages PROVE HomeInv /\ Throws(m) => HomeInv'
<1> SUFFICES ASSUME HomeInv, Throws(m) PROVE HomeInv'
  OBVIOUS
<1>1. /\ Ends(m) /\ Under(m)
      /\ UNCHANGED <<busy, active, draft, written, stopped, deleted, seen, due, accepted, astray>>
  BY DEF Throws, viewVars, userVars, pageVars, sentVars
<1>2. PICK t \in Threads : t = call[m].thread
  BY <1>1, OnItsWay
<1>3. IsQueue(queue[t]) /\ Sound(m)
  BY DEF HomeInv, Queues, Placed
<1>4. call' \in [Messages -> Calling] /\ PageStays
  BY <1>1, Ended DEF PageStays, HomeInv, TypeOK
<1>5. ASSUME NEW S \in {Elements(queue[t]), Elements(queue[t]) \cup {m}}, Holds(t, S),
             m \in S => m \notin stopped,
             inFlight' \in [Threads -> Messages \cup {None}], started' \in [Threads -> BOOLEAN],
             failures' \in [Messages -> 0 .. 2], timers' \subseteq Messages
      PROVE  HomeInv'
  <2>1. TypeOK'
    BY <1>1, <1>4, <1>5 DEF HomeInv, TypeOK, Calling, Holds
  <2>2. QED
    BY <1>1, <1>2, <1>4, <1>5, <2>1, Requeued
<1>6. CASE UNCHANGED hookVars
  <2>1. Holds(t, Elements(queue[t]))
    BY <1>6, NoneChanges DEF hookVars
  <2>2. m \in Elements(queue[t]) => m \notin stopped
    BY <1>3 DEF Sound
  <2>3. QED
    BY <1>5, <1>6, <2>1, <2>2 DEF hookVars, HomeInv, TypeOK
<1>7. CASE call[m].via = "flush" /\ Retry(m)
  <2>1. CASE ~call[m].fresh
    BY <1>6, <1>7, <2>1 DEF Retry, hookVars
  <2>2. CASE call[m].fresh
    <3>1. PICK n \in {1, 2} :
            /\ failures' = [failures EXCEPT ![m] = n]
            /\ timers' = IF n = 2 THEN timers \cup {m} ELSE timers
      BY <1>7, <2>2 DEF Retry
    <3>2. failures' \in [Messages -> 0 .. 2] /\ timers' \subseteq Messages
      BY <3>1 DEF HomeInv, TypeOK
    <3>3. inFlight' \in [Threads -> Messages \cup {None}] /\ started' \in [Threads -> BOOLEAN]
      BY <1>7, <2>2 DEF Retry, Landed, HomeInv, TypeOK
    <3>4. queue' = [queue EXCEPT ![t] = <<m>> \o queue[t]] /\ m \notin Elements(queue[t])
      BY <1>2, <1>7, <2>2 DEF Retry, PutBack, Queued
    <3>6. Holds(t, Elements(queue[t]) \cup {m})
      BY <3>4, Prepends
    <3>7. m \notin stopped
      BY <1>3, <1>7, <2>2 DEF Sound, OfQueue
    <3>8. QED
      BY <1>5, <3>2, <3>3, <3>6, <3>7
  <2>3. QED
    BY <2>1, <2>2
<1>8. CASE call[m].via = "steer" /\ Restore(m) /\ UNCHANGED <<inFlight, started, failures, timers>>
  <2>1. PICK S \in {Elements(queue[t]), Elements(queue[t]) \cup {m}} :
          Holds(t, S) /\ (m \in S => m \notin stopped)
    BY <1>2, <1>8, RestoreHolds
  <2>2. QED
    BY <1>5, <1>8, <2>1 DEF HomeInv, TypeOK
<1>9. QED
  BY <1>6, <1>7, <1>8 DEF Throws

LEMMA ThreadHome ==
  ASSUME NEW t \in Threads
  PROVE  HomeInv /\ (SwitchTo(t) \/ TurnOver(t) \/ TurnAsks(t) \/ Replied(t) \/ OtherTurn(t)) => HomeInv'
<1> SUFFICES ASSUME HomeInv,
                    SwitchTo(t) \/ TurnOver(t) \/ TurnAsks(t) \/ Replied(t) \/ OtherTurn(t)
             PROVE  HomeInv'
  OBVIOUS
<1>1. UNCHANGED <<queue, inFlight, started, failures, timers, draft, written, stopped, deleted, seen, due,
                  call, accepted, astray>>
  BY DEF SwitchTo, TurnOver, TurnAsks, Replied, OtherTurn, Thread, hookVars, userVars, pageVars, sentVars
<1>2. active' \in Threads /\ busy' \in [Threads -> Modes]
  BY DEF SwitchTo, TurnOver, TurnAsks, Replied, OtherTurn, Thread, viewVars, HomeInv, TypeOK, Modes
<1>3. TypeOK' /\ PageStays
  BY <1>1, <1>2 DEF HomeInv, TypeOK, PageStays
<1>4. QED
  BY <1>1, <1>3, Untouched

LEMMA TimerHome == ASSUME NEW m \in Messages PROVE HomeInv /\ TimerFires(m) => HomeInv'
<1> SUFFICES ASSUME HomeInv, TimerFires(m) PROVE HomeInv'
  OBVIOUS
<1>1. TypeOK' /\ PageStays
  BY DEF HomeInv, TypeOK, TimerFires, viewVars, userVars, pageVars, sentVars, PageStays
<1>2. QED
  BY <1>1, Untouched DEF TimerFires, viewVars, userVars, sentVars

LEMMA NextHome == HomeInv /\ [Next]_vars => HomeInv'
<1> SUFFICES ASSUME HomeInv, [Next]_vars PROVE HomeInv'
  OBVIOUS
<1>1. CASE UNCHANGED vars
  <2>1. TypeOK' /\ PageStays
    BY <1>1 DEF vars, hookVars, viewVars, userVars, pageVars, sentVars, HomeInv, TypeOK, PageStays
  <2>2. QED
    BY <1>1, <2>1, Untouched DEF vars, hookVars, viewVars, userVars, sentVars
<1>2. CASE Next
  BY <1>2, CommitHome, EffectsHome, ClearHome, ThreadHome, TypeHome, SubmitHome, DeleteHome, EditHome,
     SteerHome, BeginHome, SentHome, BlockedHome, SteerFailsHome, ThrowsHome, TimerHome
     DEF Next, Environment
<1>3. QED
  BY <1>1, <1>2

LEMMA HomeAlways == Spec => []HomeInv
BY InitHome, NextHome, PTL DEF Spec

-----------------------------------------------------------------------------
(* The theorems. *)

\* The state of the composer and its queues is always of its declared type
\* (useQueuedSend.ts).
THEOREM QueueTypes == Spec => []TypeOK
<1>1. HomeInv => TypeOK
  BY DEF HomeInv
<1>2. QED
  BY <1>1, HomeAlways, PTL

\* What the stop button took is not queued again: a send that fails late finds
\* another generation (useQueuedSend.ts:471-498), and what the last commit shows of
\* it can be neither flushed nor acted on before the next one.
THEOREM StoppedForGood == Spec => []StoppedStaysStopped
<1>1. HomeInv => StoppedStaysStopped
  <2> SUFFICES ASSUME HomeInv, NEW m \in stopped PROVE ~Queued(m)
    BY DEF StoppedStaysStopped
  <2>1. m \in Messages
    BY DEF HomeInv, TypeOK
  <2>2. Sound(m)
    BY <2>1 DEF HomeInv, Placed
  <2>3. QED
    BY <2>2 DEF Sound, Queued
<1>2. QED
  BY <1>1, HomeAlways, PTL

-----------------------------------------------------------------------------
(* The order of a queue. *)

\* What a queue keeps in order, and what it does not say twice.
LEMMA OneWay ==
  ASSUME NEW q, IsQueue(q), NEW m, NEW n, Ahead(q, m, n)
  PROVE  m \in Elements(q) /\ n \in Elements(q) /\ ~Ahead(q, n, m)
<1>1. DOMAIN q = 1..Len(q) /\ Len(q) \in Nat
  BY DEF IsQueue
<1>2. QED
  BY <1>1 DEF IsQueue, Distinct, Ahead, Elements

LEMMA OrderAppended ==
  ASSUME NEW q, IsQueue(q), NEW x \in Messages, NEW m, NEW n, Ahead(Append(q, x), n, m)
  PROVE  Ahead(q, n, m) \/ m = x
<1>1. PICK i, j \in DOMAIN Append(q, x) : i < j /\ Append(q, x)[i] = n /\ Append(q, x)[j] = m
  BY DEF Ahead
<1>2. /\ DOMAIN q = 1..Len(q) /\ Len(q) \in Nat /\ DOMAIN Append(q, x) = 1..(Len(q) + 1)
      /\ \A k \in DOMAIN Append(q, x) : Append(q, x)[k] = IF k = Len(q) + 1 THEN x ELSE q[k]
  BY DEF IsQueue
<1>3. CASE j = Len(q) + 1
  BY <1>1, <1>2, <1>3
<1>4. CASE j # Len(q) + 1
  <2>1. i \in DOMAIN q /\ j \in DOMAIN q /\ i < j /\ q[i] = n /\ q[j] = m
    BY <1>1, <1>2, <1>4
  <2>2. QED
    BY <2>1 DEF Ahead
<1>5. QED
  BY <1>3, <1>4

LEMMA OrderShortened ==
  ASSUME NEW q, IsQueue(q), q # <<>>
  PROVE  /\ \A m, n : Ahead(Tail(q), n, m) => Ahead(q, n, m)
         /\ \A m \in Elements(Tail(q)) : Ahead(q, Head(q), m)
<1>1. /\ DOMAIN q = 1..Len(q) /\ Len(q) \in Nat \ {0} /\ DOMAIN Tail(q) = 1..(Len(q) - 1)
      /\ \A k \in DOMAIN Tail(q) : Tail(q)[k] = q[k + 1]
      /\ Head(q) = q[1]
  BY DEF IsQueue
<1>2. ASSUME NEW m, NEW n, Ahead(Tail(q), n, m) PROVE Ahead(q, n, m)
  <2>1. PICK i, j \in DOMAIN Tail(q) : i < j /\ Tail(q)[i] = n /\ Tail(q)[j] = m
    BY <1>2 DEF Ahead
  <2>2. i + 1 \in DOMAIN q /\ j + 1 \in DOMAIN q /\ i + 1 < j + 1 /\ q[i + 1] = n /\ q[j + 1] = m
    BY <1>1, <2>1
  <2>3. QED
    BY <2>2 DEF Ahead
<1>3. ASSUME NEW m \in Elements(Tail(q)) PROVE Ahead(q, Head(q), m)
  <2>1. PICK j \in DOMAIN Tail(q) : Tail(q)[j] = m
    BY DEF Elements
  <2>2. 1 \in DOMAIN q /\ j + 1 \in DOMAIN q /\ 1 < j + 1 /\ q[j + 1] = m
    BY <1>1, <2>1
  <2>3. QED
    BY <1>1, <2>2 DEF Ahead
<1>4. QED
  BY <1>2, <1>3

LEMMA OrderPrepended ==
  ASSUME NEW q, IsQueue(q), NEW x \in Messages, NEW m, NEW n
  PROVE  Ahead(<<x>> \o q, n, m) <=> (n = x /\ m \in Elements(q)) \/ Ahead(q, n, m)
<1> DEFINE a == <<x>> \o q
<1>1. /\ DOMAIN q = 1..Len(q) /\ Len(q) \in Nat /\ DOMAIN a = 1..(Len(q) + 1)
      /\ \A j \in DOMAIN a : a[j] = IF j = 1 THEN x ELSE q[j - 1]
  BY DEF IsQueue
<1> HIDE DEF a
<1>2. ASSUME Ahead(a, n, m) PROVE (n = x /\ m \in Elements(q)) \/ Ahead(q, n, m)
  <2>1. PICK i, j \in DOMAIN a : i < j /\ a[i] = n /\ a[j] = m
    BY <1>2 DEF Ahead
  <2>2. j - 1 \in DOMAIN q /\ q[j - 1] = m
    BY <1>1, <2>1
  <2>3. CASE i = 1
    BY <1>1, <2>1, <2>2, <2>3 DEF Elements
  <2>4. CASE i # 1
    <3>1. i - 1 \in DOMAIN q /\ i - 1 < j - 1 /\ q[i - 1] = n
      BY <1>1, <2>1, <2>4
    <3>2. QED
      BY <2>2, <3>1 DEF Ahead
  <2>5. QED
    BY <2>3, <2>4
<1>3. ASSUME n = x, m \in Elements(q) PROVE Ahead(a, n, m)
  <2>1. PICK j \in DOMAIN q : q[j] = m
    BY <1>3 DEF Elements
  <2>2. 1 \in DOMAIN a /\ j + 1 \in DOMAIN a /\ 1 < j + 1 /\ a[1] = x /\ a[j + 1] = m
    BY <1>1, <2>1
  <2>3. QED
    BY <1>3, <2>2 DEF Ahead
<1>4. ASSUME Ahead(q, n, m) PROVE Ahead(a, n, m)
  <2>1. PICK i, j \in DOMAIN q : i < j /\ q[i] = n /\ q[j] = m
    BY <1>4 DEF Ahead
  <2>2. /\ i + 1 \in DOMAIN a /\ j + 1 \in DOMAIN a /\ i + 1 < j + 1
        /\ a[i + 1] = n /\ a[j + 1] = m
    BY <1>1, <2>1
  <2>3. QED
    BY <2>2 DEF Ahead
<1>5. QED
  BY <1>2, <1>3, <1>4 DEF a

LEMMA OrderRemoved ==
  ASSUME NEW q, IsQueue(q), NEW x \in Messages, NEW m, NEW n, Ahead(Without(q, x), n, m)
  PROVE  Ahead(q, n, m)
<1>1. CASE x \notin Elements(q)
  BY <1>1 DEF Without
<1>2. CASE x \in Elements(q)
  <2>1. DOMAIN q = 1..Len(q) /\ Len(q) \in Nat
    BY DEF IsQueue
  <2>2. PICK i \in 1..Len(q) : i = Index(q, x)
    BY <1>2, <2>1 DEF Index, Elements
  <2> DEFINE a == RemoveAt(q, i)
  <2>3. /\ DOMAIN a = 1..(Len(q) - 1)
        /\ \A j \in DOMAIN a : a[j] = IF j < i THEN q[j] ELSE q[j + 1]
    BY RemovedAt
  <2>4. Ahead(a, n, m)
    BY <1>2, <2>2 DEF Without
  <2> HIDE DEF a
  <2>5. PICK k, l \in DOMAIN a : k < l /\ a[k] = n /\ a[l] = m
    BY <2>4 DEF Ahead
  <2> DEFINE of(j) == IF j < i THEN j ELSE j + 1
  <2>6. of(k) \in DOMAIN q /\ of(l) \in DOMAIN q /\ of(k) < of(l) /\ q[of(k)] = n /\ q[of(l)] = m
    BY <2>1, <2>3, <2>5
  <2> HIDE DEF of
  <2>7. QED
    BY <2>6 DEF Ahead
<1>3. QED
  BY <1>1, <1>2

LEMMA OneOrTheOther ==
  ASSUME NEW q, IsQueue(q), NEW m \in Elements(q), NEW n \in Elements(q), m # n
  PROVE  Ahead(q, m, n) \/ Ahead(q, n, m)
<1>1. PICK i, j \in DOMAIN q : q[i] = m /\ q[j] = n
  BY DEF Elements
<1>2. i < j \/ j < i
  BY <1>1 DEF IsQueue
<1>3. QED
  BY <1>1, <1>2 DEF Ahead

-----------------------------------------------------------------------------
(* One send of a thread at a time, when a turn is rendered and its start     *)
(* answered before it is over, and nothing is steered.                       *)

\* No message can be queued behind a turn that the composer still shows.
Quiet(t) == seen.active = t => seen.busy # "turn"

\* Effects that are due see m in flight, and a turn of it neither now nor before.
InFlightSeen(m, t) ==
  "effects" \in due /\ seen.active = t =>
    seen.busy \notin Working /\ seen.inFlight = m /\ ~seen.started

\* Nothing is flushed beside the send of m: its thread works, or has nothing
\* queued, or m is in flight and its turn has not been seen.
Unrivalled(m) ==
  LET t == call[m].thread IN
  \/ busy[t] \in Working
  \/ /\ Quiet(t)
     /\ queue[t] = <<>> \/ (inFlight[t] = m /\ ~started[t] /\ InFlightSeen(m, t))

\* The effects that are due flush the queue of t, as far as its timers let them.
ToFlush(t) ==
  /\ "effects" \in due /\ seen.active = t /\ seen.busy = "idle"
  /\ seen.inFlight = None /\ seen.queue # <<>>

\* What they send is still first, if it is still there.
HeadStays(t) ==
  LET m == Head(seen.queue) IN
  m \in Elements(queue[t]) => \A n \in Elements(queue[t]) : n = m \/ Ahead(queue[t], m, n)

Apart(m) ==
  Unrivalled(m) /\ ~ToFlush(call[m].thread) /\ \A t \in Threads : m \notin Elements(queue[t])

OneInv ==
  /\ \A m \in Messages : call[m].via \in {"none", "direct", "flush"}
  /\ \A m, n \in Messages : Starts(m) /\ Starts(n) /\ call[m].thread = call[n].thread => m = n
  /\ \A m \in Messages : Starts(m) => Apart(m)
  /\ \A t \in Threads : ToFlush(t) => HeadStays(t)

\* While a thread has a send, the others are at other threads.
LEMMA OthersElsewhere ==
  ASSUME HomeInv, OneInv, NEW m \in Messages, Starts(m), NEW n \in Messages, Starts(n), n # m
  PROVE  call[n].thread # call[m].thread
BY DEF OneInv

\* A send that starts a turn has a thread.
LEMMA StartsSomewhere ==
  ASSUME HomeInv, NEW m \in Messages, Starts(m)
  PROVE  Under(m) /\ call[m].thread \in Threads
BY DEF HomeInv, Placed, Sound, Starts, Under

LEMMA OneInit == Init => OneInv
<1> SUFFICES ASSUME Init PROVE OneInv
  OBVIOUS
<1>1. (\A m \in Messages : call[m].via = "none") /\ due = {}
  BY DEF Init, NoCall
<1>2. QED
  BY <1>1 DEF OneInv, Starts, ToFlush

\* A step that starts and ends no send, and leaves them alone.
LEMMA OneKept ==
  ASSUME HomeInv, OneInv,
         \A m \in Messages : call'[m].via = call[m].via /\ call'[m].thread = call[m].thread,
         \A m \in Messages : Starts(m) => Apart(m)',
         \A t \in Threads : ToFlush(t)' => HeadStays(t)'
  PROVE  OneInv'
BY DEF OneInv, Starts

\* The message that is flushed is no longer queued.
LEMMA FlushTakes ==
  ASSUME NEW q, IsQueue(q), NEW m \in Elements(q),
         \A n \in Elements(q) : n = m \/ Ahead(q, m, n)
  PROVE  m \notin Elements(Slice(q))
<1>1. q # <<>>
  BY DEF Elements
<1>2. m = Head(q)
  <2> SUFFICES ASSUME m # Head(q) PROVE FALSE
    OBVIOUS
  <2>1. Head(q) \in Elements(q) /\ m \in Elements(Tail(q))
    BY <1>1, Shortened
  <2>2. Ahead(q, m, Head(q)) /\ Ahead(q, Head(q), m)
    BY <1>1, <2>1, OrderShortened
  <2>3. QED
    BY <2>2, OneWay
<1>3. QED
  BY <1>1, <1>2, Shortened DEF Slice

LEMMA OneCommit == HomeInv /\ OneInv /\ Commit => OneInv'
<1> SUFFICES ASSUME HomeInv, OneInv, Commit PROVE OneInv'
  OBVIOUS
<1>1. /\ UNCHANGED <<queue, inFlight, started, busy, active, call>> /\ active \in Threads
      /\ seen'.active = active /\ seen'.busy = busy[active] /\ seen'.queue = queue[active]
      /\ seen'.inFlight = inFlight[active] /\ seen'.started = started[active]
  BY DEF Commit, hookVars, viewVars, Now, HomeInv, TypeOK
<1>2. ASSUME NEW m \in Messages, Starts(m) PROVE Apart(m)'
  <2>1. Apart(m) /\ call[m].thread \in Threads
    BY <1>2, StartsSomewhere DEF OneInv
  <2>2. Unrivalled(m)'
    BY <1>1, <2>1 DEF Apart, Unrivalled, Quiet, InFlightSeen, Working
  <2>3. ~ToFlush(call[m].thread)'
    BY <1>1, <2>1, NoneIsNoMessage DEF Apart, Unrivalled, ToFlush, Working
  <2>4. QED
    BY <1>1, <2>1, <2>2, <2>3 DEF Apart
<1>3. ASSUME NEW t \in Threads, ToFlush(t)' PROVE HeadStays(t)'
  <2>1. t = active /\ seen'.queue = queue[t] /\ queue[t] # <<>> /\ IsQueue(queue[t])
    BY <1>1, <1>3 DEF ToFlush, HomeInv, Queues
  <2>2. \A n \in Elements(queue[t]) : n = Head(queue[t]) \/ Ahead(queue[t], Head(queue[t]), n)
    BY <2>1, Shortened, OrderShortened
  <2>3. QED
    BY <1>1, <2>1, <2>2 DEF HeadStays
<1>4. QED
  BY <1>1, <1>2, <1>3, OneKept

LEMMA OneEffects == HomeInv /\ OneInv /\ Effects => OneInv'
<1> SUFFICES ASSUME HomeInv, OneInv, Effects PROVE OneInv'
  OBVIOUS
<1>1. UNCHANGED <<busy, seen>> /\ "effects" \in due /\ "effects" \notin due'
  BY DEF Effects, viewVars
<1>2. \A t \in Threads : ~ToFlush(t)'
  BY <1>1 DEF ToFlush
<1>3. CASE Flush
  <2>1. PICK t \in Threads, m \in Messages, S \in SUBSET Messages :
          /\ t = seen.active /\ m = Head(seen.queue) /\ m \in Elements(seen.queue)
          /\ Holds(t, Elements(queue[t]) \ S)
          /\ queue' = [queue EXCEPT ![t] = Slice(queue[t])]
          /\ inFlight' = [inFlight EXCEPT ![t] = m] /\ started' = [started EXCEPT ![t] = FALSE]
          /\ call' = [call EXCEPT ![m] = [via |-> "flush", thread |-> t, index |-> 0,
                                          fresh |-> TRUE, begun |-> FALSE]]
          /\ seen.busy = "idle" /\ seen.inFlight = None
    BY <1>3, FlushMoves
  <2>2. ToFlush(t)
    BY <1>1, <1>3, <2>1 DEF ToFlush, Flush, MayFlush
  <2>3. /\ call'[m].via = "flush" /\ call'[m].thread = t
        /\ \A n \in Messages : n # m => call'[n] = call[n]
    BY <2>1 DEF HomeInv, TypeOK
  <2>4. \A n \in Messages : Starts(n) => call[n].thread # t
    BY <2>2 DEF OneInv, Apart
  <2>5. Apart(m)'
    <3>1. Unrivalled(m)'
      BY <1>1, <2>1, <2>3 DEF Unrivalled, Quiet, InFlightSeen, HomeInv, TypeOK
    <3>2. \A u \in Threads \ {t} : m \notin Elements(queue'[u])
      <4>1. Sound(m) /\ IsAt(m, t)
        BY <2>1 DEF HomeInv, Placed, IsAt, SeenIn
      <4>2. QED
        BY <2>1, <4>1 DEF Sound, IsAt, Holds
    <3>3. m \notin Elements(queue'[t])
      <4>1. IsQueue(queue[t]) /\ HeadStays(t) /\ queue'[t] = Slice(queue[t])
        BY <2>1, <2>2 DEF HomeInv, TypeOK, Queues, OneInv
      <4>2. CASE m \in Elements(queue[t])
        BY <2>1, <4>1, <4>2, FlushTakes DEF HeadStays
      <4>3. CASE m \notin Elements(queue[t])
        BY <2>1, <4>3 DEF Holds
      <4>4. QED
        BY <4>2, <4>3
    <3>4. QED
      BY <1>2, <2>1, <2>3, <3>1, <3>2, <3>3 DEF Apart
  <2>6. ASSUME NEW n \in Messages, n # m, Starts(n) PROVE Apart(n)'
    <3>1. Apart(n) /\ call[n].thread # t /\ call'[n] = call[n] /\ call[n].thread \in Threads
      BY <2>3, <2>4, <2>6, StartsSomewhere DEF OneInv
    <3>2. /\ queue'[call[n].thread] = queue[call[n].thread]
          /\ inFlight'[call[n].thread] = inFlight[call[n].thread]
          /\ started'[call[n].thread] = started[call[n].thread]
      BY <2>1, <3>1 DEF HomeInv, TypeOK
    <3>3. Unrivalled(n)'
      BY <1>1, <3>1, <3>2 DEF Apart, Unrivalled, Quiet, InFlightSeen
    <3>4. QED
      BY <1>2, <2>1, <3>1, <3>3 DEF Apart, Holds
  <2>7. QED
    BY <1>2, <2>3, <2>4, <2>5, <2>6 DEF OneInv, Starts
<1>4. CASE InFlightEffect \/ NoEffect
  <2>1. UNCHANGED <<queue, call>>
    BY <1>4 DEF InFlightEffect, NoEffect
  <2>2. ASSUME NEW m \in Messages, Starts(m) PROVE Apart(m)'
    <3>1. PICK t \in Threads : t = call[m].thread
      BY <2>2, StartsSomewhere
    <3>2. Apart(m)
      BY <2>2 DEF OneInv
    <3>3. inFlight[t] = m /\ ~started[t] /\ InFlightSeen(m, t) =>
            inFlight'[t] = m /\ ~started'[t] /\ InFlightSeen(m, t)'
      BY <1>1, <1>4 DEF InFlightEffect, NoEffect, InFlightSeen, HomeInv, TypeOK
    <3>4. Unrivalled(m)'
      BY <1>1, <2>1, <3>1, <3>2, <3>3 DEF Apart, Unrivalled, Quiet
    <3>5. QED
      BY <1>2, <2>1, <3>1, <3>2, <3>4 DEF Apart
  <2>3. QED
    BY <1>2, <2>1, <2>2, OneKept
<1>5. QED
  BY <1>3, <1>4 DEF Effects

LEMMA OneSubmit ==
  ASSUME Orderly, ~Steering, NEW m \in Messages PROVE HomeInv /\ OneInv /\ Submit(m) => OneInv'
<1> SUFFICES ASSUME HomeInv, OneInv, Submit(m) PROVE OneInv'
  OBVIOUS
<1>1. PICK t \in Threads : t = seen.active
  BY DEF HomeInv, TypeOK
<1>2. /\ UNCHANGED <<inFlight, started, busy, seen>> /\ "render" \notin due
      /\ "effects" \in due' <=> "effects" \in due
      /\ \A u \in Threads : m \notin Elements(queue[u])
  BY DEF Submit, Act, Queued, viewVars
<1>3. CASE seen.busy = "turn" /\ queue' = [queue EXCEPT ![t] = Append(@, m)] /\ UNCHANGED call
  <2>1. /\ \A u \in Threads : ~ToFlush(u)'
        /\ Holds(t, Elements(queue[t]) \cup {m})
    BY <1>2, <1>3, Appends DEF ToFlush
  <2>2. ASSUME NEW n \in Messages, Starts(n) PROVE Apart(n)'
    <3>1. Apart(n) /\ call[n].thread \in Threads /\ n # m
      <4>1. ~Under(m)
        BY DEF Submit
      <4>2. QED
        BY <2>2, <4>1, StartsSomewhere DEF OneInv
    <3>2. CASE call[n].thread = t
      BY <1>1, <1>2, <1>3, <2>1, <3>1, <3>2 DEF Apart, Unrivalled, Quiet, Holds
    <3>3. CASE call[n].thread # t
      <4>1. queue'[call[n].thread] = queue[call[n].thread]
        BY <1>3, <3>1, <3>3 DEF HomeInv, TypeOK
      <4>2. Unrivalled(n)'
        BY <1>2, <1>3, <3>1, <4>1 DEF Apart, Unrivalled, Quiet, InFlightSeen
      <4>3. QED
        BY <1>3, <2>1, <3>1, <4>2 DEF Apart, Holds
    <3>4. QED
      BY <3>2, <3>3
  <2>3. QED
    BY <1>3, <2>1, <2>2, OneKept
<1>4. CASE seen.busy \in {"idle", "held"} /\ Alone(t) /\ Calls(m, "direct", t, 0) /\ UNCHANGED queue
  <2>1. call' = [call EXCEPT ![m] = [via |-> "direct", thread |-> t, index |-> 0, fresh |-> TRUE,
                                     begun |-> FALSE]]
    BY <1>4 DEF Calls
  <2>2. /\ call'[m].via = "direct" /\ call'[m].thread = t
        /\ \A n \in Messages : n # m => call'[n] = call[n]
    BY <2>1 DEF HomeInv, TypeOK
  <2>3. queue'[t] = <<>> /\ \A n \in Messages : call[n].thread # t
    BY <1>4 DEF Alone
  <2>4. \A u \in Threads : ~ToFlush(u) /\ ~ToFlush(u)'
    <3>1. Elements(queue[t]) = {}
      BY <1>4, <2>3 DEF Elements
    <3>2. "effects" \in due => Elements(seen.queue) = {}
      BY <1>1, <1>2, <3>1 DEF HomeInv, Rendered
    <3>3. seen.queue # <<>> => Elements(seen.queue) # {}
      <4>1. seen.queue \in Seq(Messages)
        BY DEF HomeInv, TypeOK
      <4>2. seen.queue # <<>> => 1 \in DOMAIN seen.queue
        BY <4>1
      <4>3. QED
        BY <4>2 DEF Elements
    <3>4. QED
      BY <1>2, <3>2, <3>3 DEF ToFlush
  <2>5. Apart(m)'
    <3>1. Unrivalled(m)'
      BY <1>2, <1>4, <2>2, <2>3 DEF Unrivalled, Quiet
    <3>2. QED
      BY <1>1, <1>2, <1>4, <2>2, <2>4, <3>1 DEF Apart
  <2>6. ASSUME NEW n \in Messages, n # m, Starts(n) PROVE Apart(n)'
    <3>1. Apart(n) /\ call[n].thread \in Threads /\ call'[n] = call[n]
      BY <2>2, <2>6, StartsSomewhere DEF OneInv
    <3>2. Unrivalled(n)'
      BY <1>2, <1>4, <3>1 DEF Apart, Unrivalled, Quiet, InFlightSeen
    <3>3. QED
      BY <1>4, <2>4, <3>1, <3>2 DEF Apart
  <2>7. QED
    BY <2>2, <2>3, <2>4, <2>5, <2>6 DEF OneInv, Starts
<1>5. QED
  BY <1>1, <1>3, <1>4 DEF Submit

\* What is first of a queue stays so when another one is taken out.
LEMMA FirstStays ==
  ASSUME NEW q, IsQueue(q), NEW x \in Messages, NEW m, NEW n \in Elements(Without(q, x)),
         m \in Elements(Without(q, x)), n = m \/ Ahead(q, m, n)
  PROVE  n = m \/ Ahead(Without(q, x), m, n)
<1> SUFFICES ASSUME n # m PROVE Ahead(Without(q, x), m, n)
  OBVIOUS
<1>1. IsQueue(Without(q, x))
  BY Removed
<1>2. ~Ahead(q, n, m)
  BY OneWay
<1>3. ~Ahead(Without(q, x), n, m)
  BY <1>2, OrderRemoved
<1>4. QED
  BY <1>1, <1>3, OneOrTheOther

\* Deleting or editing a queued message.
LEMMA OneRemove ==
  ASSUME NEW m \in Messages
  PROVE  HomeInv /\ OneInv /\ (DeleteQueued(m) \/ EditQueued(m)) => OneInv'
<1> SUFFICES ASSUME HomeInv, OneInv, DeleteQueued(m) \/ EditQueued(m) PROVE OneInv'
  OBVIOUS
<1>1. RemoveQueued(m) /\ Act /\ UNCHANGED <<busy, seen, call>>
  BY DEF DeleteQueued, EditQueued, viewVars
<1>2. PICK t \in Threads : t = seen.active
  BY DEF HomeInv, TypeOK
<1>3. /\ queue' = [queue EXCEPT ![t] = Without(queue[t], m)] /\ UNCHANGED <<inFlight, started>>
      /\ "effects" \in due' <=> "effects" \in due
      /\ Holds(t, Elements(queue[t]) \ {m}) /\ IsQueue(queue[t])
      /\ queue'[t] = Without(queue[t], m)
  <2>1. queue' = [queue EXCEPT ![t] = Without(queue[t], m)] /\ UNCHANGED <<inFlight, started>>
    BY <1>1, <1>2 DEF RemoveQueued
  <2>2. "effects" \in due' <=> "effects" \in due
    BY <1>1 DEF Act
  <2>3. Holds(t, Elements(queue[t]) \ {m})
    BY <1>1, <1>2, RemovedShown
  <2>4. QED
    BY <2>1, <2>2, <2>3 DEF HomeInv, Queues, TypeOK
<1>4. ASSUME NEW n \in Messages, Starts(n) PROVE Apart(n)'
  <2>1. Apart(n) /\ call[n].thread \in Threads
    BY <1>4, StartsSomewhere DEF OneInv
  <2>2. call[n].thread # t => queue'[call[n].thread] = queue[call[n].thread]
    BY <1>3, <2>1 DEF HomeInv, TypeOK
  <2>3. queue[t] = <<>> => queue'[t] = <<>>
    BY <1>3 DEF Without, Elements
  <2>4. Unrivalled(n)'
    BY <1>1, <1>3, <2>1, <2>2, <2>3 DEF Apart, Unrivalled, Quiet, InFlightSeen
  <2>5. QED
    BY <1>1, <1>3, <2>1, <2>4 DEF Apart, ToFlush, Holds
<1>5. ASSUME NEW u \in Threads, ToFlush(u)' PROVE HeadStays(u)'
  <2>1. ToFlush(u) /\ HeadStays(u) /\ u = t
    BY <1>1, <1>2, <1>3, <1>5 DEF ToFlush, OneInv
  <2>2. QED
    BY <1>1, <1>3, <2>1, FirstStays DEF HeadStays, Holds
<1>6. QED
  BY <1>1, <1>4, <1>5, OneKept

LEMMA OneClear == HomeInv /\ OneInv /\ ClearQueued => OneInv'
<1> SUFFICES ASSUME HomeInv, OneInv, ClearQueued PROVE OneInv'
  OBVIOUS
<1>1. PICK t \in Threads : t = seen.active
  BY DEF HomeInv, TypeOK
<1>2. /\ queue' = [queue EXCEPT ![t] = <<>>] /\ inFlight' = [inFlight EXCEPT ![t] = None]
      /\ started' = [started EXCEPT ![t] = FALSE] /\ call' = ClearedCalls(t)
      /\ "effects" \in due' <=> "effects" \in due
      /\ UNCHANGED <<busy, seen>> /\ seen.busy \in Working
  BY <1>1 DEF ClearQueued, Act, viewVars
<1>3. \A n \in Messages : call'[n].via = call[n].via /\ call'[n].thread = call[n].thread
  BY <1>2, ClearedKeeps
<1>4. \A u \in Threads :
        /\ ~ToFlush(u)'
        /\ IF u = t THEN queue'[u] = <<>> /\ Elements(queue'[u]) = {}
           ELSE queue'[u] = queue[u] /\ inFlight'[u] = inFlight[u] /\ started'[u] = started[u]
  BY <1>2 DEF HomeInv, TypeOK, Elements, ToFlush, Working
<1>5. ASSUME NEW n \in Messages, Starts(n) PROVE Apart(n)'
  <2>1. Apart(n) /\ call[n].thread \in Threads
    BY <1>5, StartsSomewhere DEF OneInv
  <2>2. Unrivalled(n)'
    BY <1>2, <1>3, <1>4, <2>1 DEF Apart, Unrivalled, Quiet, InFlightSeen
  <2>3. QED
    BY <1>3, <1>4, <2>1, <2>2 DEF Apart
<1>6. QED
  BY <1>3, <1>4, <1>5, OneKept

LEMMA OneBegin == ASSUME NEW m \in Messages PROVE HomeInv /\ OneInv /\ Begin(m) => OneInv'
<1> SUFFICES ASSUME HomeInv, OneInv, Begin(m) PROVE OneInv'
  OBVIOUS
<1>1. /\ Starts(m) /\ call' = [call EXCEPT ![m].begun = TRUE]
      /\ UNCHANGED <<queue, inFlight, started, seen, due>>
  BY DEF Begin, hookVars, pageVars
<1>2. PICK kind \in Working : busy' = [busy EXCEPT ![call[m].thread] = kind]
  BY DEF Begin, Working
<1>3. \A n \in Messages : call'[n].via = call[n].via /\ call'[n].thread = call[n].thread
  BY <1>1, BegunKeeps
<1>4. ASSUME NEW n \in Messages, Starts(n) PROVE Apart(n)'
  <2>1. Apart(n) /\ call[n].thread \in Threads
    BY <1>4, StartsSomewhere DEF OneInv
  <2>2. Unrivalled(n)'
    <3>1. CASE n = m
      BY <1>2, <1>3, <2>1, <3>1 DEF Unrivalled, HomeInv, TypeOK
    <3>2. CASE n # m
      <4>1. call[n].thread # call[m].thread
        BY <1>1, <1>4, <3>2, OthersElsewhere
      <4>2. busy'[call[n].thread] = busy[call[n].thread]
        BY <1>2, <2>1, <4>1 DEF HomeInv, TypeOK
      <4>3. QED
        BY <1>1, <1>3, <2>1, <4>2 DEF Apart, Unrivalled, Quiet, InFlightSeen
    <3>3. QED
      BY <3>1, <3>2
  <2>3. QED
    BY <1>1, <1>3, <2>1, <2>2 DEF Apart, ToFlush
<1>5. \A t \in Threads : ToFlush(t)' => HeadStays(t)'
  BY <1>1 DEF OneInv, ToFlush, HeadStays
<1>6. QED
  BY <1>3, <1>4, <1>5, OneKept

\* The end of a send that starts a turn: of its thread anything may change, but
\* only its message is queued.
LEMMA OneEnds ==
  ASSUME HomeInv, OneInv, NEW m \in Messages, Starts(m), Ends(m), UNCHANGED <<seen, due>>,
         \A u \in Threads \ {call[m].thread} :
           /\ queue'[u] = queue[u] /\ inFlight'[u] = inFlight[u]
           /\ started'[u] = started[u] /\ busy'[u] = busy[u],
         \A u \in Threads : Elements(queue'[u]) \subseteq Elements(queue[u]) \cup {m}
  PROVE  OneInv'
<1>1. call'[m].via = "none" /\ \A n \in Messages : n # m => call'[n] = call[n]
  BY Ended
<1>2. ASSUME NEW n \in Messages, n # m, Starts(n) PROVE Apart(n)'
  <2>1. Apart(n) /\ call[n].thread \in Threads
    BY <1>2, StartsSomewhere DEF OneInv
  <2>2. call[n].thread # call[m].thread
    BY <1>2, OthersElsewhere
  <2>3. Unrivalled(n)'
    BY <1>1, <1>2, <2>1, <2>2 DEF Apart, Unrivalled, Quiet, InFlightSeen
  <2>4. QED
    BY <1>1, <1>2, <2>1, <2>3 DEF Apart, ToFlush
<1>3. ASSUME NEW t \in Threads, ToFlush(t)' PROVE HeadStays(t)'
  <2>1. ToFlush(t) /\ HeadStays(t) /\ t # call[m].thread
    BY <1>3 DEF ToFlush, OneInv, Apart
  <2>2. QED
    BY <2>1 DEF HeadStays
<1>4. QED
  BY <1>1, <1>2, <1>3 DEF OneInv, Starts

LEMMA OneEnvironment ==
  ASSUME NEW m \in Messages PROVE HomeInv /\ OneInv /\ Environment(m) => OneInv'
<1> SUFFICES ASSUME HomeInv, OneInv, Environment(m) PROVE OneInv'
  OBVIOUS
<1>1. Under(m) => Starts(m) /\ call[m].thread \in Threads
  BY StartsSomewhere DEF OneInv, Under, Starts
<1>2. CASE Begin(m)
  BY <1>2, OneBegin
<1>3. CASE Sent(m)
  <2>1. Under(m) /\ Ends(m) /\ UNCHANGED <<queue, inFlight, started, seen, due>>
    BY <1>3 DEF Sent, pageVars
  <2>2. \A u \in Threads \ {call[m].thread} : busy'[u] = busy[u]
    BY <1>1, <1>3, <2>1 DEF Sent, HomeInv, TypeOK
  <2>3. QED
    BY <1>1, <2>1, <2>2, OneEnds
<1>4. CASE Blocked(m)
  <2>1. Under(m) /\ Ends(m) /\ UNCHANGED <<seen, due>>
    BY <1>4 DEF Blocked, pageVars
  <2>2. \A u \in Threads \ {call[m].thread} : busy'[u] = busy[u]
    BY <1>1, <1>4, <2>1 DEF Blocked, HomeInv, TypeOK
  <2>3. UNCHANGED queue
    BY <1>1, <1>4, <2>1 DEF Blocked, Starts
  <2>4. \A u \in Threads \ {call[m].thread} : inFlight'[u] = inFlight[u] /\ started'[u] = started[u]
    BY <1>1, <1>4, <2>1 DEF Blocked, Landed, Starts, HomeInv, TypeOK
  <2>5. QED
    BY <1>1, <2>1, <2>2, <2>3, <2>4, OneEnds
<1>5. CASE SteerFails(m)
  BY <1>5 DEF SteerFails, OneInv
<1>6. CASE Throws(m)
  <2>1. Under(m) /\ Ends(m) /\ UNCHANGED <<seen, due, busy>>
    BY <1>6 DEF Throws, viewVars, pageVars
  <2>2. PICK t \in Threads : t = call[m].thread
    BY <1>1, <2>1
  <2>3. \/ UNCHANGED <<queue, inFlight, started>>
        \/ /\ Landed(t) /\ ~Queued(m) /\ queue' = [queue EXCEPT ![t] = <<m>> \o queue[t]]
    BY <1>1, <1>6, <2>1, <2>2 DEF Throws, Starts, Retry, PutBack, hookVars
  <2>4. \A u \in Threads \ {t} :
          queue'[u] = queue[u] /\ inFlight'[u] = inFlight[u] /\ started'[u] = started[u]
    BY <2>2, <2>3 DEF Landed, HomeInv, TypeOK
  <2>5. \A u \in Threads : Elements(queue'[u]) \subseteq Elements(queue[u]) \cup {m}
    <3>1. CASE UNCHANGED <<queue, inFlight, started>>
      BY <3>1
    <3>2. CASE ~Queued(m) /\ queue' = [queue EXCEPT ![t] = <<m>> \o queue[t]]
      <4>1. m \notin Elements(queue[t])
        BY <3>2 DEF Queued
      <4>2. Holds(t, Elements(queue[t]) \cup {m})
        BY <3>2, <4>1, Prepends
      <4>3. QED
        BY <4>2 DEF Holds
    <3>3. QED
      BY <2>3, <3>1, <3>2
  <2>6. QED
    BY <1>1, <2>1, <2>2, <2>4, <2>5, OneEnds
<1>7. QED
  BY <1>2, <1>3, <1>4, <1>5, <1>6 DEF Environment

\* Steps that neither touch a queue nor what is due.
LEMMA OneElsewhere ==
  ASSUME HomeInv, OneInv, UNCHANGED <<queue, inFlight, started, seen, due, call>>,
         \A n \in Messages : Starts(n) => busy'[call[n].thread] = busy[call[n].thread]
  PROVE  OneInv'
<1>1. \A n \in Messages : Starts(n) => Apart(n)'
  BY DEF OneInv, Apart, Unrivalled, Quiet, InFlightSeen, ToFlush
<1>2. \A t \in Threads : ToFlush(t)' => HeadStays(t)'
  BY DEF OneInv, ToFlush, HeadStays
<1>3. QED
  BY <1>1, <1>2, OneKept

LEMMA OneThread ==
  ASSUME Orderly, NEW t \in Threads
  PROVE  HomeInv /\ OneInv
         /\ (SwitchTo(t) \/ TurnOver(t) \/ TurnAsks(t) \/ Replied(t) \/ OtherTurn(t)) => OneInv'
<1> SUFFICES ASSUME HomeInv, OneInv,
                    SwitchTo(t) \/ TurnOver(t) \/ TurnAsks(t) \/ Replied(t) \/ OtherTurn(t)
             PROVE  OneInv'
  OBVIOUS
<1>1. UNCHANGED <<queue, inFlight, started, seen, due, call>>
  BY DEF SwitchTo, TurnOver, TurnAsks, Replied, OtherTurn, Thread, hookVars, pageVars
<1>2. ASSUME NEW n \in Messages, Starts(n) PROVE busy'[call[n].thread] = busy[call[n].thread]
  <2>1. call[n].thread \in Threads
    BY <1>2, StartsSomewhere
  <2>2. QED
    BY <1>2, <2>1 DEF SwitchTo, TurnOver, TurnAsks, Replied, OtherTurn, Thread, Settled,
                      HomeInv, TypeOK
<1>3. QED
  BY <1>1, <1>2, OneElsewhere

LEMMA OneNext == ASSUME Orderly, ~Steering PROVE HomeInv /\ OneInv /\ [Next]_vars => OneInv'
<1> SUFFICES ASSUME HomeInv, OneInv, [Next]_vars PROVE OneInv'
  OBVIOUS
<1>1. CASE \/ UNCHANGED vars
           \/ \E m \in Messages : Type(m) \/ TimerFires(m)
  <2>1. UNCHANGED <<queue, inFlight, started, busy, seen, due, call>>
    BY <1>1 DEF Type, TimerFires, vars, hookVars, viewVars, pageVars
  <2>2. QED
    BY <2>1, OneElsewhere
<1>2. CASE \E m \in Messages : SteerQueued(m)
  BY <1>2 DEF SteerQueued
<1>3. CASE Next
  BY <1>1, <1>2, <1>3, OneCommit, OneEffects, OneClear, OneThread, OneSubmit, OneRemove, OneEnvironment
     DEF Next
<1>4. QED
  BY <1>1, <1>3

\* One queued message of a thread is on its way at a time, and no other is
\* flushed before its turn is over (the effects of useQueuedSend.ts), unless
\* the user steers or sends past the queue.
THEOREM OneFlush == ASSUME Orderly, ~Steering PROVE Spec => []OneAtATime
<1>1. HomeInv /\ OneInv /\ [Next]_vars => OneInv'
  BY OneNext
<1>2. OneInv => OneAtATime
  BY DEF OneInv, OneAtATime, Starts
<1>3. QED
  BY <1>1, <1>2, OneInit, HomeAlways, PTL DEF Spec

-----------------------------------------------------------------------------
(* The order of a thread's line.                                            *)

\* The messages of the queue on their way at thread t, at most one; those in its
\* line; and which is to be sent before which.
OnWay(t) == {m \in Messages : call[m].via = "flush" /\ call[m].thread = t /\ call[m].fresh}
Line(t) == OnWay(t) \cup Elements(queue[t])
Before(t, n, m) == (n \in OnWay(t) /\ m \in Elements(queue[t])) \/ Ahead(queue[t], n, m)

\* That is what the line says.
LEMMA LineSays ==
  HomeInv /\ OneInv =>
    \A t \in Threads : \A m, n : Ahead(InLine(t), n, m) <=> Before(t, n, m)
<1> SUFFICES ASSUME HomeInv, OneInv, NEW t \in Threads, NEW m, NEW n
             PROVE  Ahead(InLine(t), n, m) <=> Before(t, n, m)
  OBVIOUS
<1>1. IsQueue(queue[t])
  BY DEF HomeInv, Queues
<1>2. InLine(t) = IF OnWay(t) = {} THEN queue[t] ELSE <<CHOOSE x \in OnWay(t) : TRUE>> \o queue[t]
  BY DEF InLine, OnWay
<1>3. CASE OnWay(t) = {}
  BY <1>2, <1>3 DEF Before
<1>4. ASSUME NEW x \in OnWay(t) PROVE Ahead(InLine(t), n, m) <=> Before(t, n, m)
  <2>1. x \in Messages /\ \A y \in OnWay(t) : y = x
    BY DEF OnWay, OneInv, Starts
  <2>2. InLine(t) = <<x>> \o queue[t]
    BY <1>2, <2>1
  <2>3. QED
    BY <1>1, <2>1, <2>2, OrderPrepended DEF Before
<1>5. QED
  BY <1>3, <1>4

LEMMA LineSaysNext ==
  HomeInv' /\ OneInv' =>
    (\A t \in Threads : \A m, n : Ahead(InLine(t), n, m) <=> Before(t, n, m))'
BY LineSays, PTL

\* What is on its way is not queued too, so one of two messages is first.
LEMMA OneFirst ==
  ASSUME HomeInv, OneInv, NEW t \in Threads, NEW m, NEW n, Before(t, m, n)
  PROVE  m \in Line(t) /\ n \in Line(t) /\ ~Before(t, n, m)
<1>1. IsQueue(queue[t])
  BY DEF HomeInv, Queues
<1>2. \A x \in OnWay(t) : x \notin Elements(queue[t])
  BY DEF OnWay, OneInv, Starts, Apart
<1>3. QED
  BY <1>1, <1>2, OneWay DEF Before, Line

\* After the step what was in the line is in the old order.
InOrder(t) ==
  \A m, n : Before(t, n, m)' => Before(t, n, m) \/ m \notin Line(t) \/ n \notin Line(t)

\* The queue stays; a message may have left its send.
LEMMA QueueStays ==
  ASSUME NEW t \in Threads, queue'[t] = queue[t], OnWay(t)' \subseteq OnWay(t)
  PROVE  InOrder(t)
BY DEF InOrder, Before

LEMMA OrderSliced ==
  ASSUME NEW q, IsQueue(q), NEW m, NEW n, Ahead(Slice(q), n, m)
  PROVE  Ahead(q, n, m)
BY OrderShortened DEF Slice

\* The message that is flushed was first, or was not queued any more.
LEMMA FlushInOrder ==
  ASSUME HomeInv, OneInv, Effects, Flush, NEW t \in Threads
  PROVE  InOrder(t)
<1>1. PICK u \in Threads, x \in Messages, S \in SUBSET Messages :
        /\ u = seen.active /\ x = Head(seen.queue)
        /\ Holds(u, Elements(queue[u]) \ S)
        /\ queue' = [queue EXCEPT ![u] = Slice(queue[u])]
        /\ call' = [call EXCEPT ![x] = [via |-> "flush", thread |-> u, index |-> 0,
                                        fresh |-> TRUE, begun |-> FALSE]]
  BY FlushMoves
<1>2. /\ call'[x].thread = u /\ \A y \in Messages : y # x => call'[y] = call[y]
  BY <1>1 DEF HomeInv, TypeOK
<1>3. ToFlush(u) /\ HeadStays(u)
  BY <1>1 DEF Effects, Flush, MayFlush, ToFlush, OneInv
<1>4. CASE t # u
  <2>1. OnWay(t)' \subseteq OnWay(t) /\ queue'[t] = queue[t]
    BY <1>1, <1>2, <1>4 DEF OnWay, HomeInv, TypeOK
  <2>2. QED
    BY <2>1, QueueStays
<1>5. CASE t = u
  <2>1. OnWay(t) = {}
    BY <1>3, <1>5 DEF OnWay, OneInv, Starts, Apart
  <2>2. OnWay(t)' \subseteq {x}
    BY <1>2, <2>1 DEF OnWay
  <2>3. queue'[t] = Slice(queue[t]) /\ IsQueue(queue[t]) /\ Elements(queue'[t]) \subseteq Elements(queue[t])
    BY <1>1, <1>5 DEF HomeInv, TypeOK, Queues, Holds
  <2>4. \A m, n : Ahead(queue'[t], n, m) => Ahead(queue[t], n, m)
    BY <2>3, OrderSliced
  <2>5. ASSUME NEW m \in Elements(queue'[t]), x \in Elements(queue[t]) PROVE m = x \/ Ahead(queue[t], x, m)
    BY <1>1, <1>3, <1>5, <2>3, <2>5 DEF HeadStays
  <2>6. x \in Elements(queue[t]) => x \notin Elements(queue'[t])
    BY <1>1, <1>3, <1>5, <2>3, FlushTakes DEF HeadStays
  <2>7. x \notin Elements(queue[t]) => x \notin Line(t)
    BY <2>1 DEF Line
  <2>8. QED
    BY <2>2, <2>4, <2>5, <2>6, <2>7 DEF InOrder, Before
<1>6. QED
  BY <1>4, <1>5

LEMMA SubmitInOrder ==
  ASSUME ~Steering, HomeInv, NEW m \in Messages, Submit(m), NEW t \in Threads
  PROVE  InOrder(t)
<1>1. /\ seen.active \in Threads /\ queue \in [Threads -> Seq(Messages)]
      /\ draft[seen.active] = m /\ ~Under(m) /\ ~Queued(m)
  BY DEF Submit, HomeInv, TypeOK
<1>2. call[m].via = "none" /\ \A u \in Threads : m \notin Line(u)
  BY <1>1 DEF Queued, Under, Line, OnWay
<1>3. CASE queue' = [queue EXCEPT ![seen.active] = Append(@, m)] /\ UNCHANGED call
  <2>1. OnWay(t)' = OnWay(t)
    BY <1>3 DEF OnWay
  <2>2. CASE t # seen.active
    BY <1>1, <1>3, <2>1, <2>2, QueueStays
  <2>3. CASE t = seen.active
    <3>1. queue'[t] = Append(queue[t], m) /\ IsQueue(queue[t]) /\ m \notin Elements(queue[t])
      BY <1>1, <1>2, <1>3, <2>3 DEF HomeInv, Queues, Line
    <3>2. Elements(queue'[t]) = Elements(queue[t]) \cup {m}
      BY <3>1, Appended
    <3>3. \A a, b : Ahead(queue'[t], b, a) => Ahead(queue[t], b, a) \/ a = m
      BY <3>1, OrderAppended
    <3>4. QED
      BY <1>2, <2>1, <3>2, <3>3 DEF InOrder, Before
  <2>4. QED
    BY <2>2, <2>3
<1>4. CASE Calls(m, "direct", seen.active, 0) /\ UNCHANGED queue
  <2>1. call'[m].via = "direct" /\ \A y \in Messages : y # m => call'[y] = call[y]
    BY <1>4 DEF Calls, HomeInv, TypeOK
  <2>2. OnWay(t)' \subseteq OnWay(t)
    BY <2>1 DEF OnWay
  <2>3. QED
    BY <1>4, <2>2, QueueStays
<1>5. QED
  BY <1>3, <1>4 DEF Submit

LEMMA RemoveInOrder ==
  ASSUME HomeInv, NEW m \in Messages, DeleteQueued(m) \/ EditQueued(m), NEW t \in Threads
  PROVE  InOrder(t)
<1>1. /\ queue' = [queue EXCEPT ![seen.active] = Without(@, m)] /\ UNCHANGED call
      /\ seen.active \in Threads /\ queue \in [Threads -> Seq(Messages)] /\ IsQueue(queue[t])
  BY DEF DeleteQueued, EditQueued, RemoveQueued, HomeInv, TypeOK, Queues
<1>2. OnWay(t)' = OnWay(t)
  BY <1>1 DEF OnWay
<1>3. CASE t # seen.active
  BY <1>1, <1>2, <1>3, QueueStays
<1>4. CASE t = seen.active
  <2>1. queue'[t] = Without(queue[t], m)
    BY <1>1, <1>4
  <2>2. Elements(queue'[t]) \subseteq Elements(queue[t])
    BY <1>1, <2>1, Removed
  <2>3. \A a, b : Ahead(queue'[t], b, a) => Ahead(queue[t], b, a)
    BY <1>1, <2>1, OrderRemoved
  <2>4. QED
    BY <1>2, <2>2, <2>3 DEF InOrder, Before
<1>5. QED
  BY <1>3, <1>4

LEMMA ClearInOrder ==
  ASSUME HomeInv, ClearQueued, NEW t \in Threads
  PROVE  InOrder(t)
<1>1. PICK u \in Threads : u = seen.active
  BY DEF HomeInv, TypeOK
<1>2. queue' = [queue EXCEPT ![u] = <<>>] /\ call' = ClearedCalls(u)
  BY <1>1 DEF ClearQueued
<1>3. \A m \in Messages : call'[m] = IF call[m].thread = u THEN [call[m] EXCEPT !.fresh = FALSE] ELSE call[m]
  BY <1>2 DEF ClearedCalls
<1>4. \A m \in Messages : /\ call'[m].via = call[m].via /\ call'[m].thread = call[m].thread
                          /\ call'[m].fresh => call[m].fresh
  BY <1>2, <1>3, ClearedKeeps DEF HomeInv, TypeOK
<1>5. OnWay(t)' \subseteq OnWay(t)
  BY <1>4 DEF OnWay
<1>6. CASE t # u
  BY <1>2, <1>5, <1>6, QueueStays DEF HomeInv, TypeOK
<1>7. CASE t = u
  <2>1. queue'[t] = <<>> /\ Elements(queue'[t]) = {}
    BY <1>2, <1>7 DEF HomeInv, TypeOK, Elements
  <2>2. \A a, b : ~Ahead(queue'[t], b, a)
    BY <2>1 DEF Ahead
  <2>3. QED
    BY <2>1, <2>2 DEF InOrder, Before
<1>8. QED
  BY <1>6, <1>7

LEMMA EnvironmentInOrder ==
  ASSUME HomeInv, OneInv, NEW m \in Messages, Environment(m), NEW t \in Threads
  PROVE  InOrder(t)
<1>1. Under(m) => call[m].via \in {"direct", "flush"} /\ call[m].thread \in Threads
  BY StartsSomewhere DEF OneInv, Under, Starts
<1>2. CASE Begin(m)
  <2>1. UNCHANGED queue /\ call' = [call EXCEPT ![m].begun = TRUE]
    BY <1>2 DEF Begin, hookVars
  <2>2. OnWay(t)' = OnWay(t)
    BY <2>1 DEF OnWay, HomeInv, TypeOK
  <2>3. QED
    BY <2>1, <2>2, QueueStays
<1>3. ASSUME Ends(m), UNCHANGED queue PROVE InOrder(t)
  <2>1. call'[m].via = "none" /\ \A y \in Messages : y # m => call'[y] = call[y]
    BY <1>3, Ended DEF HomeInv
  <2>2. OnWay(t)' \subseteq OnWay(t)
    BY <2>1 DEF OnWay
  <2>3. QED
    BY <1>3, <2>2, QueueStays
<1>4. CASE Sent(m)
  BY <1>3, <1>4 DEF Sent
<1>5. CASE Blocked(m)
  <2>1. Under(m) /\ Ends(m)
    BY <1>5 DEF Blocked
  <2>2. UNCHANGED queue
    BY <1>1, <1>5, <2>1 DEF Blocked
  <2>3. QED
    BY <1>3, <2>1, <2>2
<1>6. CASE SteerFails(m)
  BY <1>6 DEF SteerFails, OneInv
<1>7. CASE Throws(m)
  <2>1. Under(m) /\ Ends(m)
    BY <1>7 DEF Throws
  <2>2. CASE UNCHANGED queue
    BY <1>3, <2>1, <2>2
  <2>3. CASE call[m].via = "flush" /\ call[m].fresh /\ PutBack(m)
    <3>1. PICK u \in Threads : u = call[m].thread
      BY <1>1, <2>1
    <3>2. queue' = [queue EXCEPT ![u] = <<m>> \o @] /\ queue \in [Threads -> Seq(Messages)]
      BY <2>3, <3>1 DEF PutBack, HomeInv, TypeOK
    <3>3. call'[m].via = "none" /\ \A y \in Messages : y # m => call'[y] = call[y]
      BY <2>1, Ended DEF HomeInv
    <3>4. OnWay(t)' \subseteq OnWay(t) \ {m}
      BY <3>3 DEF OnWay
    <3>5. CASE t # u
      BY <3>2, <3>4, <3>5, QueueStays
    <3>6. CASE t = u
      <4>1. queue'[t] = <<m>> \o queue[t] /\ IsQueue(queue[t])
        BY <3>2, <3>6 DEF HomeInv, Queues
      <4>2. \A y \in OnWay(t) : y = m
        BY <2>3, <3>1, <3>6 DEF OnWay, OneInv, Starts
      <4>3. OnWay(t)' = {} /\ m \in OnWay(t)
        BY <2>3, <3>1, <3>4, <3>6, <4>2 DEF OnWay
      <4>4. \A a, b : Ahead(queue'[t], b, a) => Before(t, b, a)
        BY <4>1, <4>3, OrderPrepended DEF Before
      <4>5. QED
        BY <4>3, <4>4 DEF InOrder, Before
    <3>7. QED
      BY <3>5, <3>6
  <2>4. QED
    BY <1>1, <1>7, <2>1, <2>2, <2>3 DEF Throws, Retry, hookVars
<1>8. QED
  BY <1>2, <1>4, <1>5, <1>6, <1>7 DEF Environment

LEMMA NextInOrder ==
  ASSUME ~Steering, HomeInv, OneInv, [Next]_vars, NEW t \in Threads
  PROVE  InOrder(t)
<1>1. ASSUME UNCHANGED <<queue, call>> PROVE InOrder(t)
  BY <1>1, QueueStays DEF OnWay
<1>2. CASE \/ UNCHANGED vars
           \/ \E m \in Messages : Type(m) \/ TimerFires(m)
           \/ \E u \in Threads : SwitchTo(u) \/ TurnOver(u) \/ TurnAsks(u) \/ Replied(u) \/ OtherTurn(u)
  BY <1>1, <1>2 DEF Type, TimerFires, SwitchTo, TurnOver, TurnAsks, Replied, OtherTurn, Thread,
                    vars, hookVars
<1>3. CASE Commit \/ Effects
  BY <1>1, <1>3, FlushInOrder DEF Commit, Effects, InFlightEffect, NoEffect, hookVars
<1>4. CASE \E m \in Messages : SteerQueued(m)
  BY <1>4 DEF SteerQueued
<1>5. CASE ClearQueued
  BY <1>5, ClearInOrder
<1>6. CASE \E m \in Messages : Submit(m) \/ DeleteQueued(m) \/ EditQueued(m) \/ Environment(m)
  BY <1>6, SubmitInOrder, RemoveInOrder, EnvironmentInOrder
<1>7. QED
  BY <1>2, <1>3, <1>4, <1>5, <1>6 DEF Next

\* A send that fails does not cost a message its place (prependQueuedMessage,
\* useQueuedSend.ts), under the conditions of OneFlush: with two messages on their way
\* the one that fails later would be put before the other.
THEOREM LineKept == ASSUME Orderly, ~Steering PROVE Spec => LineKeepsOrder
<1>1. HomeInv /\ OneInv /\ [Next]_vars => OneInv'
  BY OneNext
<1>2. HomeInv /\ HomeInv' /\ OneInv /\ OneInv' /\ [Next]_vars => OrderKept
  <2> SUFFICES ASSUME HomeInv, HomeInv', OneInv, OneInv', [Next]_vars, NEW t \in Threads,
                      NEW m, NEW n, Ahead(InLine(t), m, n), Ahead(InLine(t)', n, m)
               PROVE  FALSE
    BY DEF OrderKept
  <2>1. Before(t, m, n)
    BY LineSays
  <2>2. Before(t, n, m)'
    BY LineSaysNext
  <2>3. Before(t, n, m) \/ m \notin Line(t) \/ n \notin Line(t)
    BY <2>2, NextInOrder DEF InOrder
  <2>4. QED
    BY <2>1, <2>3, OneFirst
<1>3. QED
  BY <1>1, <1>2, OneInit, HomeAlways, PTL DEF Spec, LineKeepsOrder

-----------------------------------------------------------------------------
(* The composer and its queues implement Outbox. *)

InQueue(m) == \E t \in Threads : m \in Elements(queue[t])
InDraft(m) == \E t \in Threads : draft[t] = m

\* What the user has taken away, and where a message is, but for those astray.
Away == (stopped \cup deleted) \ astray

Fate(m) ==
  IF m \in astray THEN "astray"
  ELSE IF m \in accepted THEN "sent"
  ELSE IF InQueue(m) \/ OfQueue(m) THEN "kept"
  ELSE IF Under(m) THEN "asked"
  ELSE IF InDraft(m) THEN "draft"
  ELSE IF m \in written THEN "gone" ELSE "new"

\* No other message is in two places, so its whereabouts are its fate.
LEMMA OnePlace ==
  ASSUME HomeInv, NEW m \in Messages
  PROVE  whereabouts[m] = Fate(m)
<1> DEFINE queues == {t \in Threads : m \in Elements(queue[t])}
           drafts == {t \in Threads : draft[t] = m}
           places == ({"queue"} \X queues) \cup ({"draft"} \X drafts)
                      \cup (IF Under(m) THEN {<<"call", None>>} ELSE {})
                      \cup (IF m \in accepted THEN {<<"sent", None>>} ELSE {})
           twice == \/ \E p, r \in places : p # r
                    \/ \E t \in queues : \E i, j \in DOMAIN queue[t] :
                         i # j /\ queue[t][i] = m /\ queue[t][j] = m
<1> SUFFICES ASSUME m \notin astray PROVE whereabouts[m] = Fate(m)
  BY DEF whereabouts, Fate
<1>1. Sound(m) /\ Home(m)
  BY DEF HomeInv, Placed
<1>2. \A p, r \in places : p = r
  <2>1. CASE queues # {}
    <3>1. PICK t \in Threads : queues = {t}
      BY <1>1, <2>1 DEF Sound, IsAt
    <3>2. drafts = {} /\ ~Under(m) /\ m \notin accepted
      BY <1>1, <2>1 DEF Home
    <3>3. places = {<<"queue", t>>}
      BY <3>1, <3>2
    <3>4. QED
      BY <3>3
  <2>2. CASE queues = {} /\ drafts # {}
    <3>1. PICK t \in Threads : drafts = {t}
      BY <1>1, <2>2 DEF Sound, IsAt
    <3>2. ~Under(m) /\ m \notin accepted
      BY <1>1, <2>2 DEF Home
    <3>3. places = {<<"draft", t>>}
      BY <2>2, <3>1, <3>2
    <3>4. QED
      BY <3>3
  <2>3. CASE queues = {} /\ drafts = {}
    <3>1. ~(Under(m) /\ m \in accepted)
      BY <1>1 DEF Home
    <3>2. places = (IF Under(m) THEN {<<"call", None>>} ELSE {})
                   \cup (IF m \in accepted THEN {<<"sent", None>>} ELSE {})
      BY <2>3
    <3>3. QED
      BY <3>1, <3>2
  <2>4. QED
    BY <2>1, <2>2, <2>3
<1>3. ~twice
  BY <1>2 DEF HomeInv, Queues, IsQueue, Distinct
<1>4. whereabouts[m] = IF twice THEN "twice"
                       ELSE IF m \in accepted THEN "sent"
                       ELSE IF queues # {} \/ OfQueue(m) THEN "kept"
                       ELSE IF Under(m) THEN "asked"
                       ELSE IF drafts # {} THEN "draft"
                       ELSE IF m \in written THEN "gone" ELSE "new"
  BY DEF whereabouts
<1>5. (queues # {} <=> InQueue(m)) /\ (drafts # {} <=> InDraft(m))
  BY DEF InQueue, InDraft
<1> HIDE DEF twice, queues, drafts
<1>6. QED
  BY <1>3, <1>4, <1>5 DEF Fate

LEMMA AllInOnePlace == HomeInv => \A m \in Messages : whereabouts[m] = Fate(m)
BY OnePlace

LEMMA AllInOnePlaceNext == HomeInv' => (\A m \in Messages : whereabouts[m] = Fate(m))'
BY AllInOnePlace, PTL

LEMMA IsFunction == whereabouts = [m \in Messages |-> whereabouts[m]]
BY DEF whereabouts

\* A message the step leaves where it is.
LEMMA SameFate ==
  ASSUME NEW n \in Messages,
         \A u \in Threads : n \in Elements(queue'[u]) <=> n \in Elements(queue[u]),
         \A u \in Threads : draft'[u] = n <=> draft[u] = n,
         call'[n].via = call[n].via,
         n \in accepted' <=> n \in accepted, n \in written' <=> n \in written,
         n \in astray' <=> n \in astray
  PROVE  Fate(n)' = Fate(n)
<1>1. (InQueue(n)' <=> InQueue(n)) /\ (InDraft(n)' <=> InDraft(n))
  BY DEF InQueue, InDraft
<1>2. (Under(n)' <=> Under(n)) /\ (OfQueue(n)' <=> OfQueue(n))
  BY DEF Under, OfQueue
<1>3. QED
  BY <1>1, <1>2 DEF Fate

Moved(f) == \A n \in Messages : Fate(n)' = f[n]

\* A step of the messages' fates is one of the whereabouts.
LEMMA Moves ==
  ASSUME HomeInv, HomeInv', NEW f, f = [n \in Messages |-> f[n]], Moved(f)
  PROVE  whereabouts' = f
<1>1. \A n \in Messages : whereabouts'[n] = f[n]
  <2>1. (\A n \in Messages : whereabouts[n] = Fate(n))'
    BY AllInOnePlaceNext
  <2>2. QED
    BY <2>1 DEF Moved
<1>2. whereabouts' = [n \in Messages |-> whereabouts'[n]]
  BY DEF whereabouts
<1>3. QED
  BY <1>1, <1>2

LEMMA Rests ==
  ASSUME HomeInv, HomeInv', \A n \in Messages : Fate(n)' = Fate(n)
  PROVE  whereabouts' = whereabouts
<1>1. Moved(whereabouts)
  BY OnePlace DEF Moved
<1>2. QED
  BY <1>1, IsFunction, Moves

LEMMA Turns ==
  ASSUME HomeInv, HomeInv', NEW m \in Messages, NEW x, Fate(m)' = x,
         \A n \in Messages : n # m => Fate(n)' = Fate(n)
  PROVE  Promise!Becomes(m, x)
<1>1. [whereabouts EXCEPT ![m] = x] = [n \in Messages |-> IF n = m THEN x ELSE whereabouts[n]]
  BY IsFunction
<1>2. Moved([n \in Messages |-> IF n = m THEN x ELSE whereabouts[n]])
  BY OnePlace DEF Moved
<1>3. whereabouts' = [n \in Messages |-> IF n = m THEN x ELSE whereabouts[n]]
  BY <1>2, Moves
<1>4. QED
  BY <1>1, <1>3 DEF Promise!Becomes

-----------------------------------------------------------------------------
(* Each step is one of Outbox, or leaves every message where it is. *)

Implements == [Promise!Next]_(Promise!vars)

LEMMA NothingMoves ==
  ASSUME HomeInv, HomeInv', \A n \in Messages : Fate(n)' = Fate(n), Away' = Away
  PROVE  Implements
<1>1. whereabouts' = whereabouts
  BY Rests
<1>2. QED
  BY <1>1 DEF Implements, Promise!vars, Away

LEMMA SomethingMoves ==
  ASSUME NEW m \in Messages,
         \/ Promise!Write(m) \/ Promise!Submit(m) \/ Promise!Keep(m) \/ Promise!Send(m)
         \/ Promise!GiveBack(m) \/ Promise!Fail(m) \/ Promise!Delete(m) \/ Promise!Rewrite(m)
         \/ Promise!Drop(m) \/ Promise!GoAstray(m) \/ Promise!Stop
  PROVE  Implements
BY DEF Implements, Promise!Next, Promise!vars

\* A step that leaves them all where they are.
LEMMA QuietStep ==
  ASSUME HomeInv, HomeInv', UNCHANGED <<queue, draft, written, accepted, stopped, deleted, astray, call>>
  PROVE  Implements
<1>1. Away' = Away
  BY DEF Away
<1>2. QED
  BY <1>1, SameFate, NothingMoves

\* A message that has gone astray and stays so.
LEMMA AstrayStays ==
  ASSUME NEW m \in astray, m \in astray' PROVE Fate(m)' = Fate(m)
BY DEF Fate

\* Where another message is.
LEMMA Fates ==
  ASSUME HomeInv, NEW m \in Messages, m \notin astray
  PROVE  /\ InQueue(m) => Fate(m) = "kept" /\ ~InDraft(m) /\ ~Under(m) /\ ~OfQueue(m)
                          /\ m \in written /\ m \notin accepted
         /\ InDraft(m) => Fate(m) = "draft" /\ ~InQueue(m) /\ ~Under(m) /\ ~OfQueue(m)
                          /\ m \in written /\ m \notin accepted
         /\ OfQueue(m) => Fate(m) = "kept"
         /\ Under(m) => Fate(m) \in {"asked", "kept"} /\ (Fate(m) = "kept" <=> OfQueue(m))
                        /\ ~InQueue(m) /\ ~InDraft(m) /\ m \in written /\ m \notin accepted
<1>1. Sound(m) /\ Home(m)
  BY DEF HomeInv, Placed
<1>2. OfQueue(m) => Under(m)
  BY DEF OfQueue, Under
<1>3. InQueue(m) => ~InDraft(m) /\ ~Under(m) /\ m \notin accepted
  BY <1>1 DEF Home, InQueue, InDraft
<1>4. InDraft(m) => ~Under(m) /\ m \notin accepted
  BY <1>1 DEF Home, InDraft
<1>5. Under(m) => m \notin accepted /\ m \in written
  BY <1>1 DEF Home, Sound, IsAt
<1>6. InQueue(m) \/ InDraft(m) => m \in written
  BY <1>1 DEF Sound, IsAt, InQueue, InDraft
<1>7. QED
  BY <1>2, <1>3, <1>4, <1>5, <1>6 DEF Fate

\* What draft t holds when m overwrites it.
Over(t) == {n \in Messages \ astray : draft[t] = n}

LEMMA Overwrites ==
  ASSUME HomeInv, NEW m \in Messages, NEW t \in Threads, draft' = [draft EXCEPT ![t] = m],
         \A n \in Messages \ {m} : call'[n].via = call[n].via,
         written \subseteq written', UNCHANGED <<accepted, astray>>,
         \A n \in Messages : \A u \in Threads : n \in Elements(queue'[u]) => n \in Elements(queue[u])
  PROVE  /\ Over(t) \subseteq Messages /\ \A n, o \in Over(t) : n = o
         /\ \A n \in Over(t) : Fate(n) = "draft" /\ (n # m => Fate(n)' = "gone")
         /\ \A u \in Threads : draft'[u] = IF u = t THEN m ELSE draft[u]
         /\ \A n \in Messages \ {m} :
              /\ n \in astray \/ draft[t] # n
              /\ n \in written' <=> n \in written
              /\ \A u \in Threads : n \in Elements(queue'[u]) <=> n \in Elements(queue[u])
              => Fate(n)' = Fate(n)
<1>1. \A u \in Threads : draft'[u] = IF u = t THEN m ELSE draft[u]
  BY DEF HomeInv, TypeOK
<1>2. ASSUME NEW n \in Over(t), n # m PROVE Fate(n)' = "gone"
  <2>1. n \in Messages /\ n \notin astray /\ InDraft(n) /\ IsAt(n, t) /\ Sound(n)
    BY DEF Over, InDraft, IsAt, HomeInv, Placed
  <2>2. ~InQueue(n) /\ ~Under(n) /\ ~OfQueue(n) /\ n \in written /\ n \notin accepted
    BY <2>1, Fates
  <2>3. \A u \in Threads : draft'[u] # n
    BY <1>1, <1>2, <2>1 DEF Sound, IsAt
  <2>4. ~InQueue(n)' /\ ~InDraft(n)' /\ ~Under(n)' /\ ~OfQueue(n)'
    BY <1>2, <2>1, <2>2, <2>3 DEF InQueue, InDraft, Under, OfQueue
  <2>5. QED
    BY <2>1, <2>2, <2>4 DEF Fate
<1>3. \A n \in Over(t) : Fate(n) = "draft"
  BY Fates DEF Over, InDraft
<1>4. ASSUME NEW n \in Messages \ {m}, n \in astray \/ draft[t] # n, n \in written' <=> n \in written,
             \A u \in Threads : n \in Elements(queue'[u]) <=> n \in Elements(queue[u])
      PROVE  Fate(n)' = Fate(n)
  <2>1. CASE n \in astray
    BY <2>1, AstrayStays
  <2>2. CASE draft[t] # n
    <3>1. \A u \in Threads : draft'[u] = n <=> draft[u] = n
      BY <1>1, <1>4, <2>2
    <3>2. QED
      BY <1>4, <3>1, SameFate
  <2>3. QED
    BY <1>4, <2>1, <2>2
<1>5. QED
  BY <1>1, <1>2, <1>3, <1>4 DEF Over

\* A message that comes back to a draft, which it overwrites.
LEMMA Returns ==
  ASSUME HomeInv, HomeInv', NEW m \in Messages, NEW t \in Threads, Under(m),
         draft' = [draft EXCEPT ![t] = m], call'[m].via = "none",
         \A n \in Messages \ {m} : call'[n].via = call[n].via,
         UNCHANGED <<queue, written, accepted, stopped, deleted, astray>>
  PROVE  Implements
<1> DEFINE over == Over(t) \ {m}
           f == [n \in Messages |-> IF n \in over THEN "gone"
                                    ELSE IF n = m /\ whereabouts[m] # "astray" THEN "draft"
                                    ELSE whereabouts[n]]
<1>1. /\ Over(t) \subseteq Messages /\ \A n, o \in Over(t) : n = o
      /\ \A n \in Over(t) : Fate(n) = "draft" /\ (n # m => Fate(n)' = "gone")
      /\ \A u \in Threads : draft'[u] = IF u = t THEN m ELSE draft[u]
      /\ \A n \in Messages \ {m} : n \in astray \/ draft[t] # n => Fate(n)' = Fate(n)
  <2>1. \A n \in Messages : \A u \in Threads : n \in Elements(queue'[u]) => n \in Elements(queue[u])
    OBVIOUS
  <2>2. written \subseteq written' /\ UNCHANGED <<accepted, astray>>
    OBVIOUS
  <2>3. /\ Over(t) \subseteq Messages /\ \A n, o \in Over(t) : n = o
        /\ \A n \in Over(t) : Fate(n) = "draft" /\ (n # m => Fate(n)' = "gone")
        /\ \A u \in Threads : draft'[u] = IF u = t THEN m ELSE draft[u]
        /\ \A n \in Messages \ {m} :
             /\ n \in astray \/ draft[t] # n
             /\ n \in written' <=> n \in written
             /\ \A u \in Threads : n \in Elements(queue'[u]) <=> n \in Elements(queue[u])
             => Fate(n)' = Fate(n)
    BY ONLY HomeInv, <2>1, <2>2, draft' = [draft EXCEPT ![t] = m],
            \A n \in Messages \ {m} : call'[n].via = call[n].via, Overwrites
  <2>4. QED
    BY <2>3
<1>2. IF m \in astray THEN Fate(m) = "astray" /\ Fate(m)' = "astray"
      ELSE Fate(m) \in {"asked", "kept"} /\ Fate(m)' = "draft"
  <2>1. CASE m \in astray
    BY <2>1 DEF Fate
  <2>2. CASE m \notin astray
    <3>1. Fate(m) \in {"asked", "kept"} /\ ~InQueue(m) /\ m \notin accepted
      BY <2>2, Fates
    <3>2. ~InQueue(m)' /\ InDraft(m)' /\ ~Under(m)' /\ ~OfQueue(m)'
      BY <1>1, <3>1 DEF InQueue, InDraft, Under, OfQueue
    <3>3. QED
      BY <2>2, <3>1, <3>2 DEF Fate
  <2>3. QED
    BY <2>1, <2>2
<1>3. \A n \in Messages : whereabouts[n] = Fate(n)
  BY OnePlace
<1>4. Moved(f)
  <2> SUFFICES ASSUME NEW n \in Messages PROVE Fate(n)' = f[n]
    BY DEF Moved
  <2>1. CASE n \in over
    BY <1>1, <2>1
  <2>2. CASE n = m
    BY <1>2, <1>3, <2>2
  <2>3. CASE n \notin over /\ n # m
    <3>1. n \in astray \/ draft[t] # n
      BY <2>3 DEF Over
    <3>2. QED
      BY <1>1, <1>3, <2>3, <3>1
  <2>4. QED
    BY <2>1, <2>2, <2>3
<1>5. whereabouts' = f
  BY <1>4, Moves
<1>6. over \in Promise!OneOf("draft")
  BY <1>1, <1>3 DEF Promise!OneOf
<1>7. whereabouts[m] \in {"asked", "kept", "astray"} /\ Away' = Away
  BY <1>2, <1>3 DEF Away
<1>8. Promise!GiveBack(m)
  BY <1>5, <1>6, <1>7 DEF Promise!GiveBack, Away
<1>9. QED
  BY <1>8, SomethingMoves

-----------------------------------------------------------------------------

\* A message the user takes out of a queue is gone.
LEMMA Taken ==
  ASSUME HomeInv, NEW m \in Messages, m \notin astray, NEW t \in Threads, m \in Elements(queue[t]),
         Holds(t, Elements(queue[t]) \ {m}), UNCHANGED <<call, accepted, astray>>,
         written \subseteq written', \A u \in Threads : draft'[u] = m => draft[u] = m
  PROVE  Fate(m) = "kept" /\ Fate(m)' = "gone"
<1>1. Sound(m) /\ IsAt(m, t) /\ InQueue(m)
  BY DEF HomeInv, Placed, IsAt, InQueue
<1>2. /\ Fate(m) = "kept" /\ ~InDraft(m) /\ ~Under(m) /\ ~OfQueue(m)
      /\ m \in written /\ m \notin accepted
  BY <1>1, Fates
<1>3. ~InQueue(m)' /\ ~InDraft(m)' /\ ~Under(m)' /\ ~OfQueue(m)'
  BY <1>1, <1>2 DEF Sound, IsAt, Holds, InQueue, InDraft, Under, OfQueue
<1>4. QED
  BY <1>2, <1>3 DEF Fate

LEMMA CommitStep == ASSUME HomeInv, HomeInv', Commit PROVE Implements
BY QuietStep DEF Commit, hookVars, userVars, sentVars

\* The message that is sent, and the one that is taken off the queue.
LEMMA FlushStep == ASSUME HomeInv, HomeInv', Effects, Flush PROVE Implements
<1>1. UNCHANGED <<draft, written, accepted, stopped, deleted>> /\ "effects" \in due
  BY DEF Effects, userVars
<1>2. PICK t \in Threads, m \in Messages, S \in SUBSET Messages :
        /\ t = seen.active /\ m \in Elements(seen.queue)
        /\ S = Sliced(queue[t]) /\ S \subseteq Elements(queue[t])
        /\ Holds(t, Elements(queue[t]) \ S)
        /\ astray' = IF S = {m} THEN astray ELSE astray \cup {m} \cup S
        /\ call' = [call EXCEPT ![m] = [via |-> "flush", thread |-> t, index |-> 0,
                                        fresh |-> TRUE, begun |-> FALSE]]
        /\ seen.busy = "idle"
  BY FlushMoves
<1>3. call'[m].via = "flush" /\ \A n \in Messages \ {m} : call'[n] = call[n]
  BY <1>2 DEF HomeInv, TypeOK
<1>4. ASSUME NEW n \in Messages \ {m}, n \notin S \/ n \in astray PROVE Fate(n)' = Fate(n)
  <2>1. CASE n \in astray
    BY <1>2, <2>1, AstrayStays
  <2>2. CASE n \notin astray /\ n \notin S
    <3>1. \A u \in Threads : n \in Elements(queue'[u]) <=> n \in Elements(queue[u])
      BY <1>2, <2>2 DEF Holds
    <3>2. n \notin astray'
      BY <1>2, <1>4, <2>2
    <3>3. QED
      BY <1>1, <1>3, <2>2, <3>1, <3>2, SameFate
  <2>3. QED
    BY <1>4, <2>1, <2>2
<1>5. m \notin astray => m \notin accepted /\ Fate(m) \in {"gone", "kept"}
  <2> SUFFICES ASSUME m \notin astray PROVE m \notin accepted /\ Fate(m) \in {"gone", "kept"}
    OBVIOUS
  <2>1. Sound(m) /\ Home(m) /\ IsAt(m, t)
    BY <1>2 DEF HomeInv, Placed, IsAt, SeenIn
  <2>2. m \in written /\ ~Under(m) /\ m \notin accepted /\ ~InDraft(m)
    BY <1>1, <1>2, <2>1 DEF Sound, Home, InDraft
  <2>3. QED
    BY <2>2 DEF Fate
<1>6. CASE S = {m}
  <2>1. Away' = Away /\ (m \in astray' <=> m \in astray)
    BY <1>1, <1>2, <1>6 DEF Away
  <2>2. Fate(m)' = Fate(m)
    <3>1. CASE m \in astray
      BY <2>1, <3>1, AstrayStays
    <3>2. CASE m \notin astray
      <4>1. Fate(m) = "kept"
        BY <1>2, <1>6, <3>2, Fates DEF InQueue
      <4>2. OfQueue(m)'
        BY <1>3 DEF OfQueue
      <4>3. QED
        BY <1>1, <1>5, <2>1, <3>2, <4>1, <4>2 DEF Fate
    <3>3. QED
      BY <3>1, <3>2
  <2>3. QED
    BY <1>4, <1>6, <2>1, <2>2, NothingMoves
<1>7. CASE S # {m}
  <2> DEFINE lost == S \ astray
             f == [n \in Messages |-> IF n = m \/ n \in lost THEN "astray" ELSE whereabouts[n]]
  <2>1. \A n \in Messages : whereabouts[n] = Fate(n)
    BY OnePlace
  <2>2. \A n \in lost : Fate(n) = "kept"
    BY <1>2, Fates DEF InQueue
  <2>3. \A n, o \in lost : n = o
    BY <1>2 DEF Sliced
  <2>4. \A n \in lost \cup {m} : Fate(n)' = "astray"
    BY <1>2, <1>7 DEF Fate
  <2>5. Moved(f)
    BY <1>4, <2>1, <2>4 DEF Moved
  <2>6. whereabouts' = f
    BY <2>5, Moves
  <2>7. lost \in Promise!OneOf("kept")
    BY <2>1, <2>2, <2>3 DEF Promise!OneOf
  <2>8. whereabouts[m] \in {"gone", "kept", "astray"}
    BY <1>5, <2>1 DEF Fate
  <2>9. Away' = Away \ ({m} \cup lost)
    BY <1>1, <1>2, <1>7 DEF Away
  <2>10. Promise!GoAstray(m)
    BY <2>6, <2>7, <2>8, <2>9 DEF Promise!GoAstray, Away
  <2>11. QED
    BY <2>10, SomethingMoves
<1>8. QED
  BY <1>6, <1>7

LEMMA EffectsStep == ASSUME HomeInv, HomeInv', Effects PROVE Implements
<1>1. CASE Flush
  BY <1>1, FlushStep
<1>2. CASE InFlightEffect \/ NoEffect
  BY <1>2, QuietStep DEF Effects, InFlightEffect, NoEffect, userVars
<1>3. QED
  BY <1>1, <1>2 DEF Effects

LEMMA TypeStep == ASSUME HomeInv, HomeInv', NEW m \in Messages, Type(m) PROVE Implements
<1>1. PICK t \in Threads : t = seen.active
  BY DEF HomeInv, TypeOK
<1>2. /\ m \notin written /\ written' = written \cup {m}
      /\ draft[t] = None /\ draft' = [draft EXCEPT ![t] = m]
      /\ UNCHANGED <<queue, stopped, deleted, call, accepted, astray>>
  BY <1>1 DEF Type, hookVars, sentVars
<1>3. Sound(m) /\ Away' = Away
  BY <1>2 DEF HomeInv, Placed, Away
<1>4. \A u \in Threads : draft'[u] = IF u = t THEN m ELSE draft[u]
  BY <1>2 DEF HomeInv, TypeOK
<1>5. /\ ~InQueue(m) /\ ~InDraft(m) /\ ~Under(m) /\ ~OfQueue(m)
      /\ m \notin accepted /\ m \notin astray
  BY <1>2, <1>3 DEF Sound, IsAt, InQueue, InDraft, Under, OfQueue
<1>6. Fate(m) = "new"
  BY <1>2, <1>5 DEF Fate
<1>7. Fate(m)' = "draft"
  <2>1. ~InQueue(m)' /\ InDraft(m)' /\ ~Under(m)' /\ ~OfQueue(m)'
    BY <1>2, <1>4, <1>5 DEF InQueue, InDraft, Under, OfQueue
  <2>2. QED
    BY <1>2, <1>5, <2>1 DEF Fate
<1>8. ASSUME NEW n \in Messages, n # m PROVE Fate(n)' = Fate(n)
  <2>1. \A u \in Threads : draft'[u] = n <=> draft[u] = n
    BY <1>2, <1>4, <1>8, NoneIsNoMessage
  <2>2. QED
    BY <1>2, <1>8, <2>1, SameFate
<1>9. Promise!Becomes(m, "draft") /\ whereabouts[m] = "new"
  BY <1>6, <1>7, <1>8, Turns, OnePlace
<1>10. QED
  BY <1>3, <1>9, SomethingMoves DEF Promise!Write, Away

LEMMA SubmitStep == ASSUME HomeInv, HomeInv', NEW m \in Messages, Submit(m) PROVE Implements
<1>1. PICK t \in Threads : t = seen.active
  BY DEF HomeInv, TypeOK
<1>2. /\ draft[t] = m /\ draft' = [draft EXCEPT ![t] = None]
      /\ stopped' = stopped \ {m} /\ deleted' = deleted \ {m}
      /\ UNCHANGED <<written, accepted, astray>>
  BY <1>1 DEF Submit, sentVars
<1>3. Away' = Away \ {m}
  BY <1>2 DEF Away
<1>4. \A n \in Messages \ {m} : \A u \in Threads : draft'[u] = n <=> draft[u] = n
  BY <1>2, NoneIsNoMessage DEF HomeInv, TypeOK
<1>5. ASSUME \A n \in Messages \ {m} : Fate(n)' = Fate(n),
             m \notin astray => Fate(m)' \in {"asked", "kept"}
      PROVE  Implements
  <2>1. CASE m \in astray
    <3>1. Fate(m)' = Fate(m) /\ Away' = Away
      BY <1>2, <1>3, <2>1, AstrayStays DEF Away
    <3>2. QED
      BY <1>5, <3>1, NothingMoves
  <2>2. CASE m \notin astray
    <3>1. Promise!Becomes(m, Fate(m)')
      BY <1>5, Turns
    <3>2. whereabouts[m] = "draft"
      BY <1>2, <2>2, Fates, OnePlace DEF InDraft
    <3>3. QED
      BY <1>3, <1>5, <2>2, <3>1, <3>2, SomethingMoves DEF Promise!Submit, Away
  <2>3. QED
    BY <2>1, <2>2
<1>6. m \notin astray => ~InQueue(m) /\ ~Under(m) /\ ~OfQueue(m) /\ m \notin accepted
  BY <1>2, Fates DEF InDraft
<1>7. CASE queue' = [queue EXCEPT ![t] = Append(queue[t], m)] /\ UNCHANGED call
  <2>1. m \notin Elements(queue[t])
    BY DEF Submit, Queued
  <2>2. Holds(t, Elements(queue[t]) \cup {m})
    BY <1>7, <2>1, Appends
  <2>3. m \notin astray => Fate(m)' = "kept"
    BY <1>2, <1>6, <2>2 DEF Fate, InQueue, Holds
  <2>4. ASSUME NEW n \in Messages \ {m} PROVE Fate(n)' = Fate(n)
    BY <1>2, <1>4, <1>7, <2>2, <2>4, SameFate DEF Holds
  <2>5. QED
    BY <1>5, <2>3, <2>4
<1>8. ASSUME NEW via \in {"direct", "directSteer"}, Calls(m, via, t, 0), UNCHANGED queue
      PROVE  Implements
  <2>1. call' = [call EXCEPT ![m] = [via |-> via, thread |-> t, index |-> 0, fresh |-> TRUE, begun |-> FALSE]]
    BY <1>8 DEF Calls
  <2>2. call'[m].via = via /\ \A n \in Messages \ {m} : call'[n] = call[n]
    BY <2>1 DEF HomeInv, TypeOK
  <2>3. m \notin astray => Fate(m)' = "asked"
    <3>1. m \notin astray => ~InQueue(m)' /\ Under(m)' /\ ~OfQueue(m)'
      BY <1>6, <1>8, <2>2 DEF InQueue, Under, OfQueue
    <3>2. QED
      BY <1>2, <1>6, <3>1 DEF Fate
  <2>4. ASSUME NEW n \in Messages \ {m} PROVE Fate(n)' = Fate(n)
    BY <1>2, <1>4, <1>8, <2>2, <2>4, SameFate
  <2>5. QED
    BY <1>5, <2>3, <2>4
<1>9. QED
  BY <1>1, <1>7, <1>8 DEF Submit

\* A message that has gone astray, or is not there any more, is only not queued.
LEMMA DeleteStep == ASSUME HomeInv, HomeInv', NEW m \in Messages, DeleteQueued(m) PROVE Implements
<1>1. /\ Act /\ RemoveQueued(m) /\ Deletes(m)
      /\ UNCHANGED <<draft, written, stopped, seen, call, accepted, astray>>
  BY DEF DeleteQueued, sentVars
<1>2. PICK t \in Threads : t = seen.active
  BY DEF HomeInv, TypeOK
<1>3. Holds(t, Elements(queue[t]) \ {m})
  BY <1>1, <1>2, RemovedShown
<1>4. \A n \in Messages \ {m} : Fate(n)' = Fate(n)
  BY <1>1, <1>3, SameFate DEF Holds
<1>5. CASE m \in astray
  <2>1. Fate(m)' = Fate(m) /\ Away' = Away
    BY <1>1, <1>5, AstrayStays DEF Away, Deletes
  <2>2. QED
    BY <1>4, <2>1, NothingMoves
<1>6. CASE m \notin Elements(queue[t])
  <2>1. Away' = Away
    BY <1>1, <1>2, <1>6 DEF Away, Deletes
  <2>2. Fate(m)' = Fate(m)
    BY <1>1, <1>3, <1>6, SameFate DEF Holds
  <2>3. QED
    BY <1>4, <2>1, <2>2, NothingMoves
<1>7. CASE m \in Elements(queue[t]) /\ m \notin astray
  <2>1. Fate(m) = "kept" /\ Fate(m)' = "gone"
    BY <1>1, <1>2, <1>3, <1>7, Taken
  <2>2. Promise!Becomes(m, "gone") /\ whereabouts[m] = "kept"
    BY <1>4, <2>1, Turns, OnePlace
  <2>3. Away' = Away \cup {m}
    BY <1>1, <1>2, <1>7 DEF Away, Deletes
  <2>4. QED
    BY <2>2, <2>3, SomethingMoves DEF Promise!Delete, Away
<1>8. QED
  BY <1>5, <1>6, <1>7

LEMMA EditStep == ASSUME HomeInv, HomeInv', NEW m \in Messages, EditQueued(m) PROVE Implements
<1>1. PICK t \in Threads : t = seen.active
  BY DEF HomeInv, TypeOK
<1>2. PICK new \in Messages \ written :
        written' = written \cup {new} /\ draft' = [draft EXCEPT ![t] = new]
  BY <1>1 DEF EditQueued
<1>3. /\ Act /\ RemoveQueued(m) /\ Deletes(m)
      /\ UNCHANGED <<stopped, seen, call, accepted, astray>>
  BY DEF EditQueued, sentVars
<1>4. Holds(t, Elements(queue[t]) \ {m}) /\ "render" \in due'
  BY <1>1, <1>3, RemovedShown
<1>5. /\ new \notin accepted /\ new \notin astray /\ call[new].via = "none"
      /\ \A u \in Threads : ~IsAt(new, u)
  BY <1>2, <1>3, <1>4, NewDraft DEF Holds
<1> DEFINE old == ({m} \cap Elements(queue[t])) \ astray
           f == [n \in Messages |-> IF n \in old \cup Over(t) THEN "gone"
                                    ELSE IF n = new THEN "draft" ELSE whereabouts[n]]
<1>6. /\ Over(t) \subseteq Messages /\ \A n, o \in Over(t) : n = o
      /\ \A n \in Over(t) : Fate(n) = "draft" /\ (n # new => Fate(n)' = "gone")
      /\ \A u \in Threads : draft'[u] = IF u = t THEN new ELSE draft[u]
      /\ \A n \in Messages \ {m, new} : n \in astray \/ draft[t] # n => Fate(n)' = Fate(n)
  <2>1. \A n \in Messages : \A u \in Threads : n \in Elements(queue'[u]) => n \in Elements(queue[u])
    BY <1>4 DEF Holds
  <2>2. \A n \in Messages \ {m, new} : \A u \in Threads :
          n \in Elements(queue'[u]) <=> n \in Elements(queue[u])
    BY <1>4 DEF Holds
  <2>3. \A n \in Messages \ {m, new} : n \in written' <=> n \in written
    BY <1>2
  <2>4. written \subseteq written'
    BY <1>2
  <2>5. \A n \in Messages \ {new} : call'[n].via = call[n].via
    BY <1>3
  <2>6. /\ Over(t) \subseteq Messages /\ \A n, o \in Over(t) : n = o
        /\ \A n \in Over(t) : Fate(n) = "draft" /\ (n # new => Fate(n)' = "gone")
        /\ \A u \in Threads : draft'[u] = IF u = t THEN new ELSE draft[u]
        /\ \A n \in Messages \ {new} :
             /\ n \in astray \/ draft[t] # n
             /\ n \in written' <=> n \in written
             /\ \A u \in Threads : n \in Elements(queue'[u]) <=> n \in Elements(queue[u])
             => Fate(n)' = Fate(n)
    BY <1>2, <1>3, <2>1, <2>4, <2>5, Overwrites
  <2>7. QED
    BY <2>2, <2>3, <2>6
<1>7. Fate(new) = "new" /\ Fate(new)' = "draft" /\ new \notin old /\ new \notin Over(t)
  <2>1. /\ ~InQueue(new) /\ ~InDraft(new) /\ ~Under(new) /\ ~OfQueue(new)
        /\ new \notin Elements(queue[t]) /\ draft[t] # new
    BY <1>5 DEF IsAt, InQueue, InDraft, Under, OfQueue
  <2>2. ~InQueue(new)' /\ InDraft(new)' /\ ~Under(new)' /\ ~OfQueue(new)'
    BY <1>3, <1>4, <1>5, <1>6, <2>1 DEF Holds, InQueue, InDraft, Under, OfQueue
  <2>3. QED
    BY <1>2, <1>3, <1>5, <2>1, <2>2 DEF Fate, Over
<1>8. \A n \in Messages : whereabouts[n] = Fate(n)
  BY OnePlace
<1>9. m \in old => Fate(m) = "kept" /\ Fate(m)' = "gone"
  <2>1. m \in old => m # new
    BY <1>7
  <2>2. m # new => \A u \in Threads : draft'[u] = m => draft[u] = m
    BY <1>6
  <2>3. written \subseteq written'
    BY <1>2
  <2>4. QED
    BY <1>3, <1>4, <2>1, <2>2, <2>3, Taken
<1>10. m \notin old /\ m \notin Over(t) /\ m # new => Fate(m)' = Fate(m)
  <2> SUFFICES ASSUME m \notin old, m \notin Over(t), m # new PROVE Fate(m)' = Fate(m)
    OBVIOUS
  <2>1. CASE m \in astray
    BY <1>3, <2>1, AstrayStays
  <2>2. CASE m \notin astray
    <3>1. m \notin Elements(queue[t]) /\ draft[t] # m
      BY <2>2 DEF Over
    <3>2. /\ \A u \in Threads : draft'[u] = m <=> draft[u] = m
          /\ \A u \in Threads : m \in Elements(queue'[u]) <=> m \in Elements(queue[u])
          /\ m \in written' <=> m \in written
      BY <1>2, <1>4, <1>6, <3>1 DEF Holds
    <3>3. QED
      BY <1>3, <3>2, SameFate
  <2>3. QED
    BY <2>1, <2>2
<1>11. Moved(f)
  <2> SUFFICES ASSUME NEW n \in Messages PROVE Fate(n)' = f[n]
    BY DEF Moved
  <2>1. CASE n \in Over(t)
    BY <1>6, <1>7, <2>1
  <2>2. CASE n \in old
    BY <1>9, <2>2
  <2>3. CASE n = new
    BY <1>7, <2>3
  <2>4. CASE n = m /\ n \notin old \cup Over(t) /\ n # new
    BY <1>8, <1>10, <2>4
  <2>5. CASE n \notin old \cup Over(t) /\ n \notin {m, new}
    <3>1. n \in astray \/ draft[t] # n
      BY <2>5 DEF Over
    <3>2. QED
      BY <1>6, <1>8, <2>5, <3>1
  <2>6. QED
    BY <2>1, <2>2, <2>3, <2>4, <2>5
<1>12. whereabouts' = f
  BY <1>11, Moves
<1>13. old \in Promise!OneOf("kept") /\ Over(t) \in Promise!OneOf("draft") /\ whereabouts[new] = "new"
  BY <1>6, <1>7, <1>8, <1>9 DEF Promise!OneOf
<1>14. Away' = Away \cup old
  BY <1>1, <1>3 DEF Away, Deletes
<1>15. Promise!Rewrite(new)
  BY <1>12, <1>13, <1>14 DEF Promise!Rewrite, Away
<1>16. QED
  BY <1>15, SomethingMoves

LEMMA SteerStep == ASSUME HomeInv, HomeInv', NEW m \in Messages, SteerQueued(m) PROVE Implements
<1>1. UNCHANGED <<draft, written, stopped, deleted, accepted, astray>>
  BY DEF SteerQueued, userVars, sentVars
<1>2. PICK t \in Threads, i \in Nat \ {0} :
        /\ m \in Elements(queue[t]) /\ Holds(t, Elements(queue[t]) \ {m})
        /\ call' = [call EXCEPT ![m] = [via |-> "steer", thread |-> t, index |-> i,
                                        fresh |-> TRUE, begun |-> FALSE]]
  BY SteerMoves
<1>3. call'[m].via = "steer" /\ \A n \in Messages \ {m} : call'[n] = call[n]
  BY <1>2 DEF HomeInv, TypeOK
<1>4. Fate(m)' = Fate(m)
  <2>1. CASE m \in astray
    BY <1>1, <2>1, AstrayStays
  <2>2. CASE m \notin astray
    <3>1. Fate(m) = "kept" /\ m \notin accepted
      BY <1>2, <2>2, Fates DEF InQueue
    <3>2. QED
      BY <1>1, <1>3, <2>2, <3>1 DEF Fate, OfQueue
  <2>3. QED
    BY <2>1, <2>2
<1>5. ASSUME NEW n \in Messages, n # m PROVE Fate(n)' = Fate(n)
  BY <1>1, <1>2, <1>3, <1>5, SameFate DEF Holds
<1>6. Away' = Away
  BY <1>1 DEF Away
<1>7. QED
  BY <1>4, <1>5, <1>6, NothingMoves

LEMMA ClearStep == ASSUME HomeInv, HomeInv', ClearQueued PROVE Implements
<1>1. PICK t \in Threads : t = seen.active
  BY DEF HomeInv, TypeOK
<1> DEFINE underway == {n \in Messages : OfQueue(n) /\ call[n].thread = t}
           held == Elements(queue[t]) \ astray
           away == (Elements(queue[t]) \cup underway) \ astray
           f == [n \in Messages |-> IF n \in held THEN "gone" ELSE whereabouts[n]]
<1>2. /\ queue' = [queue EXCEPT ![t] = <<>>] /\ call' = ClearedCalls(t)
      /\ stopped' = stopped \cup Elements(queue[t]) \cup underway
      /\ UNCHANGED <<draft, written, deleted, accepted, astray>>
  BY <1>1 DEF ClearQueued, sentVars
<1>3. \A n \in Messages : call'[n].via = call[n].via
  BY <1>2, ClearedKeeps
<1>4. IsQueue(<<>>) /\ Elements(<<>>) = {}
  BY DEF IsQueue, Distinct, Elements
<1>5. Holds(t, {})
  BY <1>2, <1>4, OneChanges
<1>6. Elements(queue[t]) \subseteq Messages
  BY DEF Elements, HomeInv, TypeOK
<1>7. ASSUME NEW n \in held PROVE Fate(n) = "kept" /\ Fate(n)' = "gone"
  <2>1. Sound(n) /\ InQueue(n) /\ IsAt(n, t) /\ n \notin astray /\ n \in Messages
    BY <1>6 DEF HomeInv, Placed, InQueue, IsAt
  <2>2. /\ ~InDraft(n) /\ ~Under(n) /\ ~OfQueue(n) /\ n \in written /\ n \notin accepted
        /\ Fate(n) = "kept"
    BY <2>1, Fates
  <2>3. ~InQueue(n)' /\ ~InDraft(n)' /\ ~Under(n)' /\ ~OfQueue(n)'
    BY <1>2, <1>3, <1>5, <2>1, <2>2 DEF Sound, IsAt, Holds, InQueue, InDraft, Under, OfQueue
  <2>4. QED
    BY <1>2, <2>1, <2>2, <2>3 DEF Fate
<1>8. ASSUME NEW n \in Messages, n \notin held PROVE Fate(n)' = Fate(n)
  <2>1. CASE n \in astray
    BY <1>2, <2>1, AstrayStays
  <2>2. CASE n \notin Elements(queue[t])
    BY <1>2, <1>3, <1>5, <2>2, SameFate DEF Holds
  <2>3. QED
    BY <1>8, <2>1, <2>2
<1>9. \A n \in Messages : whereabouts[n] = Fate(n)
  BY OnePlace
<1>10. Moved(f)
  BY <1>7, <1>8, <1>9 DEF Moved
<1>11. whereabouts' = f
  BY <1>10, Moves
<1>12. away \in SUBSET {n \in Messages : whereabouts[n] = "kept"} /\ held \in SUBSET away
  <2>1. \A n \in underway \ astray : Fate(n) = "kept"
    BY Fates
  <2>2. QED
    BY <1>6, <1>7, <1>9, <2>1
<1>13. Away' = Away \cup away
  BY <1>2 DEF Away
<1>14. Promise!Stop
  BY <1>11, <1>12, <1>13 DEF Promise!Stop, Away
<1>15. QED
  BY <1>14 DEF Implements, Promise!Next, Promise!vars

LEMMA BeginStep == ASSUME HomeInv, HomeInv', NEW m \in Messages, Begin(m) PROVE Implements
<1>1. /\ call' = [call EXCEPT ![m].begun = TRUE]
      /\ UNCHANGED <<queue, draft, written, stopped, deleted, accepted, astray>>
  BY DEF Begin, hookVars, userVars, sentVars
<1>2. \A n \in Messages : call'[n].via = call[n].via
  BY <1>1, BegunKeeps
<1>3. Away' = Away
  BY <1>1 DEF Away
<1>4. QED
  BY <1>1, <1>2, <1>3, SameFate, NothingMoves

LEMMA SentStep == ASSUME HomeInv, HomeInv', NEW m \in Messages, Sent(m) PROVE Implements
<1>1. /\ Ends(m) /\ Under(m) /\ accepted' = accepted \cup {m}
      /\ UNCHANGED <<queue, draft, written, stopped, deleted, astray>>
  BY DEF Sent, userVars
<1>2. \A n \in Messages : n # m => call'[n] = call[n]
  BY <1>1, Ended
<1>3. \A n \in Messages : n # m => Fate(n)' = Fate(n)
  BY <1>1, <1>2, SameFate
<1>4. Away' = Away
  BY <1>1 DEF Away
<1>5. CASE m \in astray
  BY <1>1, <1>3, <1>4, <1>5, AstrayStays, NothingMoves
<1>6. CASE m \notin astray
  <2>1. Fate(m)' = "sent"
    BY <1>1, <1>6 DEF Fate
  <2>2. Promise!Becomes(m, "sent")
    BY <1>3, <2>1, Turns
  <2>3. whereabouts[m] \in {"asked", "kept"}
    BY <1>1, <1>6, Fates, OnePlace
  <2>4. QED
    BY <1>4, <2>2, <2>3, SomethingMoves DEF Promise!Send, Away
<1>7. QED
  BY <1>5, <1>6

\* A send whose message goes to its thread's queue, S then, or nowhere.
LEMMA RequeuedStep ==
  ASSUME HomeInv, HomeInv', NEW m \in Messages, Under(m), Ends(m),
         NEW t \in Threads, NEW S \in {Elements(queue[t]), Elements(queue[t]) \cup {m}},
         Holds(t, S), UNCHANGED <<draft, written, stopped, deleted, accepted, astray>>
  PROVE  /\ Away' = Away /\ \A n \in Messages : n # m => Fate(n)' = Fate(n)
         /\ m \in astray => Fate(m)' = Fate(m)
         /\ m \notin astray => Fate(m)' = IF m \in S THEN "kept" ELSE "gone"
<1>1. call'[m].via = "none" /\ \A n \in Messages : n # m => call'[n] = call[n]
  BY Ended
<1>2. ASSUME m \notin astray PROVE Fate(m)' = IF m \in S THEN "kept" ELSE "gone"
  <2>1. ~InQueue(m) /\ ~InDraft(m) /\ m \in written /\ m \notin accepted
    BY <1>2, Fates
  <2>2. /\ InQueue(m)' <=> m \in S
        /\ ~InDraft(m)' /\ ~Under(m)' /\ ~OfQueue(m)'
    BY <1>1, <2>1 DEF InQueue, InDraft, Under, OfQueue, Holds
  <2>3. QED
    BY <1>2, <2>1, <2>2 DEF Fate
<1>3. ASSUME NEW n \in Messages, n # m PROVE Fate(n)' = Fate(n)
  <2>1. \A u \in Threads : n \in Elements(queue'[u]) <=> n \in Elements(queue[u])
    BY <1>3 DEF Holds
  <2>2. QED
    BY <1>1, <1>3, <2>1, SameFate
<1>4. m \in astray => Fate(m)' = Fate(m)
  BY AstrayStays
<1>5. Away' = Away
  BY DEF Away
<1>6. QED
  BY <1>2, <1>3, <1>4, <1>5

\* A queued message that comes back: unless the user has stopped it since.
LEMMA ComesBack ==
  ASSUME HomeInv, HomeInv', NEW m \in Messages, OfQueue(m), Ends(m),
         NEW t \in Threads, NEW S \in {Elements(queue[t]), Elements(queue[t]) \cup {m}},
         Holds(t, S), call[m].fresh => m \in S,
         UNCHANGED <<draft, written, stopped, deleted, accepted, astray>>
  PROVE  Implements
<1>1. Under(m)
  BY DEF OfQueue, Under
<1>2. /\ Away' = Away /\ \A n \in Messages : n # m => Fate(n)' = Fate(n)
      /\ m \in astray => Fate(m)' = Fate(m)
      /\ m \notin astray => Fate(m)' = IF m \in S THEN "kept" ELSE "gone"
  BY <1>1, RequeuedStep
<1>3. CASE m \in astray
  BY <1>2, <1>3, NothingMoves
<1>4. CASE m \notin astray
  <2>1. Fate(m) = "kept" /\ whereabouts[m] = "kept"
    BY <1>4, Fates, OnePlace
  <2>2. CASE m \in S
    BY <1>2, <1>4, <2>1, <2>2, NothingMoves
  <2>3. CASE m \notin S
    <3>1. m \in Away
      BY <1>4, <2>3 DEF HomeInv, Placed, Sound, Away
    <3>2. Promise!Becomes(m, "gone")
      BY <1>2, <1>4, <2>3, Turns
    <3>3. QED
      BY <1>2, <2>1, <3>1, <3>2, SomethingMoves DEF Promise!Drop, Away
  <2>4. QED
    BY <2>2, <2>3
<1>5. QED
  BY <1>3, <1>4

LEMMA RestoreStep ==
  ASSUME HomeInv, HomeInv', NEW m \in Messages, call[m].via = "steer", Ends(m), Restore(m),
         UNCHANGED <<draft, written, stopped, deleted, accepted, astray>>
  PROVE  Implements
<1>1. OfQueue(m)
  BY DEF OfQueue
<1>2. PICK t \in Threads : \E S \in {Elements(queue[t]), Elements(queue[t]) \cup {m}} :
        Holds(t, S) /\ (m \in S <=> call[m].fresh)
  BY RestoreHolds
<1>3. PICK S \in {Elements(queue[t]), Elements(queue[t]) \cup {m}} :
        Holds(t, S) /\ (m \in S <=> call[m].fresh)
  BY <1>2
<1>4. QED
  BY <1>1, <1>3, ComesBack

LEMMA BlockedStep == ASSUME HomeInv, HomeInv', NEW m \in Messages, Blocked(m) PROVE Implements
<1>1. Under(m) /\ Ends(m) /\ UNCHANGED <<written, stopped, deleted, accepted, astray>>
  BY DEF Blocked, sentVars
<1>2. PICK t \in Threads : t = call[m].thread
  BY <1>1, OnItsWay
<1>3. CASE GivenBack(m) /\ UNCHANGED queue
  <2>1. draft' = [draft EXCEPT ![t] = m]
    BY <1>2, <1>3 DEF GivenBack
  <2>2. call'[m].via = "none" /\ \A n \in Messages : n # m => call'[n] = call[n]
    BY <1>1, Ended
  <2>3. QED
    BY <1>1, <1>3, <2>1, <2>2, Returns
<1>4. CASE call[m].via = "steer" /\ Restore(m) /\ UNCHANGED draft
  BY <1>1, <1>4, RestoreStep
<1>5. QED
  BY <1>3, <1>4 DEF Blocked

LEMMA SteerFailsStep == ASSUME HomeInv, HomeInv', NEW m \in Messages, SteerFails(m) PROVE Implements
<1>1. Ends(m) /\ UNCHANGED <<draft, written, stopped, deleted, accepted, astray>>
  BY DEF SteerFails, userVars, sentVars
<1>2. CASE call[m].via = "directSteer" /\ queue' = [queue EXCEPT ![call[m].thread] = Append(@, m)]
  <2>1. Under(m) /\ ~OfQueue(m)
    BY <1>2 DEF Under, OfQueue
  <2>2. PICK t \in Threads : t = call[m].thread
    BY <2>1, OnItsWay
  <2>3. m \notin Elements(queue[t]) /\ queue' = [queue EXCEPT ![t] = Append(queue[t], m)]
    BY <1>2, <2>2 DEF HomeInv, Placed, Sound
  <2>4. Holds(t, Elements(queue[t]) \cup {m})
    BY <2>3, Appends
  <2>5. /\ Away' = Away /\ \A n \in Messages : n # m => Fate(n)' = Fate(n)
        /\ m \in astray => Fate(m)' = Fate(m)
        /\ m \notin astray => Fate(m)' = "kept"
    BY <1>1, <2>1, <2>4, RequeuedStep
  <2>6. CASE m \in astray
    BY <2>5, <2>6, NothingMoves
  <2>7. CASE m \notin astray
    <3>1. whereabouts[m] = "asked"
      BY <2>1, <2>7, Fates, OnePlace
    <3>2. Promise!Becomes(m, "kept")
      BY <2>5, <2>7, Turns
    <3>3. QED
      BY <2>5, <3>1, <3>2, SomethingMoves DEF Promise!Keep, Away
  <2>8. QED
    BY <2>6, <2>7
<1>3. CASE call[m].via = "steer" /\ Restore(m)
  BY <1>1, <1>3, RestoreStep
<1>4. QED
  BY <1>2, <1>3 DEF SteerFails

LEMMA ThrowsStep == ASSUME HomeInv, HomeInv', NEW m \in Messages, Throws(m) PROVE Implements
<1>1. Under(m) /\ Ends(m) /\ UNCHANGED <<draft, written, stopped, deleted, accepted, astray>>
  BY DEF Throws, userVars, sentVars
<1>2. PICK t \in Threads : t = call[m].thread
  BY <1>1, OnItsWay
<1>3. CASE call[m].via = "flush" /\ Retry(m)
  <2>1. OfQueue(m)
    BY <1>3 DEF OfQueue
  <2>2. CASE call[m].fresh
    <3>1. m \notin Elements(queue[t]) /\ queue' = [queue EXCEPT ![t] = <<m>> \o queue[t]]
      BY <1>2, <1>3, <2>2 DEF Retry, PutBack, Queued
    <3>2. Holds(t, Elements(queue[t]) \cup {m})
      BY <3>1, Prepends
    <3>3. QED
      BY <1>1, <2>1, <3>2, ComesBack
  <2>3. CASE ~call[m].fresh
    <3>1. Holds(t, Elements(queue[t]))
      BY <1>3, <2>3, NoneChanges DEF Retry
    <3>2. QED
      BY <1>1, <2>1, <2>3, <3>1, ComesBack
  <2>4. QED
    BY <2>2, <2>3
<1>4. CASE call[m].via = "steer" /\ Restore(m)
  BY <1>1, <1>4, RestoreStep
<1>5. CASE call[m].via \in {"direct", "directSteer"} /\ UNCHANGED hookVars
  <2>1. ~OfQueue(m) /\ m \notin Elements(queue[t]) /\ queue' = queue
    BY <1>5 DEF OfQueue, hookVars, HomeInv, Placed, Sound
  <2>2. Holds(t, Elements(queue[t]))
    BY <2>1, NoneChanges
  <2>3. /\ Away' = Away /\ \A n \in Messages : n # m => Fate(n)' = Fate(n)
        /\ m \in astray => Fate(m)' = Fate(m)
        /\ m \notin astray => Fate(m)' = "gone"
    BY <1>1, <2>1, <2>2, RequeuedStep
  <2>4. CASE m \in astray
    BY <2>3, <2>4, NothingMoves
  <2>5. CASE m \notin astray
    <3>1. Promise!Becomes(m, "gone") /\ whereabouts[m] = "asked"
      BY <1>1, <2>1, <2>3, <2>5, Turns, Fates, OnePlace
    <3>2. QED
      BY <2>3, <3>1, SomethingMoves DEF Promise!Fail, Away
  <2>6. QED
    BY <2>4, <2>5
<1>6. QED
  BY <1>3, <1>4, <1>5 DEF Throws

LEMMA ImplementsStep == HomeInv /\ HomeInv' /\ [Next]_vars => Implements
<1> SUFFICES ASSUME HomeInv, HomeInv', [Next]_vars PROVE Implements
  OBVIOUS
<1>1. CASE UNCHANGED vars
  BY <1>1, QuietStep DEF vars, hookVars, userVars, sentVars
<1>2. ASSUME NEW t \in Threads, SwitchTo(t) \/ TurnOver(t) \/ TurnAsks(t) \/ Replied(t) \/ OtherTurn(t)
      PROVE  Implements
  BY <1>2, QuietStep
     DEF SwitchTo, TurnOver, TurnAsks, Replied, OtherTurn, Thread, hookVars, userVars, sentVars
<1>3. ASSUME NEW m \in Messages, TimerFires(m) PROVE Implements
  BY <1>3, QuietStep DEF TimerFires, userVars, sentVars
<1>4. CASE Next
  BY <1>2, <1>3, <1>4, CommitStep, EffectsStep, ClearStep, TypeStep, SubmitStep, DeleteStep, EditStep,
     SteerStep, BeginStep, SentStep, BlockedStep, SteerFailsStep, ThrowsStep DEF Next, Environment
<1>5. QED
  BY <1>1, <1>4

LEMMA ImplementsInit == Init => Promise!Init
<1> SUFFICES ASSUME Init PROVE Promise!Init
  OBVIOUS
<1>1. HomeInv
  BY InitHome
<1>2. ASSUME NEW m \in Messages PROVE whereabouts[m] = "new"
  <2>1. ~InQueue(m) /\ ~InDraft(m)
    BY NoneIsNoMessage DEF Init, InQueue, InDraft, Elements
  <2>2. ~Under(m) /\ ~OfQueue(m)
    BY DEF Init, Under, OfQueue, NoCall
  <2>3. Fate(m) = "new"
    BY <2>1, <2>2 DEF Fate, Init
  <2>4. QED
    BY <1>1, <2>3, OnePlace
<1>3. whereabouts = [m \in Messages |-> "new"]
  BY <1>2, IsFunction
<1>4. QED
  BY <1>3 DEF Promise!Init, Init

-----------------------------------------------------------------------------

\* A queued message is sent, given back to the user or taken away by the user,
\* never lost and never sent twice, whatever the order of flushes, steers,
\* failures, retries, clears and switches (useQueuedSend.ts), but for the two of a
\* flush whose slice(1) meets another queue than it was rendered with (636-652).
THEOREM OutboxImplemented == Spec => KeepsPromise
<1>1. HomeInv /\ HomeInv' /\ [Next]_vars => [Promise!Next]_(Promise!vars)
  BY ImplementsStep DEF Implements
<1>2. QED
  BY <1>1, ImplementsInit, HomeAlways, PTL DEF Spec, KeepsPromise, Promise!Spec

-----------------------------------------------------------------------------
(* ThreadItems *)

\* A set of numbers up to n that has 0 has a greatest.
LEMMA Greatest ==
  ASSUME NEW n \in Nat, NEW S \in SUBSET (0 .. n), 0 \in S
  PROVE  \E x \in S : \A y \in S : y <= x
<1> DEFINE below == {n - y : y \in S}
<1>1. below \in SUBSET Nat /\ below # {}
  BY S \subseteq 0 .. n
<1>2. PICK z \in below : \A y \in below : z <= y
  BY <1>1, Least
<1>3. PICK x \in S : z = n - x
  BY <1>2
<1>4. \A y \in S : n - x <= n - y
  BY <1>2, <1>3
<1>5. \A y \in S : y \in 0 .. n
  OBVIOUS
<1>6. QED
  BY <1>4, <1>5

LEMMA PrefixOfItself ==
  ASSUME NEW S, NEW s \in Seq(S), NEW t \in Seq(S)
  PROVE  IsPrefix(s, s) /\ IsPrefix(s, s \o t) /\ s \o t \in Seq(S)
<1>1. s \o t \in Seq(S) /\ Len(s \o t) = Len(s) + Len(t)
  OBVIOUS
<1>2. \A k \in 1 .. Len(s) : (s \o t)[k] = s[k]
  OBVIOUS
<1>3. Len(s) \in Nat /\ Len(t) \in Nat
  OBVIOUS
<1>4. SubSeq(s, 1, Len(s)) = [k \in 1 .. Len(s) |-> s[k]]
  BY <1>3
<1>5. SubSeq(s \o t, 1, Len(s)) = [k \in 1 .. Len(s) |-> (s \o t)[k]]
  BY <1>1, <1>3
<1>6. QED
  BY <1>1, <1>2, <1>3, <1>4, <1>5 DEF IsPrefix

\* However a delta overlaps the text that is shown, merging it takes back nothing of
\* that text (mergeStreamingText, threadReducer/common.ts).
THEOREM DeltaLengthens ==
  ASSUME NEW existing \in Seq(Nat), NEW delta \in Seq(Nat)
  PROVE  /\ MergeStreamingText(existing, delta) \in Seq(Nat)
         /\ IsPrefix(existing, MergeStreamingText(existing, delta))
<1> DEFINE overlaps == {n \in 0..Len(delta) : IsSuffix(SubSeq(delta, 1, n), existing)}
           longest  == CHOOSE n \in overlaps : \A m \in overlaps : m <= n
           rest     == SubSeq(delta, longest + 1, Len(delta))
<1>1. CASE IsPrefix(existing, delta)
  BY <1>1 DEF MergeStreamingText
<1>2. CASE ~IsPrefix(existing, delta) /\ IsPrefix(delta, existing)
  BY <1>2, PrefixOfItself DEF MergeStreamingText
<1>3. CASE ~IsPrefix(existing, delta) /\ ~IsPrefix(delta, existing)
  <2>1. 0 \in overlaps
    <3>1. SubSeq(delta, 1, 0) = <<>> /\ 0 \in 0 .. Len(delta)
      OBVIOUS
    <3>2. IsSuffix(<<>>, existing)
      <4>1. Reverse(<<>>) = <<>> /\ Reverse(existing) \in Seq(Nat)
        BY DEF Reverse
      <4>2. \A s \in Seq(Nat) : IsPrefix(<<>>, s)
        BY DEF IsPrefix
      <4>3. QED
        BY <4>1, <4>2 DEF IsSuffix
    <3>3. QED
      BY <3>1, <3>2
  <2>2. longest \in 0 .. Len(delta)
    <3>1. overlaps \in SUBSET (0 .. Len(delta)) /\ Len(delta) \in Nat
      OBVIOUS
    <3> HIDE DEF overlaps
    <3>2. \E x \in overlaps : \A y \in overlaps : y <= x
      BY <2>1, <3>1, Greatest
    <3>3. longest \in overlaps
      BY <3>2
    <3>4. QED
      BY <3>1, <3>3
  <2>3. MergeStreamingText(existing, delta) = existing \o rest
    BY <1>3 DEF MergeStreamingText
  <2> HIDE DEF longest
  <2>4. rest \in Seq(Nat)
    BY <2>2
  <2> HIDE DEF rest
  <2>5. QED
    BY <2>3, <2>4, PrefixOfItself
<1>4. QED
  BY <1>1, <1>2, <1>3

-----------------------------------------------------------------------------
(* A refresh at rest. *)

Once(s) == \A m, n \in DOMAIN s : s[m] = s[n] => m = n

\* What a sequence has of a set is of both, once if it was once, and nothing where they
\* have nothing in common.
LEMMA AmongIs ==
  ASSUME NEW T, NEW s \in Seq(T), NEW S
  PROVE  /\ Among(s, S) \in Seq(T \cap S)
         /\ Once(s) => Once(Among(s, S))
         /\ (\A j \in DOMAIN s : s[j] \notin S) => Among(s, S) = <<>>
<1> DEFINE n == Len(s)
           Q == Seq(T \cap S)
           In(i) == s[i] \in S
           G == [i \in 1 .. n |-> [q \in Q |-> IF In(i) THEN Append(q, s[i]) ELSE q]]
           E(h) == h = [i \in 0 .. n |->
                          IF i = 0 THEN <<>> ELSE IF In(i) THEN Append(h[i - 1], s[i]) ELSE h[i - 1]]
<1>1. n \in Nat /\ DOMAIN s = 1 .. n /\ <<>> \in Q /\ \A i \in 1 .. n : In(i) => s[i] \in T \cap S
  OBVIOUS
<1>2. \A q \in Q, e \in T \cap S : Append(q, e) \in Q
  <2> DEFINE C == T \cap S
  <2>1. \A q \in Seq(C), e \in C : Append(q, e) \in Seq(C)
    <3> HIDE DEF C
    <3> QED OBVIOUS
  <2>2. QED
    BY <2>1
<1>3. G \in [1 .. n -> [Q -> Q]]
  <2> HIDE DEF Q, n, In
  <2>1. \A i \in 1 .. n : [q \in Q |-> IF In(i) THEN Append(q, s[i]) ELSE q] \in [Q -> Q]
    BY <1>1, <1>2
  <2>2. QED
    BY <2>1
<1>4. PICK f \in [0 .. n -> Q] : Iterated(f, <<>>, n, G)
  <2> HIDE DEF n, Q, G
  <2> QED BY <1>1, <1>3, Iterates
<1>5. E(f)
  <2>1. \A i \in 0 .. n : i # 0 => i \in 1 .. n /\ i - 1 \in 0 .. n
    BY <1>1
  <2>2. ASSUME NEW i \in 1 .. n
        PROVE  f[i] = IF In(i) THEN Append(f[i - 1], s[i]) ELSE f[i - 1]
    <3>1. i - 1 \in 0 .. n
      BY <1>1
    <3>2. f[i - 1] \in Q /\ f[i] = G[i][f[i - 1]]
      <4> HIDE DEF n, Q, G
      <4> QED BY <1>4, <3>1 DEF Iterated
    <3> HIDE DEF Q, n, In
    <3>3. QED
      BY <3>2
  <2>3. \A i \in 0 .. n :
          f[i] = IF i = 0 THEN <<>> ELSE IF In(i) THEN Append(f[i - 1], s[i]) ELSE f[i - 1]
    <3> HIDE DEF n, Q, G, In
    <3> QED BY <1>4, <2>1, <2>2 DEF Iterated
  <2>4. f = [i \in 0 .. n |-> f[i]]
    BY <1>4
  <2> HIDE DEF n, Q, G, In
  <2>5. QED
    BY <2>3, <2>4
<1> DEFINE g == CHOOSE h : E(h)
<1>6. E(g)
  <2> HIDE DEF E
  <2> QED BY <1>5
<1>7. Among(s, S) = g[n]
  BY DEF Among
<1>8. /\ g[0] = <<>>
      /\ \A i \in 1 .. n : g[i] = IF In(i) THEN Append(g[i - 1], s[i]) ELSE g[i - 1]
  <2> HIDE DEF g, n, In
  <2>1. \A i \in 0 .. n :
          g[i] = IF i = 0 THEN <<>> ELSE IF In(i) THEN Append(g[i - 1], s[i]) ELSE g[i - 1]
    BY <1>6
  <2>2. 0 \in 0 .. n /\ \A i \in 1 .. n : i \in 0 .. n /\ i # 0
    BY <1>1
  <2>3. QED
    BY <2>1, <2>2
<1> HIDE DEF g
<1> DEFINE Early(q, k) == \A m \in DOMAIN q : \E j \in 1 .. k : q[m] = s[j]
           P(k) == /\ g[k] \in Q /\ Early(g[k], k)
                   /\ Once(s) => Once(g[k])
                   /\ (\A j \in DOMAIN s : s[j] \notin S) => g[k] = <<>>
           R == {k \in Nat : P(k)}
<1>9. 0 \in R
  <2>1. DOMAIN g[0] = {} /\ g[0] \in Q
    BY <1>1, <1>8
  <2> HIDE DEF Q
  <2>2. P(0)
    BY <1>8, <2>1 DEF Once
  <2>3. QED
    BY <2>2
<1>10. ASSUME NEW k \in 0 .. n - 1, k \in R PROVE k + 1 \in R
  <2>1. k + 1 \in 1 .. n /\ (k + 1) - 1 = k /\ P(k) /\ k + 1 \in Nat /\ k + 1 \in DOMAIN s /\ k \in Nat
    BY <1>1, <1>10
  <2>2. CASE ~In(k + 1)
    <3>1. g[k + 1] = g[k]
      BY <1>8, <2>1, <2>2
    <3>2. Early(g[k], k + 1)
      <4>1. \A j \in 1 .. k : j \in 1 .. k + 1
        BY <2>1
      <4>2. QED
        BY <2>1, <4>1
    <3> HIDE DEF Q, Early
    <3>3. P(k + 1)
      BY <2>1, <3>1, <3>2
    <3>4. QED
      BY <2>1, <3>3
  <2>3. CASE In(k + 1)
    <3> DEFINE q == g[k]  e == s[k + 1]
    <3>1. g[k + 1] = Append(q, e) /\ e \in T \cap S /\ q \in Q /\ Early(q, k)
      BY <1>1, <1>8, <2>1, <2>3
    <3>2. /\ DOMAIN q = 1 .. Len(q) /\ Len(q) \in Nat /\ DOMAIN Append(q, e) = 1 .. Len(q) + 1
          /\ Append(q, e)[Len(q) + 1] = e
          /\ \A m \in 1 .. Len(q) : Append(q, e)[m] = q[m]
      BY <3>1
    <3>3. Early(Append(q, e), k + 1)
      <4> SUFFICES ASSUME NEW m \in DOMAIN Append(q, e)
                   PROVE  \E j \in 1 .. k + 1 : Append(q, e)[m] = s[j]
        OBVIOUS
      <4>1. CASE m = Len(q) + 1
        BY <2>1, <3>2, <4>1
      <4>2. CASE m # Len(q) + 1
        <5>1. m \in DOMAIN q /\ Append(q, e)[m] = q[m]
          BY <3>2, <4>2
        <5>2. PICK j \in 1 .. k : q[m] = s[j]
          BY <3>1, <5>1
        <5>3. j \in 1 .. k + 1
          BY <2>1
        <5>4. QED
          BY <5>1, <5>2, <5>3
      <4>3. QED
        BY <4>1, <4>2
    <3>4. ASSUME Once(s) PROVE Once(Append(q, e))
      <4>1. Once(q)
        BY <2>1, <3>4
      <4>2. \A m \in 1 .. Len(q) : q[m] # e
        <5> SUFFICES ASSUME NEW m \in 1 .. Len(q), q[m] = e PROVE FALSE
          OBVIOUS
        <5>1. PICK j \in 1 .. k : q[m] = s[j]
          BY <3>1, <3>2
        <5>2. j \in DOMAIN s /\ j # k + 1
          BY <1>1, <2>1
        <5>3. QED
          BY <2>1, <3>4, <5>1, <5>2 DEF Once
      <4> HIDE DEF q, e
      <4>3. QED
        BY <3>2, <4>1, <4>2 DEF Once
    <3>5. ~(\A j \in DOMAIN s : s[j] \notin S)
      BY <2>1, <2>3
    <3>6. Append(q, e) \in Q
      BY <1>2, <3>1
    <3> HIDE DEF Q, Early, q, e
    <3>7. P(k + 1)
      BY <3>1, <3>3, <3>4, <3>5, <3>6
    <3>8. QED
      BY <2>1, <3>7
  <2>4. QED
    BY <2>2, <2>3
<1>11. n \in R
  <2> HIDE DEF R, n
  <2>1. \A k \in 0 .. n : k \in R
    BY <1>1, <1>9, <1>10, UpTo
  <2>2. QED
    BY <1>1, <2>1
<1>12. QED
  BY <1>7, <1>11

\* Nothing is merged where no delta waits,
LEMMA NoDeltas == ASSUME deltas = <<>> PROVE WithDeltas(shown) = shown
<1> DEFINE E(h) == h = [s \in SUBSET DOMAIN deltas |->
                          IF s = {} THEN shown
                          ELSE LET x == Max(s) IN AppendDelta(h[s \ {x}], deltas[x])]
           g == CHOOSE h : E(h)
<1>1. SUBSET DOMAIN deltas = {{}}
  OBVIOUS
<1>2. E([s \in SUBSET DOMAIN deltas |-> shown])
  BY <1>1
<1>3. E(g)
  <2> HIDE DEF E
  <2> QED BY <1>2
<1>4. g[{}] = shown
  <2> HIDE DEF g
  <2> QED BY <1>1, <1>3
<1>5. WithDeltas(shown) = g[DOMAIN deltas]
  BY DEF WithDeltas, FoldLeft, MapThenFoldSet
<1>6. QED
  BY <1>4, <1>5

\* and none where no item does.
LEMMA NoUpserts == ASSUME upserts = <<>> PROVE WithUpserts(shown) = shown
<1> DEFINE E(h) == h = [s \in SUBSET DOMAIN upserts |->
                          IF s = {} THEN shown
                          ELSE LET x == Max(s) IN UpsertItem(h[s \ {x}], upserts[x])]
           g == CHOOSE h : E(h)
<1>1. SUBSET DOMAIN upserts = {{}}
  OBVIOUS
<1>2. E([s \in SUBSET DOMAIN upserts |-> shown])
  BY <1>1
<1>3. E(g)
  <2> HIDE DEF E
  <2> QED BY <1>2
<1>4. g[{}] = shown
  <2> HIDE DEF g
  <2> QED BY <1>1, <1>3
<1>5. WithUpserts(shown) = g[DOMAIN upserts]
  BY DEF WithUpserts, FoldLeft, MapThenFoldSet
<1>6. QED
  BY <1>4, <1>5

\* The server's items are begun once, and none goes on when the turn is over.
ServerInv ==
  /\ order \in Seq(Items) /\ Once(order)
  /\ turn = "over" => \A i \in Items : ~Running(i)

Entry == [id : Items, text : {Whole(i) : i \in Items} \cup {<<>>}]

\* A list of items shown, each of them once.
ShownList(list) ==
  /\ list \in Seq(Entry)
  /\ \A m, n \in DOMAIN list : list[m].id = list[n].id => m = n

\* What a read says is such a list.
LEMMA SnapshotIs == ASSUME ServerInv PROVE ShownList(Snapshot.items)
<1> DEFINE known == Among(order, {i \in Items : i \in done \/ Kind[i] = "tool"})
           items == [n \in DOMAIN known |->
                       [id |-> known[n], text |-> IF known[n] \in done THEN Whole(known[n]) ELSE <<>>]]
<1>1. known \in Seq(Items) /\ Once(known)
  <2> DEFINE C == {i \in Items : i \in done \/ Kind[i] = "tool"}
  <2>1. Among(order, C) \in Seq(Items \cap C) /\ Once(Among(order, C))
    <3> HIDE DEF C
    <3> QED BY AmongIs DEF ServerInv
  <2>2. Items \cap C = C /\ C \subseteq Items
    OBVIOUS
  <2>3. Among(order, C) \in Seq(Items)
    <3> HIDE DEF C
    <3> QED BY <2>1, <2>2
  <2>4. QED
    BY <2>1, <2>3
<1> HIDE DEF known
<1>2. DOMAIN known = 1 .. Len(known) /\ Len(known) \in Nat /\ \A n \in DOMAIN known : known[n] \in Items
  BY <1>1
<1>3. \A n \in 1 .. Len(known) : items[n] \in Entry /\ items[n].id = known[n]
  BY <1>2 DEF Entry
<1>4. items \in Seq(Entry) /\ DOMAIN items = DOMAIN known
  <2> DEFINE N == Len(known)
  <2>1. items \in [1 .. N -> Entry]
    <3>1. items = [n \in 1 .. N |-> items[n]]
      BY <1>2
    <3> HIDE DEF items, N, Entry
    <3>2. QED
      BY <1>3, <3>1 DEF N
  <2> HIDE DEF items
  <2>2. QED
    BY <1>2, <2>1
<1>5. ShownList(items)
  <2> HIDE DEF items, Entry
  <2> QED BY <1>1, <1>2, <1>3, <1>4 DEF ShownList, Once
<1>6. Snapshot.items = items
  BY DEF Snapshot, known
<1>7. QED
  BY <1>5, <1>6

\* A list merged with itself is the same.
LEMMA MergedWithItself ==
  ASSUME NEW list, ShownList(list)
  PROVE  MergeByTurn(list, list) = list
<1>1. /\ list \in Seq(Entry) /\ DOMAIN list = 1 .. Len(list) /\ Len(list) \in Nat
      /\ \A n \in DOMAIN list : list[n] \in Entry
  BY DEF ShownList
<1>2. ASSUME NEW n \in DOMAIN list
      PROVE  Has(list, list[n].id) /\ MergeItem(list, list[n]) = list[n]
  <2> DEFINE i == list[n].id
  <2>1. Has(list, i) /\ At(list, i) = n
    BY DEF Has, Ids, At, ShownList
  <2>2. TextOf(list, i) = list[n].text
    BY <2>1 DEF TextOf
  <2>3. Richer(i, list[n].text, list[n].text) = list[n].text
    BY DEF Richer
  <2>4. MergeItem(list, list[n]) = [list[n] EXCEPT !.text = list[n].text]
    BY <2>1, <2>2, <2>3 DEF MergeItem
  <2>5. [list[n] EXCEPT !.text = list[n].text] = list[n]
    <3>1. list[n] \in Entry
      BY <1>1
    <3>2. \A e \in Entry : [e EXCEPT !.text = e.text] = e
      BY DEF Entry
    <3>3. QED
      BY <3>1, <3>2
  <2>6. QED
    BY <2>1, <2>4, <2>5
<1> DEFINE rest == Among(list, {item \in ToSet(list) : ~Has(list, item.id)})
<1>3. rest = <<>>
  <2> DEFINE S == {item \in ToSet(list) : ~Has(list, item.id)}
  <2>1. \A n \in DOMAIN list : list[n] \notin S
    BY <1>2
  <2> HIDE DEF S
  <2>2. Among(list, S) = <<>>
    BY <1>1, <2>1, AmongIs
  <2>3. QED
    BY <2>2 DEF S
<1>4. MergeByTurn(list, list) = [n \in DOMAIN list |-> MergeItem(list, list[n])] \o rest
  <2>1. ~(Len(list) > Len(list))
    BY <1>1
  <2> HIDE DEF rest
  <2>2. QED
    BY <2>1 DEF MergeByTurn, rest
<1>5. [n \in DOMAIN list |-> MergeItem(list, list[n])] = list
  <2>1. [n \in DOMAIN list |-> MergeItem(list, list[n])] = [n \in DOMAIN list |-> list[n]]
    BY <1>2
  <2>2. list = [n \in DOMAIN list |-> list[n]]
    BY <1>1
  <2>3. QED
    BY <2>1, <2>2
<1>6. list \o <<>> = list
  BY <1>1
<1>7. QED
  BY <1>3, <1>4, <1>5, <1>6

\* The server's own steps keep its items so; the frontend takes none.
LEMMA ServerKept ==
  ASSUME ServerInv, [ItemsNext]_itemsVars
  PROVE  ServerInv'
<1>1. ASSUME UNCHANGED serverVars PROVE ServerInv'
  BY <1>1 DEF ServerInv, serverVars, Running
<1>2. CASE UNCHANGED itemsVars \/ Handle \/ FlushTimerFires \/ Reading
  <2>1. UNCHANGED serverVars
    BY <1>2 DEF itemsVars, Handle, FlushTimerFires, Reading, Handles, OnDelta, OnItemStarted,
                OnItemCompleted, OnAgentMessageCompleted, OnTurnStarted, OnTurnCompleted, Resume,
                Refresh, Ask, Answer, ReadFails, Apply, Ignore
  <2>2. QED
    BY <1>1, <2>1
<1>3. CASE TurnStarts
  BY <1>3 DEF TurnStarts, ServerInv
<1>4. CASE TurnEnds
  BY <1>4 DEF TurnEnds, ServerInv, Running
<1>5. ASSUME NEW i \in Items, Begins(i) PROVE ServerInv'
  <2>1. /\ order' = Append(order, i) /\ turn' = "running"
        /\ \A n \in DOMAIN order : order[n] # i
    BY <1>5 DEF Begins, Contains
  <2>2. /\ order' \in Seq(Items) /\ DOMAIN order = 1 .. Len(order) /\ Len(order) \in Nat
        /\ DOMAIN order' = 1 .. Len(order) + 1 /\ order'[Len(order) + 1] = i
        /\ \A n \in DOMAIN order : order'[n] = order[n]
    BY <2>1 DEF ServerInv
  <2>3. Once(order')
    BY <2>1, <2>2 DEF Once, ServerInv
  <2>4. QED
    BY <2>1, <2>2, <2>3 DEF ServerInv, Once
<1>6. ASSUME NEW i \in Items, Says(i) \/ Completes(i) PROVE ServerInv'
  <2>1. /\ UNCHANGED <<turn, order>> /\ done \subseteq done'
    BY <1>6 DEF Says, Completes
  <2>2. QED
    BY <2>1 DEF ServerInv, Running
<1>7. QED
  BY <1>2, <1>3, <1>4, <1>5, <1>6 DEF ItemsNext, Server

\* At rest nothing moves but reads: the server is done, nothing is on its way and
\* nothing waits.
LEMMA RestStays ==
  ASSUME ServerInv, AtRest, [ItemsNext]_itemsVars
  PROVE  /\ AtRest' /\ Snapshot' = Snapshot
         /\ \/ UNCHANGED <<shown, readVars, exact>>
            \/ Reading
<1>1. turn = "over" /\ wire = <<>> /\ deltas = <<>> /\ upserts = <<>>
      /\ \A i \in Items : ~Running(i)
  BY DEF AtRest, ServerInv
<1>2. ~Server
  BY <1>1 DEF Server, TurnStarts, TurnEnds, Begins, Says, Completes
<1>3. ~Handle
  BY <1>1 DEF Handle, Handles, OnDelta, OnItemStarted, OnItemCompleted, OnAgentMessageCompleted,
              OnTurnStarted, OnTurnCompleted
<1>4. CASE UNCHANGED itemsVars
  BY <1>1, <1>4 DEF itemsVars, serverVars, bufferVars, AtRest, Snapshot
<1>5. CASE FlushTimerFires
  <2>1. /\ UNCHANGED <<serverVars, wire, readVars, exact>>
        /\ shown' \in {WithDeltas(shown), WithUpserts(shown)}
        /\ deltas' \in {<<>>, deltas} /\ upserts' \in {<<>>, upserts}
    BY <1>5 DEF FlushTimerFires, FlushStreamingDeltas
  <2>2. shown' = shown
    BY <1>1, <2>1, NoDeltas, NoUpserts
  <2>3. QED
    BY <1>1, <2>1, <2>2 DEF serverVars, AtRest, Snapshot
<1>6. CASE Reading
  <2>1. UNCHANGED <<serverVars, wire, bufferVars>>
    BY <1>6 DEF Reading, Resume, Refresh, Ask, Answer, ReadFails, Apply, Ignore
  <2>2. QED
    BY <1>1, <1>6, <2>1 DEF serverVars, bufferVars, AtRest, Snapshot
<1>7. QED
  BY <1>2, <1>3, <1>4, <1>5, <1>6 DEF ItemsNext

IsRead(r) ==
  r = [gen |-> r.gen, refresh |-> r.refresh, local |-> r.local, atRest |-> r.atRest, snap |-> r.snap]

\* A read says what the server has now, if it has been answered.
Current(r) == r.snap \in {Nothing, Snapshot}

\* Reads are numbered, the one applied last is over, and one that was asked for at rest
\* says what the server has.
ReadsInv ==
  /\ asked \in Nat /\ applied \in 0 .. asked
  /\ \A r \in reads : IsRead(r) /\ r.gen \in 1 .. asked /\ r.gen # applied
  /\ \A q, r \in reads : q.gen = r.gen => q = r
  /\ \A r \in reads : r.atRest => r.refresh /\ AtRest /\ Current(r)

\* Once a refresh at rest is applied, the reads that may still be applied were asked for
\* since, and can change nothing.
ExactInv ==
  exact => /\ AtRest /\ shown = Snapshot.items
           /\ \A r \in reads : r.gen > applied => Current(r) /\ (r.refresh \/ r.local = Snapshot.items)

Kept == ServerInv /\ ReadsInv /\ ExactInv

\* What a read at rest asks to be shown: what the server has.
LEMMA HydratedAtRest ==
  ASSUME ServerInv, NEW r, r.snap = Snapshot, NEW replace \in BOOLEAN,
         replace \/ r.local = Snapshot.items
  PROVE  Hydrated(r, replace) = Snapshot.items
<1> DEFINE remote == Snapshot.items
           local  == Candidates(r.local, remote, r.snap)
<1>1. ShownList(remote)
  BY SnapshotIs
<1>2. CASE replace
  BY <1>2 DEF Hydrated
<1>3. CASE ~replace
  <2>1. r.local = remote /\ local \in {remote, <<>>}
    BY <1>3 DEF Candidates
  <2>2. Hydrated(r, replace) = IF remote = <<>> THEN remote
                               ELSE IF local = <<>> THEN remote ELSE MergeByTurn(remote, local)
    BY <1>3, <2>1 DEF Hydrated
  <2>3. MergeByTurn(remote, remote) = remote
    BY <1>1, MergedWithItself
  <2> HIDE DEF remote, local
  <2>4. QED
    BY <2>1, <2>2, <2>3 DEF remote
<1>4. QED
  BY <1>2, <1>3

\* A step that is none of a read's keeps what is known of reads.
LEMMA OthersKeep ==
  ASSUME Kept, [ItemsNext]_itemsVars, UNCHANGED readVars, UNCHANGED exact,
         AtRest => AtRest' /\ Snapshot' = Snapshot /\ UNCHANGED shown
  PROVE  ReadsInv' /\ ExactInv'
<1>1. ReadsInv'
  BY DEF Kept, ReadsInv, readVars, IsRead, Current
<1>2. ExactInv'
  BY DEF Kept, ExactInv, readVars, Current
<1>3. QED
  BY <1>1, <1>2

\* A read that is asked for is the youngest.
LEMMA AskKeeps ==
  ASSUME Kept, NEW refresh \in BOOLEAN, Ask(refresh)
  PROVE  ReadsInv' /\ ExactInv'
<1> DEFINE r == [gen |-> asked + 1, refresh |-> refresh, local |-> IF refresh THEN <<>> ELSE shown,
                 atRest |-> refresh /\ AtRest, snap |-> Nothing]
<1>1. /\ reads' = reads \cup {r} /\ asked' = asked + 1
      /\ UNCHANGED <<serverVars, wire, shown, bufferVars, applied, exact>>
  BY DEF Ask
<1>2. (AtRest <=> AtRest') /\ Snapshot' = Snapshot
  BY <1>1 DEF AtRest, serverVars, bufferVars, Snapshot
<1>3. /\ IsRead(r) /\ r.gen = asked + 1 /\ r.refresh = refresh /\ r.snap = Nothing
      /\ r.local = (IF refresh THEN <<>> ELSE shown) /\ (r.atRest <=> refresh /\ AtRest)
  BY DEF IsRead
<1> HIDE DEF r
<1>4. asked \in Nat /\ applied \in 0 .. asked
  BY DEF Kept, ReadsInv
<1>5. /\ asked' \in Nat /\ applied' \in 0 .. asked'
      /\ \A q \in reads' : q \in reads \/ q = r
      /\ \A q \in reads : q.gen \in 1 .. asked /\ q.gen \in 1 .. asked' /\ q.gen # asked + 1
      /\ asked + 1 \in 1 .. asked' /\ asked + 1 # applied' /\ asked + 1 > applied'
  BY <1>1, <1>4 DEF Kept, ReadsInv
<1>6. \A q \in reads' : IsRead(q) /\ q.gen \in 1 .. asked' /\ q.gen # applied'
  BY <1>1, <1>3, <1>5 DEF Kept, ReadsInv
<1>7. \A p, q \in reads' : p.gen = q.gen => p = q
  BY <1>1, <1>3, <1>5 DEF Kept, ReadsInv
<1>8. \A q \in reads' : q.atRest => q.refresh /\ AtRest' /\ Current(q)'
  BY <1>1, <1>2, <1>3 DEF Kept, ReadsInv, Current
<1>9. ReadsInv'
  BY <1>5, <1>6, <1>7, <1>8 DEF ReadsInv, Current, IsRead
<1>10. ExactInv'
  BY <1>1, <1>2, <1>3 DEF Kept, ExactInv, Current
<1>11. QED
  BY <1>9, <1>10

\* An answer is the list of its moment.
LEMMA AnswerKeeps ==
  ASSUME Kept, NEW r \in reads, Answer(r)
  PROVE  ReadsInv' /\ ExactInv'
<1> DEFINE a == [r EXCEPT !.snap = Snapshot]
<1>1. /\ reads' = (reads \ {r}) \cup {a}
      /\ UNCHANGED <<serverVars, wire, shown, bufferVars, asked, applied, exact>>
  BY DEF Answer
<1>2. (AtRest <=> AtRest') /\ Snapshot' = Snapshot
  BY <1>1 DEF AtRest, serverVars, bufferVars, Snapshot
<1>3. IsRead(r)
  BY DEF Kept, ReadsInv
<1>4. /\ IsRead(a) /\ a.gen = r.gen /\ a.refresh = r.refresh /\ a.local = r.local
      /\ a.atRest = r.atRest /\ a.snap = Snapshot
  BY <1>3 DEF IsRead
<1> HIDE DEF a
<1>5. \A q \in reads' : \/ q \in reads /\ q # r
                        \/ q = a
  BY <1>1
<1>6. \A q \in reads' : IsRead(q) /\ q.gen \in 1 .. asked' /\ q.gen # applied'
  BY <1>1, <1>4, <1>5 DEF Kept, ReadsInv
<1>7. \A p, q \in reads' : p.gen = q.gen => p = q
  BY <1>4, <1>5 DEF Kept, ReadsInv
<1>8. \A q \in reads' : q.atRest => q.refresh /\ AtRest' /\ Current(q)'
  BY <1>2, <1>4, <1>5 DEF Kept, ReadsInv, Current
<1>9. ReadsInv'
  BY <1>1, <1>6, <1>7, <1>8 DEF Kept, ReadsInv, Current, IsRead
<1>10. ExactInv'
  BY <1>1, <1>2, <1>4, <1>5 DEF Kept, ExactInv, Current
<1>11. QED
  BY <1>9, <1>10

\* A read that fails or comes too late is gone.
LEMMA DropKeeps ==
  ASSUME Kept, NEW r \in reads, reads' = reads \ {r},
         UNCHANGED <<serverVars, wire, shown, bufferVars, asked, applied, exact>>
  PROVE  ReadsInv' /\ ExactInv'
<1>1. (AtRest <=> AtRest') /\ Snapshot' = Snapshot
  BY DEF AtRest, serverVars, bufferVars, Snapshot
<1>2. ReadsInv'
  BY <1>1 DEF Kept, ReadsInv, Current, IsRead
<1>3. ExactInv'
  BY <1>1 DEF Kept, ExactInv, Current
<1>4. QED
  BY <1>2, <1>3

\* What is applied is what the server has, if it was asked for at rest or something
\* exact is shown; and the reads before it are out of date.
LEMMA ApplyKeeps ==
  ASSUME Kept, NEW r \in reads, NEW authority, Apply(r, authority)
  PROVE  ReadsInv' /\ ExactInv'
<1> DEFINE replace == r.refresh \/ replaceNext
           list    == Hydrated(r, r.refresh \/ replaceNext)
<1>1. /\ reads' = reads \ {r} /\ applied' = r.gen /\ UNCHANGED <<serverVars, wire, bufferVars, asked>>
      /\ r.snap # Nothing /\ ~(r.gen < applied)
      /\ shown' = IF replace \/ list # <<>> THEN list ELSE shown
      /\ exact' = (exact \/ (r.refresh /\ r.atRest /\ \A q \in reads : q.gen <= r.gen))
  BY DEF Apply, Unheeded, Stale
<1>2. (AtRest <=> AtRest') /\ Snapshot' = Snapshot
  BY <1>1 DEF AtRest, serverVars, bufferVars, Snapshot
<1>3. /\ asked \in Nat /\ applied \in 0 .. asked /\ r.gen \in 1 .. asked /\ r.gen # applied
      /\ r.gen > applied
      /\ \A q \in reads : q.gen \in 1 .. asked
      /\ \A q \in reads' : q \in reads /\ q.gen # r.gen
  BY <1>1 DEF Kept, ReadsInv
<1>4. ReadsInv'
  <2>1. /\ asked' \in Nat /\ applied' \in 0 .. asked'
        /\ \A q \in reads' : IsRead(q) /\ q.gen \in 1 .. asked' /\ q.gen # applied'
    BY <1>1, <1>3 DEF Kept, ReadsInv
  <2>2. \A p, q \in reads' : p.gen = q.gen => p = q
    BY <1>3 DEF Kept, ReadsInv
  <2>3. \A q \in reads' : q.atRest => q.refresh /\ AtRest' /\ Current(q)'
    BY <1>2, <1>3 DEF Kept, ReadsInv, Current
  <2>4. QED
    BY <2>1, <2>2, <2>3 DEF ReadsInv, Current, IsRead
<1>5. ASSUME AtRest, r.snap = Snapshot, r.refresh \/ r.local = Snapshot.items,
             shown = Snapshot.items \/ r.refresh
      PROVE  shown' = Snapshot.items
  <2>1. list = Snapshot.items
    <3>1. CASE replace
      <4>1. list = Hydrated(r, TRUE)
        BY <3>1
      <4>2. QED
        BY <1>5, <4>1, HydratedAtRest DEF Kept
    <3>2. CASE ~replace
      <4>1. list = Hydrated(r, FALSE) /\ r.local = Snapshot.items
        BY <1>5, <3>2
      <4>2. QED
        BY <1>5, <4>1, HydratedAtRest DEF Kept
    <3>3. QED
      BY <3>1, <3>2
  <2> HIDE DEF list
  <2>2. QED
    BY <1>1, <1>5, <2>1
<1>6. CASE exact
  <2>1. AtRest /\ Current(r) /\ (r.refresh \/ r.local = Snapshot.items) /\ shown = Snapshot.items
    BY <1>3, <1>6 DEF Kept, ExactInv
  <2>2. r.snap = Snapshot
    BY <1>1, <2>1 DEF Current
  <2>3. shown' = Snapshot'.items
    BY <1>2, <1>5, <2>1, <2>2
  <2>4. \A q \in reads' : q.gen > applied' => Current(q) /\ (q.refresh \/ q.local = Snapshot.items)
    BY <1>1, <1>3, <1>6 DEF Kept, ExactInv
  <2>5. QED
    BY <1>2, <1>4, <2>1, <2>3, <2>4 DEF ExactInv, Current
<1>7. CASE ~exact /\ exact'
  <2>1. r.refresh /\ r.atRest /\ \A q \in reads : q.gen <= r.gen
    BY <1>1, <1>7
  <2>2. AtRest /\ r.snap = Snapshot
    BY <1>1, <2>1 DEF Kept, ReadsInv, Current
  <2>3. shown' = Snapshot'.items
    BY <1>2, <1>5, <2>1, <2>2
  <2>4. \A q \in reads' : ~(q.gen > applied')
    BY <1>1, <1>3, <2>1
  <2>5. QED
    BY <1>2, <1>4, <2>2, <2>3, <2>4 DEF ExactInv
<1>8. CASE ~exact'
  BY <1>4, <1>8 DEF ExactInv
<1>9. QED
  BY <1>6, <1>7, <1>8

\* Every step keeps all of it.
LEMMA KeptStep ==
  ASSUME Kept, [ItemsNext]_itemsVars
  PROVE  Kept'
<1>1. ServerInv'
  BY ServerKept DEF Kept
<1>2. AtRest => /\ AtRest' /\ Snapshot' = Snapshot
                /\ UNCHANGED <<shown, readVars, exact>> \/ Reading
  BY RestStays DEF Kept
<1>3. CASE ~Reading
  <2>1. UNCHANGED readVars /\ UNCHANGED exact
    BY <1>3 DEF ItemsNext, itemsVars, Server, TurnStarts, TurnEnds, Begins, Says, Completes,
                ServerKeeps, Handle, Handles, FlushTimerFires, OnDelta, OnItemStarted,
                OnItemCompleted, OnAgentMessageCompleted, OnTurnStarted, OnTurnCompleted
  <2>2. QED
    BY <1>1, <1>2, <1>3, <2>1, OthersKeep DEF Kept
<1>4. CASE Resume \/ Refresh
  <2>1. PICK refresh \in BOOLEAN : Ask(refresh)
    BY <1>4 DEF Resume, Refresh
  <2>2. QED
    BY <1>1, <2>1, AskKeeps DEF Kept
<1>5. ASSUME NEW r \in reads, Answer(r) PROVE Kept'
  BY <1>1, <1>5, AnswerKeeps DEF Kept
<1>6. ASSUME NEW r \in reads, NEW a, ReadFails(r) \/ Ignore(r, a) PROVE Kept'
  <2>1. reads' = reads \ {r} /\ UNCHANGED <<serverVars, wire, shown, bufferVars, asked, applied, exact>>
    BY <1>6 DEF ReadFails, Ignore
  <2>2. QED
    BY <1>1, <2>1, DropKeeps DEF Kept
<1>7. ASSUME NEW r \in reads, NEW a, Apply(r, a) PROVE Kept'
  BY <1>1, <1>7, ApplyKeeps DEF Kept
<1>8. QED
  BY <1>3, <1>4, <1>5, <1>6, <1>7 DEF Reading

\* Once a refresh that was asked for at rest is applied, the thread shows what the
\* server has, whatever was shown before and whatever older answers come late or
\* younger ones are merged (RefreshIsExact), for any items and number of reads.
THEOREM RefreshRepairs == ItemsSpec => []RefreshIsExact
<1>1. ItemsInit => Kept
  <2> SUFFICES ASSUME ItemsInit PROVE Kept
    OBVIOUS
  <2>1. ServerInv
    BY DEF ItemsInit, ServerInv, Once
  <2>2. ReadsInv /\ ExactInv
    BY DEF ItemsInit, ReadsInv, ExactInv
  <2>3. QED
    BY <2>1, <2>2 DEF Kept
<1>2. Kept /\ [ItemsNext]_itemsVars => Kept'
  BY KeptStep
<1>3. Kept => RefreshIsExact
  BY DEF Kept, ExactInv, RefreshIsExact
<1>4. QED
  BY <1>1, <1>2, <1>3, PTL DEF ItemsSpec

=============================================================================
