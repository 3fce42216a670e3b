------------------------ MODULE ThreadRouting_proofs ------------------------
(***************************************************************************)
(* Proofs about ThreadRouting, for any threads, workspaces and             *)
(* directories and a buffer of any size.                                   *)
(***************************************************************************)
EXTENDS ThreadRouting, RecursionLemmas, FiniteSetTheorems

-----------------------------------------------------------------------------
(* The part of a sequence that is of some threads.                          *)

\* How it is made, from the front.
Sifted(g, s, T) ==
  /\ g[0] = <<>>
  /\ \A i \in 1 .. Len(s) :
       g[i] = IF s[i].thread \in T THEN Append(g[i - 1], s[i]) ELSE g[i - 1]

\* What Only is, event by event.
LEMMA OnlyMade ==
  ASSUME NEW s \in Seq(Line), NEW T
  PROVE  \E g \in [0 .. Len(s) -> Seq(Line)] : Sifted(g, s, T) /\ Only(s, T) = g[Len(s)]
<1> DEFINE n == Len(s)
           Q == Seq(Line)
           G == [i \in 1 .. n |-> [x \in Q |-> IF s[i].thread \in T THEN Append(x, s[i]) ELSE x]]
           E(h) == h = [i \in 0 .. n |->
                          IF i = 0 THEN <<>>
                          ELSE IF s[i].thread \in T THEN Append(h[i - 1], s[i]) ELSE h[i - 1]]
<1>1. n \in Nat /\ <<>> \in Q /\ G \in [1 .. n -> [Q -> Q]]
  OBVIOUS
<1>2. PICK f \in [0 .. n -> Q] : Iterated(f, <<>>, n, G)
  <2> HIDE DEF n, Q, G
  <2> QED BY <1>1, Iterates
<1>3. E(f)
  <2>1. \A i \in 0 .. n : i # 0 => i \in 1 .. n /\ i - 1 \in 0 .. n
    BY <1>1
  <2>2. ASSUME NEW i \in 1 .. n
        PROVE  f[i] = IF s[i].thread \in T THEN Append(f[i - 1], s[i]) ELSE f[i - 1]
    <3>1. f[i - 1] \in Q /\ f[i] = G[i][f[i - 1]]
      <4> HIDE DEF n, Q, G
      <4> QED BY <1>2, <2>1 DEF Iterated
    <3> HIDE DEF Q, n
    <3>2. QED
      BY <3>1
  <2>3. \A i \in 0 .. n :
          f[i] = IF i = 0 THEN <<>>
                 ELSE IF s[i].thread \in T THEN Append(f[i - 1], s[i]) ELSE f[i - 1]
    <3> HIDE DEF n, Q, G
    <3> QED BY <1>2, <2>1, <2>2 DEF Iterated
  <2>4. f = [i \in 0 .. n |-> f[i]]
    BY <1>2
  <2> HIDE DEF n, Q, G
  <2>5. QED
    BY <2>3, <2>4
<1> DEFINE g == CHOOSE h : E(h)
<1>4. E(g)
  <2> HIDE DEF E
  <2> QED BY <1>3
<1>5. Only(s, T) = g[n]
  BY DEF Only
<1>6. Sifted(g, s, T)
  <2> HIDE DEF g
  <2>1. \A i \in 0 .. n :
          g[i] = IF i = 0 THEN <<>>
                 ELSE IF s[i].thread \in T THEN Append(g[i - 1], s[i]) ELSE g[i - 1]
    <3> HIDE DEF n
    <3> QED BY <1>4
  <2>2. \A i \in 1 .. n : i \in 0 .. n /\ i # 0
    BY <1>1
  <2>3. 0 \in 0 .. n
    BY <1>1
  <2>4. g[0] = <<>>
    <3> HIDE DEF n
    <3> QED BY <2>1, <2>3
  <2>5. QED
    BY <2>1, <2>2, <2>4 DEF Sifted
<1>7. \A i \in 0 .. n : g[i] \in Q
  <2> DEFINE S == {i \in Nat : g[i] \in Q}
  <2> HIDE DEF g
  <2>1. 0 \in S
    BY <1>1, <1>6 DEF Sifted
  <2>2. ASSUME NEW k \in 0 .. n - 1, k \in S PROVE k + 1 \in S
    <3>1. k + 1 \in 1 .. n /\ (k + 1) - 1 = k /\ g[k] \in Q /\ k + 1 \in Nat
      BY <1>1, <2>2
    <3>2. s[k + 1] \in Line
      BY <3>1
    <3>3. g[k + 1] = Append(g[k], s[k + 1]) \/ g[k + 1] = g[k]
      BY <1>6, <3>1 DEF Sifted
    <3>4. g[k + 1] \in Q
      <4>1. \A q \in Q, e \in Line : Append(q, e) \in Q
        OBVIOUS
      <4> HIDE DEF n, Q
      <4>2. QED
        BY <3>1, <3>2, <3>3, <4>1
    <3>5. QED
      BY <3>1, <3>4
  <2>3. QED
    <3> HIDE DEF S, n
    <3>1. \A k \in 0 .. n : k \in S
      BY <1>1, <2>1, <2>2, UpTo
    <3>2. QED
      BY <3>1 DEF S
<1>8. g \in [0 .. n -> Q]
  <2> HIDE DEF g, n, Q
  <2> QED BY <1>4, <1>7
<1>9. QED
  BY <1>5, <1>6, <1>8

\* It is no longer, holds lines of those threads only, and keeps their order.
LEMMA OnlyKeeps ==
  ASSUME NEW s \in Seq(Line), NEW T
  PROVE  /\ Only(s, T) \in Seq(Line) /\ Len(Only(s, T)) <= Len(s)
         /\ \A j \in DOMAIN Only(s, T) :
              \E k \in DOMAIN s : Only(s, T)[j] = s[k] /\ s[k].thread \in T
         /\ \A i, j \in DOMAIN Only(s, T) : i < j =>
              \E k, m \in DOMAIN s : k < m /\ Only(s, T)[i] = s[k] /\ Only(s, T)[j] = s[m]
<1>1. PICK g \in [0 .. Len(s) -> Seq(Line)] : Sifted(g, s, T) /\ Only(s, T) = g[Len(s)]
  BY OnlyMade
<1> DEFINE Part(q, n) ==
      /\ Len(q) <= n
      /\ \A j \in DOMAIN q : \E k \in 1 .. n : q[j] = s[k] /\ s[k].thread \in T
      /\ \A i, j \in DOMAIN q : i < j =>
           \E k, m \in 1 .. n : k < m /\ q[i] = s[k] /\ q[j] = s[m]
           S == {n \in Nat : Part(g[n], n)}
<1>2. 0 \in S
  BY <1>1 DEF Sifted
<1>3. ASSUME NEW n \in 0 .. Len(s) - 1, n \in S PROVE n + 1 \in S
  <2>1. /\ Part(g[n], n) /\ g[n] \in Seq(Line) /\ n \in Nat /\ n + 1 \in Nat /\ Len(g[n]) \in Nat
        /\ n + 1 \in 1 .. Len(s) /\ (n + 1) - 1 = n
    BY <1>3
  <2>2. CASE s[n + 1].thread \in T
    <3> DEFINE q == g[n + 1]
    <3>1. q = Append(g[n], s[n + 1])
      BY <1>1, <2>1, <2>2 DEF Sifted
    <3>2. /\ Len(q) = Len(g[n]) + 1 /\ DOMAIN q = 1 .. Len(g[n]) + 1
          /\ q[Len(g[n]) + 1] = s[n + 1]
          /\ \A j \in 1 .. Len(g[n]) : q[j] = g[n][j]
      BY <2>1, <3>1
    <3> HIDE DEF q
    <3>3. \A j \in DOMAIN q : j \in DOMAIN g[n] \/ j = Len(g[n]) + 1
      BY <2>1, <3>2
    <3>a. DOMAIN g[n] = 1 .. Len(g[n])
      BY <2>1
    <3>4. ASSUME NEW j \in DOMAIN q
          PROVE  \E k \in 1 .. n + 1 : q[j] = s[k] /\ s[k].thread \in T
      <4>1. CASE j \in DOMAIN g[n]
        <5>1. PICK k \in 1 .. n : g[n][j] = s[k] /\ s[k].thread \in T
          BY <2>1, <4>1
        <5>2. k \in 1 .. n + 1 /\ q[j] = s[k]
          BY <2>1, <3>a, <3>2, <4>1, <5>1
        <5>3. QED
          BY <5>1, <5>2
      <4>2. CASE j = Len(g[n]) + 1
        <5>1. n + 1 \in 1 .. n + 1
          BY <2>1
        <5>2. QED
          BY <2>2, <3>2, <4>2, <5>1
      <4>3. QED
        BY <3>3, <4>1, <4>2
    <3>5. ASSUME NEW i \in DOMAIN q, NEW j \in DOMAIN q, i < j
          PROVE  \E k, m \in 1 .. n + 1 : k < m /\ q[i] = s[k] /\ q[j] = s[m]
      <4>1. i \in DOMAIN g[n] /\ q[i] = g[n][i]
        <5>1. i \in 1 .. Len(g[n])
          BY <2>1, <3>2, <3>5
        <5>2. QED
          BY <3>a, <3>2, <5>1
      <4>2. CASE j \in DOMAIN g[n]
        <5>1. PICK k \in 1 .. n, m \in 1 .. n : k < m /\ g[n][i] = s[k] /\ g[n][j] = s[m]
          BY <2>1, <3>5, <4>1, <4>2
        <5>2. k \in 1 .. n + 1 /\ m \in 1 .. n + 1 /\ q[j] = s[m]
          BY <2>1, <3>a, <3>2, <4>2, <5>1
        <5>3. QED
          BY <4>1, <5>1, <5>2
      <4>3. CASE j = Len(g[n]) + 1
        <5>1. PICK k \in 1 .. n : g[n][i] = s[k]
          BY <2>1, <4>1
        <5>2. k \in 1 .. n + 1 /\ n + 1 \in 1 .. n + 1 /\ k < n + 1
          BY <2>1
        <5>3. QED
          BY <3>2, <4>1, <4>3, <5>1, <5>2
      <4>4. QED
        BY <3>3, <4>2, <4>3
    <3>6. Part(q, n + 1)
      BY <2>1, <3>2, <3>4, <3>5
    <3>7. QED
      BY <2>1, <3>6 DEF q
  <2>3. CASE s[n + 1].thread \notin T
    <3>1. g[n + 1] = g[n]
      BY <1>1, <2>1, <2>3 DEF Sifted
    <3>2. \A k \in 1 .. n : k \in 1 .. n + 1
      BY <2>1
    <3>3. Part(g[n], n + 1)
      BY <2>1, <3>2
    <3>4. QED
      BY <2>1, <3>1, <3>3
  <2>4. QED
    BY <2>2, <2>3
<1>4. Len(s) \in S
  <2>1. Len(s) \in Nat /\ Len(s) \in 0 .. Len(s)
    OBVIOUS
  <2> HIDE DEF S
  <2>2. QED
    BY <1>2, <1>3, <2>1, UpTo
<1>5. Part(Only(s, T), Len(s)) /\ Only(s, T) \in Seq(Line)
  BY <1>1, <1>4
<1>6. DOMAIN s = 1 .. Len(s)
  OBVIOUS
<1>7. \A j \in DOMAIN Only(s, T) : \E k \in DOMAIN s : Only(s, T)[j] = s[k] /\ s[k].thread \in T
  BY <1>5, <1>6
<1>8. ASSUME NEW i \in DOMAIN Only(s, T), NEW j \in DOMAIN Only(s, T), i < j
      PROVE  \E k, m \in DOMAIN s :
               k < m /\ Only(s, T)[i] = s[k] /\ Only(s, T)[j] = s[m]
  <2>1. PICK k \in 1 .. Len(s), m \in 1 .. Len(s) :
          k < m /\ Only(s, T)[i] = s[k] /\ Only(s, T)[j] = s[m]
    BY <1>5, <1>8
  <2>2. QED
    BY <1>6, <2>1
<1>9. QED
  BY <1>5, <1>7, <1>8

\* Both parts together are as long as the whole.
LEMMA OnlyCounts ==
  ASSUME NEW s \in Seq(Line), NEW T
  PROVE  Len(Only(s, T)) + Len(Only(s, Threads \ T)) = Len(s)
<1>1. PICK g \in [0 .. Len(s) -> Seq(Line)] : Sifted(g, s, T) /\ Only(s, T) = g[Len(s)]
  BY OnlyMade
<1>2. PICK h \in [0 .. Len(s) -> Seq(Line)] :
        Sifted(h, s, Threads \ T) /\ Only(s, Threads \ T) = h[Len(s)]
  BY OnlyMade
<1> DEFINE S == {n \in Nat : Len(g[n]) + Len(h[n]) = n}
<1>3. 0 \in S
  BY <1>1, <1>2 DEF Sifted
<1>4. ASSUME NEW n \in 0 .. Len(s) - 1, n \in S PROVE n + 1 \in S
  <2>1. /\ n \in Nat /\ n + 1 \in Nat /\ n + 1 \in 1 .. Len(s) /\ (n + 1) - 1 = n
        /\ g[n] \in Seq(Line) /\ h[n] \in Seq(Line) /\ Len(g[n]) + Len(h[n]) = n
    BY <1>4
  <2>2. s[n + 1].thread \in Threads /\ s[n + 1] \in Line
    <3>1. s[n + 1] \in Line
      BY <2>1
    <3>2. QED
      BY <3>1 DEF Line
  <2>3. \/ g[n + 1] = Append(g[n], s[n + 1]) /\ h[n + 1] = h[n]
        \/ g[n + 1] = g[n] /\ h[n + 1] = Append(h[n], s[n + 1])
    BY <1>1, <1>2, <2>1, <2>2 DEF Sifted
  <2>4. \A q \in Seq(Line) : Len(q) \in Nat /\ Len(Append(q, s[n + 1])) = Len(q) + 1
    BY <2>2
  <2>5. Len(g[n + 1]) + Len(h[n + 1]) = n + 1
    BY <2>1, <2>3, <2>4
  <2>6. QED
    BY <2>1, <2>5
<1>5. Len(s) \in S
  <2>1. Len(s) \in Nat /\ Len(s) \in 0 .. Len(s)
    OBVIOUS
  <2> HIDE DEF S
  <2>2. QED
    BY <1>3, <1>4, <2>1, UpTo
<1>6. QED
  BY <1>1, <1>2, <1>5

-----------------------------------------------------------------------------
(* What a flush learns.                                                     *)

LEMMA ResolveTyped == \A c \in Cwds \cup {NoCwd} : Resolve(c) \in Workspaces \cup {NoOwner}
<1> SUFFICES ASSUME NEW c \in Cwds, Registered(c) # {}
             PROVE  Covers[c][CHOOSE i \in Registered(c) : \A j \in Registered(c) : i <= j]
                      \in Workspaces
  BY DEF Resolve
<1>1. Covers[c] \in Seq(Workspaces)
  BY RoutingAssumption
<1>2. Registered(c) \subseteq DOMAIN Covers[c] /\ Registered(c) \subseteq Nat
  BY <1>1 DEF Registered
<1>3. \E i \in Registered(c) : \A j \in Registered(c) : i <= j
  BY <1>2, Least
<1>4. (CHOOSE i \in Registered(c) : \A j \in Registered(c) : i <= j) \in Registered(c)
  BY <1>3
<1>5. QED
  BY <1>1, <1>2, <1>4

\* A line names a workspace or none.
LEMMA EvidenceTyped ==
  ASSUME NEW o \in OwnerMaps, NEW l \in Line
  PROVE  Evidence(o, l) \in Workspaces \cup {NoOwner}
<1>1. l.cwd \in Cwds \cup {NoCwd} /\ l.other \in Threads \cup {NoThread}
  BY DEF Line
<1>2. QED
  BY <1>1, ResolveTyped DEF Evidence, OwnerMaps

\* One line takes no owner away.
LEMMA Learns ==
  ASSUME NEW o \in OwnerMaps, NEW l \in Line
  PROVE  Learn(o, l) \in OwnerMaps /\ Owned(o) \subseteq Owned(Learn(o, l))
<1>1. l.thread \in Threads
  BY DEF Line
<1>2. QED
  BY <1>1, EvidenceTyped DEF Learn, Owned, OwnerMaps

\* A line that brings no owner to a thread without one has nothing to tell of it.
LEMMA Untold ==
  ASSUME NEW o \in OwnerMaps, NEW l \in Line, l.thread \notin Owned(Learn(o, l))
  PROVE  Evidence(o, l) = NoOwner
<1>1. l.thread \in Threads
  BY DEF Line
<1>2. Evidence(o, l) # NoOwner => Learn(o, l)[l.thread] = Evidence(o, l)
  BY <1>1 DEF Learn, OwnerMaps
<1>3. QED
  BY <1>1, <1>2 DEF Owned

\* A pass, line by line.
LEMMA PassMade ==
  ASSUME deferred \in Seq(Line), NEW o \in OwnerMaps
  PROVE  \E f \in [0 .. Len(deferred) -> OwnerMaps] :
           /\ f[0] = o /\ Pass[o] = f[Len(deferred)]
           /\ \A i \in 1 .. Len(deferred) : f[i] = Learn(f[i - 1], deferred[i])
<1> DEFINE n == Len(deferred)
           G == [i \in 1 .. n |-> Lesson(deferred[i])]
           E(h) == h = [i \in 0 .. n |-> IF i = 0 THEN o ELSE Lesson(deferred[i])[h[i - 1]]]
           f == CHOOSE h : E(h)
<1>1. n \in Nat /\ \A i \in 1 .. n : deferred[i] \in Line
  OBVIOUS
<1>2. G \in [1 .. n -> [OwnerMaps -> OwnerMaps]]
  <2>1. \A l \in Line : Lesson(l) \in [OwnerMaps -> OwnerMaps]
    BY Learns DEF Lesson
  <2> HIDE DEF n
  <2>2. QED
    BY <1>1, <2>1
<1>3. \A h : E(h) <=> Defines(h, o, n, G)
  <2>1. \A i \in 0 .. n : i = 0 \/ i \in 1 .. n
    BY <1>1
  <2> HIDE DEF n
  <2>2. \A i \in 1 .. n : G[i] = Lesson(deferred[i])
    OBVIOUS
  <2> HIDE DEF G
  <2>3. ASSUME NEW h
        PROVE  [i \in 0 .. n |-> IF i = 0 THEN o ELSE Lesson(deferred[i])[h[i - 1]]]
                 = [i \in 0 .. n |-> IF i = 0 THEN o ELSE G[i][h[i - 1]]]
    BY <2>1, <2>2
  <2>4. QED
    BY <2>3 DEF Defines
<1>4. f = CHOOSE h : Defines(h, o, n, G)
  <2> HIDE DEF E, G, n
  <2> QED BY <1>3
<1>5. f \in [0 .. n -> OwnerMaps] /\ Iterated(f, o, n, G)
  <2> HIDE DEF f, G, n
  <2> QED BY <1>1, <1>2, <1>4, Recursion
<1>6. Pass[o] = f[n]
  BY DEF Pass
<1>7. ASSUME NEW i \in 1 .. n PROVE f[i] = Learn(f[i - 1], deferred[i])
  <2>1. i - 1 \in 0 .. n
    BY <1>1
  <2>2. f[i] = Lesson(deferred[i])[f[i - 1]]
    <3> HIDE DEF f, n
    <3> QED BY <1>5, <1>7 DEF Iterated
  <2>3. f[i - 1] \in OwnerMaps
    <3> HIDE DEF f, n
    <3> QED BY <1>5, <2>1
  <2> HIDE DEF f
  <2>4. QED
    BY <2>2, <2>3 DEF Lesson
<1>8. f[0] = o
  <2> HIDE DEF f, n
  <2> QED BY <1>5 DEF Iterated
<1>9. QED
  <2> HIDE DEF f
  <2> QED BY <1>5, <1>6, <1>7, <1>8

\* A pass takes no owner away.
LEMMA Passes ==
  ASSUME deferred \in Seq(Line), NEW o \in OwnerMaps
  PROVE  Pass[o] \in OwnerMaps /\ Owned(o) \subseteq Owned(Pass[o])
<1>1. PICK f \in [0 .. Len(deferred) -> OwnerMaps] :
        /\ f[0] = o /\ Pass[o] = f[Len(deferred)]
        /\ \A i \in 1 .. Len(deferred) : f[i] = Learn(f[i - 1], deferred[i])
  BY PassMade
<1> DEFINE n == Len(deferred)
           S == {i \in Nat : Owned(o) \subseteq Owned(f[i])}
<1>2. n \in Nat /\ n \in 0 .. n /\ 0 \in S
  BY <1>1
<1>3. ASSUME NEW k \in 0 .. n - 1, k \in S PROVE k + 1 \in S
  <2>1. k + 1 \in 1 .. n /\ (k + 1) - 1 = k /\ k + 1 \in Nat /\ f[k] \in OwnerMaps
    BY <1>1, <1>2
  <2>2. f[k + 1] = Learn(f[k], deferred[k + 1]) /\ deferred[k + 1] \in Line
    BY <1>1, <2>1
  <2>3. Owned(f[k]) \subseteq Owned(f[k + 1])
    BY <2>1, <2>2, Learns
  <2>4. QED
    BY <1>3, <2>1, <2>3
<1>4. n \in S
  <2> HIDE DEF S, n
  <2> QED BY <1>2, <1>3, UpTo
<1>5. QED
  BY <1>1, <1>2, <1>4

\* If a pass brings no owner to a thread that had none, no line that waits has
\* anything to tell of a thread that still has none.
LEMMA PassComplete ==
  ASSUME deferred \in Seq(Line), NEW o \in OwnerMaps, Owned(Pass[o]) = Owned(o),
         NEW i \in DOMAIN deferred, deferred[i].thread \notin Owned(o)
  PROVE  Evidence(Pass[o], deferred[i]) = NoOwner
<1>1. PICK f \in [0 .. Len(deferred) -> OwnerMaps] :
        /\ f[0] = o /\ Pass[o] = f[Len(deferred)]
        /\ \A j \in 1 .. Len(deferred) : f[j] = Learn(f[j - 1], deferred[j])
  BY PassMade
<1> DEFINE n == Len(deferred)
           S == {j \in Nat : Owned(o) \subseteq Owned(f[j]) /\ (i <= j => Owned(f[i]) \subseteq Owned(f[j]))}
<1>2. n \in Nat /\ n \in 0 .. n /\ i \in 1 .. n /\ i \in 0 .. n /\ i - 1 \in 0 .. n /\ 0 \in S
  BY <1>1
<1>3. ASSUME NEW k \in 0 .. n - 1, k \in S PROVE k + 1 \in S
  <2>1. k + 1 \in 1 .. n /\ (k + 1) - 1 = k /\ k + 1 \in Nat /\ k \in Nat /\ f[k] \in OwnerMaps
    BY <1>1, <1>2
  <2>2. f[k + 1] = Learn(f[k], deferred[k + 1]) /\ deferred[k + 1] \in Line
    BY <1>1, <2>1
  <2>3. Owned(f[k]) \subseteq Owned(f[k + 1])
    BY <2>1, <2>2, Learns
  <2>4. i <= k + 1 => i <= k \/ i = k + 1
    BY <1>2, <2>1
  <2>5. QED
    BY <1>3, <2>1, <2>3, <2>4
<1>4. \A j \in 0 .. n : j \in S
  <2> HIDE DEF S, n
  <2> QED BY <1>2, <1>3, UpTo
<1>5. Owned(f[n]) = Owned(o) /\ Owned(f[i]) \subseteq Owned(f[n]) /\ Owned(o) \subseteq Owned(f[i - 1])
  <2>1. n \in S /\ i - 1 \in S /\ i <= n
    BY <1>2, <1>4
  <2>2. QED
    BY <1>1, <2>1
<1>6. f[i] = Learn(f[i - 1], deferred[i]) /\ deferred[i] \in Line
      /\ f[i] \in OwnerMaps /\ f[i - 1] \in OwnerMaps /\ f[n] \in OwnerMaps
  BY <1>1, <1>2
<1>7. Evidence(f[i - 1], deferred[i]) = NoOwner
  BY <1>5, <1>6, Untold
<1>8. Owned(f[i - 1]) \subseteq Owned(f[i])
  BY <1>6, Learns
<1>9. \A t \in Threads : f[i - 1][t] = NoOwner => f[n][t] = NoOwner
  BY <1>5, <1>8 DEF Owned
<1>10. deferred[i].other \in Threads \cup {NoThread}
  BY <1>6 DEF Line
<1>11. QED
  BY <1>1, <1>7, <1>9, <1>10 DEF Evidence

\* The flush ends with a pass that brought no owner, after as many as it took.
LEMMA SettledLast ==
  ASSUME deferred \in Seq(Line), NEW o \in OwnerMaps
  PROVE  \E q \in OwnerMaps :
           Owned(o) \subseteq Owned(q) /\ Settled(o) = Pass[q] /\ Owned(Pass[q]) = Owned(q)
<1> DEFINE n == Cardinality(Threads) + 1
           E(h) == h = [k \in 0 .. n |-> IF k = 0 THEN o ELSE Pass[h[k - 1]]]
           f == CHOOSE h : E(h)
           quiet == {k \in 1 .. n : Owned(f[k]) = Owned(f[k - 1])}
           G == [k \in 1 .. n |-> Pass]
<1>1. n \in Nat /\ IsFiniteSet(Threads) /\ Cardinality(Threads) \in Nat
  BY RoutingAssumption, FS_CardinalityType
<1>2. Pass \in [OwnerMaps -> OwnerMaps]
  <2>1. \A q \in OwnerMaps : Pass[q] \in OwnerMaps
    BY Passes
  <2>2. Pass = [q \in OwnerMaps |-> Pass[q]]
    BY DEF Pass
  <2>3. QED
    BY <2>1, <2>2
<1>3. f \in [0 .. n -> OwnerMaps] /\ Iterated(f, o, n, G)
  <2>1. G \in [1 .. n -> [OwnerMaps -> OwnerMaps]]
    BY <1>2
  <2>2. \A h : E(h) <=> Defines(h, o, n, G)
    <3>1. \A k \in 0 .. n : k = 0 \/ k \in 1 .. n
      BY <1>1
    <3> HIDE DEF n
    <3>2. \A k \in 1 .. n : G[k] = Pass
      OBVIOUS
    <3> HIDE DEF G
    <3>3. ASSUME NEW h
          PROVE  [k \in 0 .. n |-> IF k = 0 THEN o ELSE Pass[h[k - 1]]]
                   = [k \in 0 .. n |-> IF k = 0 THEN o ELSE G[k][h[k - 1]]]
      BY <3>1, <3>2
    <3>4. QED
      BY <3>3 DEF Defines
  <2>3. f = CHOOSE h : Defines(h, o, n, G)
    <3> HIDE DEF E, G, n
    <3> QED BY <2>2
  <2> HIDE DEF f, G, n
  <2>4. QED
    BY <1>1, <2>1, <2>3, Recursion
<1>4. Settled(o) = f[CHOOSE k \in quiet : \A j \in quiet : k <= j]
  BY DEF Settled
<1> HIDE DEF f
<1>5. f[0] = o /\ \A k \in 1 .. n : f[k] = Pass[f[k - 1]]
  <2> HIDE DEF n
  <2> QED BY <1>3 DEF Iterated
<1> HIDE DEF n
<1>6. \A k \in 1 .. n : k \in 0 .. n /\ k - 1 \in 0 .. n
  BY <1>1
<1>7. \A k \in 1 .. n : Owned(f[k - 1]) \subseteq Owned(f[k])
  BY <1>3, <1>5, <1>6, Passes
<1>8. quiet # {}
  <2> SUFFICES ASSUME quiet = {} PROVE FALSE
    OBVIOUS
  <2> DEFINE S == {k \in Nat : Cardinality(Owned(f[k])) >= k}
  <2>1. \A q : IsFiniteSet(Owned(q)) /\ Cardinality(Owned(q)) \in Nat
               /\ Cardinality(Owned(q)) <= Cardinality(Threads)
    BY <1>1, FS_Subset, FS_CardinalityType DEF Owned
  <2>2. 0 \in S
    BY <2>1
  <2>3. ASSUME NEW k \in 0 .. n - 1, k \in S PROVE k + 1 \in S
    <3>1. k + 1 \in 1 .. n /\ (k + 1) - 1 = k /\ k \in Nat /\ k + 1 \in Nat
      BY <1>1
    <3>2. Owned(f[k]) \subseteq Owned(f[k + 1]) /\ Owned(f[k + 1]) # Owned(f[k])
      BY <1>7, <3>1
    <3>3. Cardinality(Owned(f[k])) < Cardinality(Owned(f[k + 1]))
      BY <2>1, <3>2, FS_Subset
    <3>4. QED
      BY <2>1, <2>3, <3>1, <3>3
  <2>4. n \in S
    <3>1. n \in 0 .. n
      BY <1>1
    <3> HIDE DEF S
    <3>2. QED
      BY <1>1, <2>2, <2>3, <3>1, UpTo
  <2>5. QED
    BY <1>1, <2>1, <2>4 DEF n
<1>9. PICK k \in quiet : Settled(o) = f[k]
  <2>1. quiet \subseteq Nat
    BY <1>1
  <2>2. \E k \in quiet : \A j \in quiet : k <= j
    <3> HIDE DEF quiet
    <3> QED BY <1>8, <2>1, Least
  <2>3. (CHOOSE k \in quiet : \A j \in quiet : k <= j) \in quiet
    <3> HIDE DEF quiet
    <3> QED BY <2>2
  <2>4. QED
    BY <1>4, <2>3
<1>10. Owned(o) \subseteq Owned(f[k - 1])
  <2> DEFINE S == {j \in Nat : Owned(o) \subseteq Owned(f[j])}
  <2>1. 0 \in S
    BY <1>5
  <2>2. ASSUME NEW j \in 0 .. n - 1, j \in S PROVE j + 1 \in S
    <3>1. j + 1 \in 1 .. n /\ (j + 1) - 1 = j /\ j + 1 \in Nat
      BY <1>1
    <3>2. QED
      BY <1>7, <2>2, <3>1
  <2>3. \A j \in 0 .. n : j \in S
    <3> HIDE DEF S
    <3> QED BY <1>1, <2>1, <2>2, UpTo
  <2>4. QED
    BY <1>6, <2>3
<1>11. f[k - 1] \in OwnerMaps /\ f[k] = Pass[f[k - 1]] /\ Owned(f[k]) = Owned(f[k - 1])
  BY <1>3, <1>5, <1>6
<1>12. QED
  BY <1>9, <1>10, <1>11

\* What a flush does to the owners.
LEMMA Settles ==
  ASSUME deferred \in Seq(Line), NEW o \in OwnerMaps
  PROVE  Settled(o) \in OwnerMaps /\ Owned(o) \subseteq Owned(Settled(o))
BY SettledLast, Passes

-----------------------------------------------------------------------------
(* Types. *)

\* A line that comes in is a line, of a kind that is fed to no hidden thread.
LEMMA LinesTyped ==
  ASSUME TypeOK, NEW l \in Incoming
  PROVE  /\ l \in Line
         /\ l.kind \in Notifications => l.n = read + 1
         /\ l.kind \in {"list", "memoryList", "reply"} => l.other = NoThread
         /\ l.kind \in {"memory", "archived", "request"} =>
              l.cwd = NoCwd /\ l.other = NoThread
         /\ l.kind = "spawn" => l.other \in Threads
<1>1. read \in Nat /\ read + 1 \in Nat /\ asked \subseteq Threads \X Workspaces
  BY DEF TypeOK
<1>2. CASE l \in Notes
  BY <1>1, <1>2 DEF Notes, Text, Line, Kinds, Notifications
<1>3. CASE l \in Others
  BY <1>1, <1>3 DEF Others, Text, Line, Kinds, Notifications
<1>4. CASE l \in Spawns
  BY <1>1, <1>4 DEF Spawns, Text, Line, Kinds, Notifications
<1>5. CASE l \in Listed
  BY <1>1, <1>5 DEF Listed, Text, Line, Kinds, Notifications
<1>6. CASE l \in Replies
  BY <1>1, <1>6 DEF Replies, Text, Line, Kinds, Notifications
<1>7. QED
  BY <1>2, <1>3, <1>4, <1>5, <1>6 DEF Incoming

\* A claim leaves the owners typed.
LEMMA Remembers ==
  ASSUME NEW o \in OwnerMaps, NEW t \in Threads, NEW w \in Workspaces \cup {NoOwner}
  PROVE  /\ Remember(o, t, w) \in OwnerMaps
         /\ \A u \in Threads : o[u] # NoOwner => Remember(o, t, w)[u] = o[u]
BY DEF Remember, OwnerMaps

\* The owners that a line leaves, before a spawn adds the child's.
LEMMA RoutesTyped ==
  ASSUME TypeOK, NEW l \in Line
  PROVE  OwnersAfterRoute(l) \in OwnerMaps /\ ProvedAfterRoute(l) \in OwnerMaps
<1>1. /\ l.thread \in Threads /\ l.cwd \in Cwds \cup {NoCwd}
      /\ l.from \in Workspaces \cup {NoOwner} /\ owners \in OwnerMaps /\ proved \in OwnerMaps
  BY DEF Line, TypeOK
<1>2. /\ Resolve(l.cwd) \in Workspaces \cup {NoOwner}
      /\ Evidence(owners, l) \in Workspaces \cup {NoOwner}
      /\ Learn(owners, l) \in OwnerMaps
      /\ Learn(Remember(owners, l.thread, l.from), l) \in OwnerMaps
  BY <1>1, ResolveTyped, EvidenceTyped, Learns, Remembers
<1>3. \A o \in OwnerMaps, w \in Workspaces \cup {NoOwner} :
        [o EXCEPT ![l.thread] = w] \in OwnerMaps
  BY <1>1 DEF OwnerMaps
<1>4. OwnersAfterRoute(l) \in OwnerMaps
  BY <1>1, <1>2, <1>3 DEF OwnersAfterRoute
<1>5. ProvedAfterRoute(l) \in OwnerMaps
  BY <1>1, <1>2, <1>3 DEF ProvedAfterRoute
<1>6. QED
  BY <1>4, <1>5

\* The owners and the owner in hand after a line was routed.
LEMMA Routed ==
  ASSUME TypeOK, NEW l \in Incoming, Route(l)
  PROVE  /\ l \in Line /\ owners' \in OwnerMaps
         /\ mapped' \in Workspaces \cup {NoOwner}
         /\ mapped' # NoOwner => owners'[l.thread] # NoOwner
         /\ \A t \in Threads : OwnersAfterRoute(l)[t] # NoOwner =>
              owners'[t] = OwnersAfterRoute(l)[t]
<1> DEFINE o == OwnersAfterRoute(l)
           mine == IF l.kind \in {"list", "memoryList"} THEN NoOwner ELSE o[l.thread]
<1>1. l \in Line /\ o \in OwnerMaps /\ l.thread \in Threads
  BY LinesTyped, RoutesTyped DEF Line
<1>2. /\ mapped' = IF Suppressed(l) THEN NoOwner ELSE mine
      /\ owners' = IF l.kind = "spawn" /\ mine # NoOwner /\ ~Suppressed(l)
                     THEN Remember(o, l.other, mine) ELSE o
  BY DEF Route
<1>3. mine \in Workspaces \cup {NoOwner}
  BY <1>1 DEF OwnerMaps
<1>4. l.kind = "spawn" => l.other \in Threads
  BY LinesTyped
<1> HIDE DEF o
<1>5. /\ owners' \in OwnerMaps
      /\ \A t \in Threads : o[t] # NoOwner => owners'[t] = o[t]
  BY <1>1, <1>2, <1>3, <1>4, Remembers
<1>6. mapped' # NoOwner => o[l.thread] # NoOwner
  BY <1>2
<1>7. QED
  BY <1>1, <1>2, <1>3, <1>5, <1>6 DEF o

\* The types at the start.
LEMMA TypeInit == Init => TypeOK
BY RoutingAssumption DEF Init, TypeOK, OwnerMaps

\* The types after each step of the reader, then of the tasks beside it.
LEMMA TypeRoute ==
  ASSUME TypeOK, NEW l \in Incoming, Route(l) PROVE TypeOK'
<1>1. l \in Line /\ l.thread \in Threads
  BY LinesTyped DEF Line
<1>2. owners' \in OwnerMaps /\ proved' \in OwnerMaps /\ mapped' \in Workspaces \cup {NoOwner}
  BY <1>1, Routed, RoutesTyped DEF Route
<1>3. /\ hidden' \subseteq Threads
      /\ line' \in IF step' = "read" THEN {NoLine} ELSE Line
      /\ step' \in {"read", "flush", "emit", "dispatch"}
      /\ asked' \subseteq Threads \X Workspaces
      /\ {claims, read, out, aside, lost}' \subseteq Nat
  BY <1>1 DEF Route, TypeOK, HiddenAfterRoute
<1>4. QED
  BY <1>2, <1>3 DEF Route, TypeOK

LEMMA TypeFlush == ASSUME TypeOK, Flush PROVE TypeOK'
<1>1. deferred \in Seq(Line) /\ owners \in OwnerMaps /\ proved \in OwnerMaps
  BY DEF TypeOK
<1>2. owners' \in OwnerMaps
  BY <1>1, Settles DEF Flush
<1>3. proved' \in OwnerMaps
  BY <1>1, <1>2 DEF Flush, OwnerMaps
<1>4. /\ deferred' \in Seq(Line) /\ Len(deferred') <= Len(deferred)
      /\ ready' \in Seq(Line)
  BY <1>1, OnlyKeeps DEF Flush
<1>5. Len(deferred') <= MaxDeferred
  BY <1>1, <1>4, RoutingAssumption DEF TypeOK
<1>6. QED
  BY <1>2, <1>3, <1>4, <1>5 DEF Flush, TypeOK, fateVars

LEMMA TypeEmit == ASSUME TypeOK, ready # <<>>, EmitReady PROVE TypeOK'
<1>1. /\ Head(ready) \in Line /\ ready' \in Seq(Line)
  BY DEF TypeOK, EmitReady
<1>2. Head(ready).thread \in Threads /\ Head(ready).n \in Nat
  BY <1>1 DEF Line
<1>3. /\ last' \in [Threads -> Nat] /\ out' \in Nat /\ aside' \in Nat
      /\ step' \in {"emit", "dispatch"} /\ step = "emit"
  BY <1>2 DEF TypeOK, EmitReady, Delivered
<1>4. QED
  BY <1>1, <1>3 DEF TypeOK, EmitReady, routeVars

\* What making room for a line does to the buffer: the last ones stay.
LEMMA Defers ==
  ASSUME TypeOK, NEW l \in Line, Deferral(l)
  PROVE  \E cut \in 0 .. Len(deferred) + 1 :
           /\ deferred' \in Seq(Line) /\ Len(deferred') <= MaxDeferred
           /\ lost' = lost + cut /\ Len(deferred') + cut = Len(deferred) + 1
           /\ \A i \in DOMAIN deferred' :
                /\ i + cut \in 1 .. Len(deferred) + 1
                /\ deferred'[i] = IF i + cut = Len(deferred) + 1 THEN l ELSE deferred[i + cut]
<1> DEFINE all == Append(deferred, l)
           cut == IF Len(all) > MaxDeferred THEN Len(all) - MaxDeferred ELSE 0
<1>1. /\ deferred \in Seq(Line) /\ Len(deferred) \in Nat /\ MaxDeferred \in Nat
      /\ Len(deferred) <= MaxDeferred
  BY RoutingAssumption DEF TypeOK
<1>2. /\ all \in Seq(Line) /\ Len(all) = Len(deferred) + 1
      /\ \A i \in 1 .. Len(all) :
           all[i] = IF i = Len(deferred) + 1 THEN l ELSE deferred[i]
  BY <1>1
<1>3. deferred' = SubSeq(all, cut + 1, Len(all)) /\ lost' = lost + cut
  BY DEF Deferral
<1> HIDE DEF all
<1>4. cut \in 0 .. Len(all)
  BY <1>1, <1>2
<1>5. Len(all) - cut <= MaxDeferred
  BY <1>1, <1>2
<1> HIDE DEF cut
<1>6. /\ deferred' \in Seq(Line) /\ Len(deferred') = Len(all) - cut
      /\ \A i \in 1 .. Len(all) - cut : deferred'[i] = all[i + cut] /\ i + cut \in 1 .. Len(all)
  BY <1>1, <1>2, <1>3, <1>4
<1>7. DOMAIN deferred' = 1 .. Len(all) - cut
  BY <1>6
<1>8. Len(deferred') + cut = Len(deferred) + 1 /\ Len(deferred') <= MaxDeferred
  BY <1>1, <1>2, <1>4, <1>5, <1>6
<1>9. QED
  BY <1>2, <1>3, <1>4, <1>6, <1>7, <1>8

LEMMA TypeDispatch == ASSUME TypeOK, Dispatch PROVE TypeOK'
<1>1. line \in Line /\ step = "dispatch"
  BY DEF TypeOK, Dispatch
<1>2. line.thread \in Threads /\ line.n \in Nat
  BY <1>1 DEF Line
<1>3. owners' \in OwnerMaps /\ proved' \in OwnerMaps /\ hidden' \subseteq Threads
  BY <1>2 DEF Dispatch, TypeOK, OwnerMaps, routeVars
<1>4. /\ deferred' \in Seq(Line) /\ Len(deferred') <= MaxDeferred
      /\ last' \in [Threads -> Nat] /\ {out, aside, lost}' \subseteq Nat
  <2>1. CASE UNCHANGED <<deferred, lost>>
    <3>1. Delivered(line) => last' \in [Threads -> Nat] /\ out' \in Nat
      BY <1>2 DEF Delivered, TypeOK
    <3>2. \/ UNCHANGED <<last, out, aside>>
          \/ aside' = aside + 1 /\ UNCHANGED <<last, out>>
          \/ Delivered(line) /\ UNCHANGED aside
          \/ Deferral(line) /\ UNCHANGED <<last, out, aside>>
      BY DEF Dispatch, fateVars
    <3>3. QED
      BY <2>1, <3>1, <3>2 DEF TypeOK
  <2>2. CASE Deferral(line) /\ UNCHANGED <<last, out, aside>>
    <3>1. PICK cut \in 0 .. Len(deferred) + 1 :
            deferred' \in Seq(Line) /\ Len(deferred') <= MaxDeferred /\ lost' = lost + cut
      BY <1>1, <2>2, Defers
    <3>2. Len(deferred) \in Nat
      BY DEF TypeOK
    <3>3. QED
      BY <2>2, <3>1, <3>2 DEF TypeOK
  <2>3. QED
    BY <2>1, <2>2 DEF Dispatch, fateVars
<1>5. QED
  BY <1>3, <1>4 DEF Dispatch, TypeOK

LEMMA TypeBeside ==
  ASSUME TypeOK,
         \/ \E t \in Threads, w \in Workspaces : Claim(t, w) \/ Start(t, w)
         \/ \E w \in Workspaces : Register(w) \/ Unregister(w)
         \/ \E t \in Threads : AddCallback(t) \/ RemoveCallback(t)
  PROVE  TypeOK'
<1>1. CASE \E t \in Threads, w \in Workspaces : Claim(t, w)
  <2>1. PICK t \in Threads, w \in Workspaces : Claim(t, w)
    BY <1>1
  <2>2. owners' \in OwnerMaps
    BY <2>1, Remembers DEF Claim, TypeOK
  <2>3. QED
    BY <2>1, <2>2 DEF Claim, TypeOK, fateVars
<1>2. CASE \E t \in Threads, w \in Workspaces : Start(t, w)
  BY <1>2 DEF Start, TypeOK, routeVars, fateVars
<1>3. CASE \E w \in Workspaces : Register(w) \/ Unregister(w)
  BY <1>3 DEF Register, Unregister, TypeOK, routeVars, fateVars
<1>4. CASE \E t \in Threads : AddCallback(t) \/ RemoveCallback(t)
  BY <1>4 DEF AddCallback, RemoveCallback, TypeOK, routeVars, fateVars
<1>5. QED
  BY <1>1, <1>2, <1>3, <1>4

\* The reader has something to emit when it emits, and nothing else before.
Emitting == step = "emit" <=> ready # <<>>

TypeInv == TypeOK /\ Emitting

\* Both are inductive.
LEMMA TypeNext == TypeInv /\ [Next]_vars => TypeInv'
<1> SUFFICES ASSUME TypeInv, [Next]_vars PROVE TypeInv'
  OBVIOUS
<1>0. TypeOK /\ Emitting
  BY DEF TypeInv
<1>1. ASSUME NEW l \in Incoming, Route(l) PROVE TypeInv'
  BY <1>0, <1>1, TypeRoute DEF Route, Emitting, TypeInv
<1>2. CASE Flush
  BY <1>0, <1>2, TypeFlush DEF Flush, Emitting, TypeInv
<1>3. CASE EmitReady
  <2>1. TypeOK' /\ step = "emit" /\ ready # <<>>
    BY <1>0, <1>3, TypeEmit DEF EmitReady, Emitting
  <2>2. ready \in Seq(Line) /\ Len(ready) \in Nat /\ Len(ready) # 0
    BY <1>0, <2>1 DEF TypeOK
  <2>3. Tail(ready) # <<>> <=> Len(ready) # 1
    <3>1. Len(Tail(ready)) = Len(ready) - 1 /\ Tail(ready) \in Seq(Line)
      BY <2>1, <2>2
    <3>2. Tail(ready) = <<>> <=> Len(Tail(ready)) = 0
      BY <3>1
    <3>3. QED
      BY <2>2, <3>1, <3>2
  <2>4. QED
    BY <1>3, <2>1, <2>3 DEF EmitReady, Emitting, TypeInv
<1>4. CASE Dispatch
  BY <1>0, <1>4, TypeDispatch DEF Dispatch, Emitting, TypeInv
<1>5. CASE \/ \E t \in Threads, w \in Workspaces : Claim(t, w) \/ Start(t, w)
           \/ \E w \in Workspaces : Register(w) \/ Unregister(w)
           \/ \E t \in Threads : AddCallback(t) \/ RemoveCallback(t)
  <2>1. UNCHANGED <<step, ready>>
    BY <1>5 DEF Claim, Start, Register, Unregister, AddCallback, RemoveCallback
  <2>2. QED
    BY <1>0, <1>5, <2>1, TypeBeside DEF Emitting, TypeInv
<1>6. CASE UNCHANGED vars
  BY <1>0, <1>6 DEF vars, routeVars, fateVars, TypeOK, TypeInv, Emitting, OwnerMaps
<1>7. QED
  BY <1>1, <1>2, <1>3, <1>4, <1>5, <1>6 DEF Next

\* They hold at the start.
LEMMA InvInit == Init => TypeInv
BY TypeInit DEF Init, TypeInv, Emitting

\* The state is well typed.
THEOREM RoutingTypes == Spec => []TypeOK
<1>1. TypeInv => TypeOK
  BY DEF TypeInv
<1>2. QED
  BY <1>1, InvInit, TypeNext, PTL DEF Spec

-----------------------------------------------------------------------------
(* Every notification is accounted for. *)

InHand == IF step # "read" /\ line.kind \in Notifications THEN 1 ELSE 0

\* NothingVanishes as a sum.
LEMMA Counted ==
  NothingVanishes <=> read = out + aside + lost + Len(deferred) + Len(ready) + InHand
BY DEF NothingVanishes, InHand

\* The sum stays: each action moves what it counts from one part to another.
LEMMA CountsNext == TypeInv /\ NothingVanishes /\ [Next]_vars => NothingVanishes'
<1> SUFFICES ASSUME TypeInv, NothingVanishes, [Next]_vars PROVE NothingVanishes'
  OBVIOUS
<1>0. /\ TypeOK /\ Emitting /\ TypeInv'
      /\ read \in Nat /\ out \in Nat /\ aside \in Nat /\ lost \in Nat
      /\ deferred \in Seq(Line) /\ ready \in Seq(Line)
      /\ Len(deferred) \in Nat /\ Len(ready) \in Nat
      /\ NoLine.kind \notin Notifications
  <2>1. NoLine.kind \notin Notifications
    BY DEF NoLine, Notifications
  <2>2. TypeOK /\ Emitting /\ TypeInv'
    BY TypeNext DEF TypeInv
  <2>3. QED
    BY <2>1, <2>2 DEF TypeOK
<1>1. ASSUME NEW l \in Incoming, Route(l) PROVE NothingVanishes'
  <2>1. /\ step = "read" /\ UNCHANGED <<deferred, ready, out, lost>>
        /\ read' = IF l.kind \in Notifications THEN read + 1 ELSE read
        /\ IF Suppressed(l)
             THEN /\ step' = "read"
                  /\ aside' = IF l.kind \in Notifications THEN aside + 1 ELSE aside
             ELSE step' = "flush" /\ aside' = aside /\ line' = l
    BY <1>1 DEF Route
  <2>2. QED
    BY <1>0, <2>1 DEF NothingVanishes
<1>2. CASE Flush
  <2>1. Len(ready') + Len(deferred') = Len(deferred) /\ Len(ready) = 0
    BY <1>0, <1>2, OnlyCounts DEF Flush, Emitting
  <2>2. Len(deferred') \in Nat /\ Len(ready') \in Nat
    BY <1>0 DEF TypeInv, TypeOK
  <2>3. /\ step # "read" /\ step' # "read" /\ UNCHANGED <<line, read, out, aside, lost>>
    BY <1>2 DEF Flush, fateVars
  <2>4. QED
    BY <1>0, <2>1, <2>2, <2>3 DEF NothingVanishes
<1>3. CASE EmitReady
  <2>1. /\ step # "read" /\ step' # "read" /\ UNCHANGED <<line, read, lost, deferred>>
        /\ out' + aside' = out + aside + 1 /\ ready' = Tail(ready) /\ ready # <<>>
    BY <1>0, <1>3 DEF EmitReady, Delivered, Emitting
  <2>2. Len(ready') = Len(ready) - 1
    BY <1>0, <2>1
  <2>3. out' \in Nat /\ aside' \in Nat
    BY <1>0 DEF TypeInv, TypeOK
  <2>4. InHand' = InHand /\ InHand \in {0, 1}
    BY <2>1 DEF InHand
  <2>5. read = out' + aside' + lost + Len(deferred) + Len(ready') + InHand'
    <3>1. read = out + aside + lost + Len(deferred) + Len(ready) + InHand
      BY Counted
    <3>2. InHand \in Nat /\ Len(ready) # 0
      BY <1>0, <2>1, <2>4
    <3>3. CASE out' = out + 1 /\ aside' = aside
      BY <1>0, <2>2, <2>4, <3>1, <3>2, <3>3
    <3>4. CASE out' = out /\ aside' = aside + 1
      BY <1>0, <2>2, <2>4, <3>1, <3>2, <3>4
    <3>5. QED
      BY <1>3, <3>3, <3>4 DEF EmitReady, Delivered
  <2>6. QED
    BY <2>1, <2>5 DEF NothingVanishes, InHand
<1>4. CASE Dispatch
  <2>1. step # "read" /\ step' = "read" /\ UNCHANGED <<read, ready>> /\ line \in Line
    BY <1>0, <1>4 DEF Dispatch, TypeOK
  <2>2. CASE line.kind \notin Notifications /\ UNCHANGED <<deferred, fateVars>>
    BY <1>0, <2>1, <2>2 DEF NothingVanishes, fateVars
  <2>3. CASE /\ line.kind \in Notifications /\ UNCHANGED <<deferred, lost>>
             /\ \/ aside' = aside + 1 /\ UNCHANGED out
                \/ out' = out + 1 /\ UNCHANGED aside
    BY <1>0, <2>1, <2>3 DEF NothingVanishes
  <2>4. CASE line.kind \in Notifications /\ Deferral(line) /\ UNCHANGED <<out, aside>>
    <3>1. PICK cut \in 0 .. Len(deferred) + 1 :
            lost' = lost + cut /\ Len(deferred') + cut = Len(deferred) + 1
      BY <1>0, <2>1, <2>4, Defers
    <3>2. cut \in Nat /\ Len(deferred') \in Nat
      BY <1>0 DEF TypeInv, TypeOK
    <3>3. InHand = 1 /\ InHand' = 0
      BY <2>1, <2>4 DEF InHand
    <3>4. read = out + aside + lost' + Len(deferred') + Len(ready) + InHand'
      BY <1>0, <3>1, <3>2, <3>3, Counted
    <3>5. QED
      BY <2>1, <2>4, <3>4 DEF NothingVanishes, InHand
  <2>5. QED
    BY <1>4, <2>2, <2>3, <2>4 DEF Dispatch, Delivered
<1>5. CASE UNCHANGED <<read, out, aside, lost, deferred, ready, step, line>>
  BY <1>5 DEF NothingVanishes
<1>6. QED
  BY <1>1, <1>2, <1>3, <1>4, <1>5
     DEF Next, Claim, Start, Register, Unregister, AddCallback, RemoveCallback,
         vars, routeVars, fateVars

\* Every notification read is delivered, kept aside, in hand, waiting, or dropped
\* and reported, and none is counted twice (DeferredThreadEvents).
THEOREM NoneVanishes == Spec => []NothingVanishes
<1>1. Init => NothingVanishes
  BY DEF Init, NothingVanishes
<1>2. TypeInv /\ NothingVanishes /\ [Next]_vars => (TypeInv /\ NothingVanishes)'
  BY TypeNext, CountsNext
<1>3. QED
  BY <1>1, <1>2, InvInit, PTL DEF Spec

-----------------------------------------------------------------------------
(* Evidence and claims. *)

LEMMA EvidenceNext == TypeInv /\ EvidenceWins /\ [Next]_vars => EvidenceWins'
<1> SUFFICES ASSUME TypeInv, EvidenceWins, [Next]_vars PROVE EvidenceWins'
  OBVIOUS
<1>0. TypeOK /\ owners \in OwnerMaps /\ proved \in OwnerMaps
  BY DEF TypeInv, TypeOK
<1>1. ASSUME NEW l \in Incoming, Route(l) PROVE EvidenceWins'
  <2> DEFINE o == OwnersAfterRoute(l)
  <2>1. /\ l \in Line /\ l.thread \in Threads /\ l.cwd \in Cwds \cup {NoCwd}
        /\ l.from \in Workspaces \cup {NoOwner}
        /\ l.kind \in {"list", "reply"} => Evidence(owners, l) = Resolve(l.cwd)
    BY <1>0, LinesTyped DEF Line, Evidence
  <2>2. /\ \A t \in Threads : o[t] # NoOwner => owners'[t] = o[t]
        /\ proved' = ProvedAfterRoute(l)
    BY <1>0, <1>1, Routed DEF Route
  <2>3. CASE l.kind = "memoryList"
    BY <1>0, <2>1, <2>2, <2>3
       DEF EvidenceWins, OwnersAfterRoute, ProvedAfterRoute, OwnerMaps
  <2>4. CASE l.kind = "list"
    <3>1. o = Learn(owners, l)
      BY <2>1, <2>4 DEF OwnersAfterRoute, Learn
    <3> HIDE DEF o
    <3>2. proved' = IF Evidence(owners, l) = NoOwner THEN proved
                    ELSE [proved EXCEPT ![l.thread] = Evidence(owners, l)]
      BY <2>2, <2>4 DEF ProvedAfterRoute
    <3>3. QED
      BY <1>0, <2>1, <2>2, <3>1, <3>2 DEF EvidenceWins, Learn, OwnerMaps
  <2>5. CASE l.kind = "reply"
    <3> DEFINE q == Remember(owners, l.thread, l.from)
    <3>1. /\ o = Learn(q, l) /\ Evidence(q, l) = Evidence(owners, l)
          /\ q \in OwnerMaps /\ \A t \in Threads : owners[t] # NoOwner => q[t] = owners[t]
      BY <1>0, <2>1, <2>5, Remembers DEF OwnersAfterRoute, Evidence
    <3> HIDE DEF o, q
    <3>2. proved' = IF Evidence(owners, l) = NoOwner THEN proved
                    ELSE [proved EXCEPT ![l.thread] = Evidence(owners, l)]
      BY <2>2, <2>5 DEF ProvedAfterRoute
    <3>3. QED
      BY <1>0, <2>1, <2>2, <3>1, <3>2 DEF EvidenceWins, Learn, OwnerMaps
  <2>6. CASE l.kind \notin {"list", "memoryList", "reply"}
    <3>1. o = Learn(owners, l)
      BY <2>6 DEF OwnersAfterRoute
    <3> HIDE DEF o
    <3>2. proved' = IF Evidence(owners, l) = NoOwner THEN proved
                    ELSE [proved EXCEPT ![l.thread] = Evidence(owners, l)]
      BY <2>2, <2>6 DEF ProvedAfterRoute
    <3>3. QED
      BY <1>0, <2>1, <2>2, <3>1, <3>2 DEF EvidenceWins, Learn, OwnerMaps
  <2>7. QED
    BY <2>3, <2>4, <2>5, <2>6
<1>2. CASE Flush
  BY <1>2 DEF Flush, EvidenceWins
<1>3. CASE EmitReady
  BY <1>3 DEF EmitReady, EvidenceWins, routeVars
<1>4. CASE Dispatch
  <2>1. line.thread \in Threads
    BY <1>0, <1>4 DEF Dispatch, TypeOK, Line
  <2>2. QED
    BY <1>0, <1>4, <2>1 DEF Dispatch, EvidenceWins, routeVars, OwnerMaps
<1>5. ASSUME NEW t \in Threads, NEW w \in Workspaces, Claim(t, w) PROVE EvidenceWins'
  BY <1>0, <1>5, Remembers DEF Claim, EvidenceWins
<1>6. CASE UNCHANGED <<owners, proved>>
  BY <1>6 DEF EvidenceWins
<1>7. QED
  BY <1>1, <1>2, <1>3, <1>4, <1>5, <1>6
     DEF Next, Start, Register, Unregister, AddCallback, RemoveCallback, vars, routeVars

\* A thread keeps the workspace its own metadata gave it, whoever claims it.
THEOREM EvidenceKept == Spec => []EvidenceWins
<1>1. Init => EvidenceWins
  BY DEF Init, EvidenceWins
<1>2. TypeInv /\ EvidenceWins /\ [Next]_vars => (TypeInv /\ EvidenceWins)'
  BY TypeNext, EvidenceNext
<1>3. QED
  BY <1>1, <1>2, InvInit, PTL DEF Spec

\* A flush goes on until no line that waits has anything to tell of its thread
\* (the passes of take_resolved).
FlushComplete ==
  [][Flush => \A i \in DOMAIN deferred' : Evidence(owners', deferred'[i]) = NoOwner]_vars

THEOREM FlushesComplete == Spec => FlushComplete
<1>1. TypeInv /\ [Next]_vars =>
        [Flush => \A i \in DOMAIN deferred' : Evidence(owners', deferred'[i]) = NoOwner]_vars
  <2> SUFFICES ASSUME TypeInv, Flush, NEW i \in DOMAIN deferred'
               PROVE  Evidence(owners', deferred'[i]) = NoOwner
    OBVIOUS
  <2>1. deferred \in Seq(Line) /\ owners \in OwnerMaps
    BY DEF TypeInv, TypeOK
  <2>2. PICK q \in OwnerMaps : owners' = Pass[q] /\ Owned(Pass[q]) = Owned(q)
    BY <2>1, SettledLast DEF Flush
  <2>3. PICK k \in DOMAIN deferred :
          deferred'[i] = deferred[k] /\ deferred[k].thread \in Threads \ Owned(owners')
    BY <2>1, OnlyKeeps DEF Flush
  <2>4. QED
    BY <2>1, <2>2, <2>3, PassComplete
<1>2. QED
  BY <1>1, InvInit, TypeNext, PTL DEF Spec, FlushComplete

-----------------------------------------------------------------------------
(* Hidden threads. *)

\* A notification in hand of a hidden thread says that it was archived.
HandHidden ==
  line.kind \in Notifications /\ line.thread \in hidden => line.kind = "archived"

\* HandHidden is inductive.
LEMMA HiddenNext == TypeInv /\ HandHidden /\ [Next]_vars => HandHidden'
<1> SUFFICES ASSUME TypeInv, HandHidden, [Next]_vars PROVE HandHidden'
  OBVIOUS
<1>0. NoLine.kind \notin Notifications
  BY DEF NoLine, Notifications
<1>1. ASSUME NEW l \in Incoming, Route(l) PROVE HandHidden'
  BY <1>0, <1>1 DEF Route, HandHidden, Suppressed, Notifications
<1>2. CASE Dispatch
  BY <1>0, <1>2 DEF Dispatch, HandHidden
<1>3. CASE UNCHANGED <<line, hidden>>
  BY <1>3 DEF HandHidden
<1>4. QED
  BY <1>1, <1>2, <1>3
     DEF Next, Flush, EmitReady, Claim, Start, Register, Unregister, AddCallback,
         RemoveCallback, vars, routeVars

\* Nothing of a hidden thread reaches the frontend but that it was archived, not
\* even what was deferred before the thread was known to be hidden.
THEOREM HiddenKept == Spec => HiddenStaysHidden
<1>1. TypeInv /\ HandHidden /\ [Next]_vars =>
        [\A t \in hidden : last'[t] # last[t] => line.kind = "archived"]_vars
  <2> SUFFICES ASSUME TypeInv, HandHidden, Next, NEW t \in hidden, last'[t] # last[t]
               PROVE  line.kind = "archived"
    OBVIOUS
  <2>0. TypeOK /\ Emitting /\ t \in Threads /\ last \in [Threads -> Nat]
    BY DEF TypeInv, TypeOK
  <2>1. CASE EmitReady
    <3>1. ready # <<>> /\ Head(ready) \in Line
      BY <2>0, <2>1 DEF EmitReady, Emitting, TypeOK
    <3>2. Head(ready).thread = t
      BY <2>0, <2>1, <3>1 DEF EmitReady, Delivered, Line
    <3>3. QED
      BY <2>1, <3>2 DEF EmitReady, ToFrontend, Delivered
  <2>2. CASE Dispatch
    BY <2>0, <2>2 DEF Dispatch, Delivered, HandHidden, fateVars
  <2>3. QED
    BY <2>1, <2>2
       DEF Next, Route, Flush, Claim, Start, Register, Unregister, AddCallback,
           RemoveCallback, fateVars
<1>2. Init => HandHidden
  BY DEF Init, HandHidden
<1>3. TypeInv /\ HandHidden /\ [Next]_vars => (TypeInv /\ HandHidden)'
  BY TypeNext, HiddenNext
<1>4. QED
  BY <1>1, <1>2, <1>3, InvInit, PTL DEF Spec, HiddenStaysHidden

-----------------------------------------------------------------------------
(* The order of a thread's notifications. *)

Increasing(s) == \A i, j \in DOMAIN s : i < j => s[i].n < s[j].n

\* The notification in hand is the latest; what waits and what was delivered came
\* before it.
Numbered ==
  /\ InHand = 1 => line.n = read
  /\ \A i \in DOMAIN deferred : deferred[i].n + InHand <= read
  /\ \A i \in DOMAIN ready : ready[i].n + InHand <= read
  /\ \A t \in Threads : last[t] + InHand <= read

InLine == Increasing(deferred) /\ Increasing(ready)

\* A flush releases all that waits of a thread, or nothing.
Parted == \A i \in DOMAIN ready, j \in DOMAIN deferred : ready[i].thread # deferred[j].thread

\* What waits of a thread that was not overtaken came after what was delivered.
Ahead ==
  \A t \in Threads \ overtaken :
    /\ \A i \in DOMAIN deferred : deferred[i].thread = t => last[t] < deferred[i].n
    /\ \A i \in DOMAIN ready : ready[i].thread = t => last[t] < ready[i].n

MappedOwned ==
  mapped # NoOwner => step # "read" /\ owners[line.thread] # NoOwner

\* Once the buffer was flushed nothing waits of the thread of the line in hand if
\* that has an owner, unless the owner came later.
LineClear ==
  step \in {"emit", "dispatch"} /\ line.kind \in Notifications
    /\ line.thread \notin overtaken /\ owners[line.thread] # NoOwner
  => \A j \in DOMAIN deferred : deferred[j].thread # line.thread

OrderInv ==
  TypeInv /\ Numbered /\ InLine /\ Parted /\ Ahead /\ MappedOwned /\ LineClear

\* The types that the proofs below use.
LEMMA OrderTypes ==
  ASSUME TypeInv
  PROVE  /\ TypeOK /\ Emitting
         /\ deferred \in Seq(Line) /\ ready \in Seq(Line)
         /\ read \in Nat /\ last \in [Threads -> Nat] /\ owners \in OwnerMaps
         /\ InHand \in {0, 1} /\ (step = "read" => InHand = 0 /\ line = NoLine)
         /\ step # "read" => line \in Line /\ line.thread \in Threads /\ line.n \in Nat
         /\ \A i \in DOMAIN deferred :
              deferred[i] \in Line /\ deferred[i].thread \in Threads /\ deferred[i].n \in Nat
         /\ \A i \in DOMAIN ready :
              ready[i] \in Line /\ ready[i].thread \in Threads /\ ready[i].n \in Nat
<1>1. /\ TypeOK /\ Emitting /\ deferred \in Seq(Line) /\ ready \in Seq(Line)
      /\ read \in Nat /\ last \in [Threads -> Nat] /\ owners \in OwnerMaps
      /\ step = "read" => line = NoLine
      /\ step # "read" => line \in Line
  BY DEF TypeInv, TypeOK
<1>2. InHand \in {0, 1} /\ (step = "read" => InHand = 0)
  BY DEF InHand
<1>3. \A l \in Line : l.thread \in Threads /\ l.n \in Nat
  BY DEF Line
<1>4. \A s \in Seq(Line) : \A i \in DOMAIN s : s[i] \in Line
  OBVIOUS
<1>5. QED
  BY <1>1, <1>2, <1>3, <1>4

\* OrderInv after each step of the reader.
LEMMA OrderRoute ==
  ASSUME OrderInv, NEW l \in Incoming, Route(l) PROVE OrderInv'
<1>1. TypeInv /\ TypeInv' /\ TypeOK
  BY TypeNext DEF OrderInv, Next, TypeInv
<1>2. /\ step = "read" /\ step' \in {"read", "flush"} /\ InHand = 0
      /\ UNCHANGED <<deferred, ready, last, overtaken>>
      /\ read \in Nat /\ read' = IF l.kind \in Notifications THEN read + 1 ELSE read
      /\ line' = IF Suppressed(l) THEN NoLine ELSE l
      /\ step' = "read" <=> Suppressed(l)
      /\ l.kind \in Notifications => l.n = read + 1
  BY <1>1, OrderTypes, LinesTyped DEF Route
<1>3. InHand' = IF l.kind \in Notifications /\ ~Suppressed(l) THEN 1 ELSE 0
  BY <1>2 DEF InHand
<1>4. read + InHand' <= read' /\ (InHand' = 1 => line'.n = read')
  BY <1>2, <1>3
<1>5. Numbered'
  <2>1. ASSUME NEW n \in Nat, n + InHand <= read PROVE n + InHand' <= read'
    BY <1>2, <1>3, <2>1
  <2>2. QED
    BY <1>1, <1>2, <1>4, <2>1, OrderTypes DEF OrderInv, Numbered
<1>6. InLine' /\ Parted' /\ Ahead'
  BY <1>2 DEF OrderInv, InLine, Increasing, Parted, Ahead
<1>7. MappedOwned' /\ LineClear'
  BY <1>1, <1>2, Routed DEF Route, MappedOwned, LineClear
<1>8. QED
  BY <1>1, <1>5, <1>6, <1>7 DEF OrderInv

LEMMA OrderFlush == ASSUME OrderInv, Flush PROVE OrderInv'
<1>1. TypeInv /\ TypeInv'
  BY TypeNext DEF OrderInv, Next
<1>2. /\ step = "flush" /\ step' \in {"emit", "dispatch"}
      /\ UNCHANGED <<line, mapped, read, last, overtaken>>
      /\ owners' = Settled(owners)
      /\ deferred' = Only(deferred, Threads \ Owned(owners'))
      /\ ready' = Only(deferred, Owned(owners'))
  BY DEF Flush, fateVars
<1>3. InHand' = InHand
  BY <1>2 DEF InHand
<1>4. \A T : /\ \A j \in DOMAIN Only(deferred, T) :
                  \E k \in DOMAIN deferred :
                    Only(deferred, T)[j] = deferred[k] /\ deferred[k].thread \in T
             /\ Increasing(Only(deferred, T))
  <2>1. deferred \in Seq(Line) /\ Increasing(deferred)
    BY <1>1, OrderTypes DEF OrderInv, InLine
  <2>2. QED
    BY <2>1, OnlyKeeps DEF Increasing
<1>5. \A j \in DOMAIN deferred' : \E k \in DOMAIN deferred :
        deferred'[j] = deferred[k] /\ deferred[k].thread \in Threads \ Owned(owners')
  BY <1>2, <1>4
<1>6. \A j \in DOMAIN ready' : \E k \in DOMAIN deferred :
        ready'[j] = deferred[k] /\ deferred[k].thread \in Owned(owners')
  BY <1>2, <1>4
<1>7. Numbered'
  BY <1>2, <1>3, <1>5, <1>6 DEF OrderInv, Numbered
<1>8. InLine' /\ Parted'
  BY <1>2, <1>4, <1>5, <1>6 DEF InLine, Parted
<1>9. Ahead'
  <2>1. \A t \in Threads \ overtaken : \A k \in DOMAIN deferred :
          deferred[k].thread = t => last'[t] < deferred[k].n
    BY <1>2 DEF OrderInv, Ahead
  <2>2. ASSUME NEW t \in Threads \ overtaken, NEW j \in DOMAIN deferred',
               deferred'[j].thread = t
        PROVE  last'[t] < deferred'[j].n
    <3>1. PICK k \in DOMAIN deferred : deferred'[j] = deferred[k]
      BY <1>5
    <3>2. QED
      BY <2>1, <2>2, <3>1
  <2>3. ASSUME NEW t \in Threads \ overtaken, NEW j \in DOMAIN ready',
               ready'[j].thread = t
        PROVE  last'[t] < ready'[j].n
    <3>1. PICK k \in DOMAIN deferred : ready'[j] = deferred[k]
      BY <1>6
    <3>2. QED
      BY <2>1, <2>3, <3>1
  <2>4. overtaken' = overtaken
    BY <1>2
  <2>5. QED
    BY <2>2, <2>3, <2>4 DEF Ahead
<1>10. MappedOwned'
  <2>1. Owned(owners) \subseteq Owned(owners')
    BY <1>1, <1>2, Settles, OrderTypes
  <2>2. QED
    BY <1>1, <1>2, <2>1, OrderTypes DEF OrderInv, MappedOwned, Owned
<1>11. LineClear'
  BY <1>2, <1>5 DEF LineClear, Owned
<1>12. QED
  BY <1>1, <1>7, <1>8, <1>9, <1>10, <1>11 DEF OrderInv

LEMMA OrderEmit == ASSUME OrderInv, EmitReady PROVE OrderInv'
<1>1. TypeInv /\ TypeInv' /\ ready # <<>>
  BY TypeNext DEF OrderInv, Next, EmitReady, TypeInv, Emitting
<1> DEFINE h == Head(ready)
<1>2. /\ step = "emit" /\ step' \in {"emit", "dispatch"} /\ ready' = Tail(ready)
      /\ UNCHANGED <<line, mapped, read, deferred, owners, overtaken>>
      /\ last' \in {last, [last EXCEPT ![h.thread] = h.n]}
  BY DEF EmitReady, Delivered, routeVars
<1>3. InHand' = InHand
  BY <1>2 DEF InHand
<1>4. /\ 1 \in DOMAIN ready /\ h = ready[1]
      /\ \A i \in DOMAIN ready' :
           /\ i \in Nat /\ i + 1 \in DOMAIN ready /\ ready'[i] = ready[i + 1] /\ 1 < i + 1
  <2>1. ready \in Seq(Line)
    BY <1>1, OrderTypes
  <2>2. QED
    BY <1>1, <1>2, <2>1
<1> HIDE DEF h
<1>5. h.thread \in Threads /\ h.n \in Nat /\ h.n + InHand <= read
      /\ last \in [Threads -> Nat]
  BY <1>1, <1>4, OrderTypes DEF OrderInv, Numbered
<1>6. Numbered'
  <2>1. \A t \in Threads : last'[t] + InHand' <= read'
    BY <1>2, <1>3, <1>5 DEF OrderInv, Numbered
  <2>2. QED
    BY <1>2, <1>3, <1>4, <2>1 DEF OrderInv, Numbered
<1>7. InLine'
  <2>1. ASSUME NEW i \in DOMAIN ready', NEW j \in DOMAIN ready', i < j
        PROVE  ready'[i].n < ready'[j].n
    <3>1. i + 1 < j + 1
      BY <1>4, <2>1
    <3>2. QED
      BY <1>4, <3>1 DEF OrderInv, InLine, Increasing
  <2>2. QED
    BY <1>2, <2>1 DEF OrderInv, InLine, Increasing
<1>8. Parted'
  BY <1>2, <1>4 DEF OrderInv, Parted
<1>9. Ahead'
  <2> SUFFICES ASSUME NEW t \in Threads \ overtaken
               PROVE  /\ \A i \in DOMAIN deferred : deferred[i].thread = t => last'[t] < deferred[i].n
                      /\ \A i \in DOMAIN ready' : ready'[i].thread = t => last'[t] < ready'[i].n
    BY <1>2 DEF Ahead
  <2>1. CASE last'[t] = last[t]
    BY <1>4, <2>1 DEF OrderInv, Ahead
  <2>2. CASE t = h.thread /\ last'[t] = h.n
    <3>1. \A i \in DOMAIN deferred : deferred[i].thread # t
      BY <1>4, <2>2 DEF OrderInv, Parted
    <3>2. \A i \in DOMAIN ready' : h.n < ready'[i].n
      BY <1>4 DEF OrderInv, InLine, Increasing
    <3>3. QED
      BY <2>2, <3>1, <3>2
  <2>3. QED
    BY <1>2, <1>5, <2>1, <2>2
<1>10. MappedOwned' /\ LineClear'
  BY <1>2 DEF OrderInv, MappedOwned, LineClear
<1>11. QED
  BY <1>1, <1>6, <1>7, <1>8, <1>9, <1>10 DEF OrderInv

LEMMA OrderDispatch == ASSUME OrderInv, Dispatch PROVE OrderInv'
<1>1. TypeInv /\ TypeInv'
  BY TypeNext DEF OrderInv, Next
<1>2. /\ step = "dispatch" /\ step' = "read" /\ UNCHANGED <<read, ready, overtaken>>
      /\ mapped' = NoOwner /\ ready = <<>> /\ InHand' = 0
  BY <1>1, OrderTypes DEF Dispatch, InHand, Emitting
<1>3. MappedOwned' /\ LineClear' /\ Parted'
  BY <1>2 DEF MappedOwned, LineClear, Parted
<1>4. line \in Line /\ line.thread \in Threads /\ line.n \in Nat
      /\ (line.kind \in Notifications => InHand = 1 /\ line.n = read)
  BY <1>1, <1>2, OrderTypes DEF OrderInv, Numbered, InHand
<1>5. /\ read \in Nat /\ InHand \in {0, 1} /\ last \in [Threads -> Nat]
      /\ \A i \in DOMAIN deferred : deferred[i].n \in Nat /\ deferred[i].n + InHand <= read
      /\ \A t \in Threads : last[t] + InHand <= read
      /\ Increasing(deferred) /\ Ahead
  BY <1>1, OrderTypes DEF OrderInv, Numbered, InLine
<1>6. CASE UNCHANGED <<deferred, last>>
  BY <1>1, <1>2, <1>3, <1>5, <1>6 DEF OrderInv, Numbered, InLine, Increasing, Ahead
<1>7. CASE /\ line.kind \in Notifications /\ UNCHANGED deferred
           /\ last' = [last EXCEPT ![line.thread] = line.n] /\ owners[line.thread] # NoOwner
  <2>1. line.thread \notin overtaken => \A j \in DOMAIN deferred : deferred[j].thread # line.thread
    BY <1>2, <1>7 DEF OrderInv, LineClear
  <2>2. \A t \in Threads : last'[t] = IF t = line.thread THEN read ELSE last[t]
    BY <1>4, <1>5, <1>7
  <2>3. Numbered'
    BY <1>2, <1>5, <1>7, <2>2 DEF Numbered
  <2>4. Ahead'
    BY <1>2, <1>5, <1>7, <2>1, <2>2 DEF Ahead
  <2>5. QED
    BY <1>1, <1>2, <1>3, <1>5, <1>7, <2>3, <2>4 DEF OrderInv, InLine, Increasing
<1>8. CASE line.kind \in Notifications /\ Deferral(line) /\ UNCHANGED last
  <2>1. PICK cut \in 0 .. Len(deferred) + 1 :
          \A i \in DOMAIN deferred' :
            /\ i + cut \in 1 .. Len(deferred) + 1
            /\ deferred'[i] = IF i + cut = Len(deferred) + 1 THEN line ELSE deferred[i + cut]
    BY <1>1, <1>4, <1>8, Defers, OrderTypes
  <2>2. /\ deferred \in Seq(Line) /\ Len(deferred) \in Nat /\ cut \in Nat
        /\ DOMAIN deferred = 1 .. Len(deferred)
        /\ \A i \in DOMAIN deferred' : i \in Nat
    <3>1. deferred \in Seq(Line) /\ deferred' \in Seq(Line)
      BY <1>1 DEF TypeInv, TypeOK
    <3>2. QED
      BY <3>1
  <2>3. ASSUME NEW i \in DOMAIN deferred'
        PROVE  \/ i + cut = Len(deferred) + 1 /\ deferred'[i] = line
               \/ i + cut \in DOMAIN deferred /\ deferred'[i] = deferred[i + cut]
    BY <2>1, <2>2
  <2>4. \A i \in DOMAIN deferred : deferred[i].n < line.n
    BY <1>4, <1>5, <1>8
  <2>5. Increasing(deferred')
    <3> SUFFICES ASSUME NEW i \in DOMAIN deferred', NEW j \in DOMAIN deferred', i < j
                 PROVE  deferred'[i].n < deferred'[j].n
      BY DEF Increasing
    <3>1. i + cut < j + cut /\ i + cut \in DOMAIN deferred /\ deferred'[i] = deferred[i + cut]
      BY <2>1, <2>2
    <3>2. QED
      BY <1>5, <2>3, <2>4, <3>1 DEF Increasing
  <2>6. Numbered'
    <3>1. \A i \in DOMAIN deferred' : deferred'[i].n <= read
      BY <1>4, <1>5, <1>8, <2>3
    <3>2. \A i \in DOMAIN deferred' : deferred'[i].n \in Nat
      BY <1>4, <1>5, <2>3
    <3>3. \A i \in DOMAIN deferred' : deferred'[i].n + InHand' <= read'
      BY <1>2, <1>5, <3>1, <3>2
    <3>4. QED
      BY <1>2, <1>5, <1>8, <3>3 DEF Numbered
  <2>7. Ahead'
    <3>1. ASSUME NEW t \in Threads \ overtaken, NEW i \in DOMAIN deferred',
                 deferred'[i].thread = t
          PROVE  last[t] < deferred'[i].n
      BY <1>4, <1>5, <1>8, <2>3, <3>1 DEF Ahead
    <3>2. QED
      BY <1>2, <1>8, <3>1 DEF Ahead
  <2>8. InLine'
    BY <1>2, <2>5 DEF InLine, Increasing
  <2>9. QED
    BY <1>1, <1>3, <2>6, <2>7, <2>8 DEF OrderInv
<1>9. QED
  <2>1. mapped # NoOwner => owners[line.thread] # NoOwner
    BY DEF OrderInv, MappedOwned
  <2>2. QED
    BY <1>6, <1>7, <1>8, <2>1 DEF Dispatch, Delivered, fateVars

\* OrderInv is inductive: a claim that gives the line in hand an owner too late
\* marks its thread as overtaken, any other leaves what OrderInv says.
LEMMA OrderNext == OrderInv /\ [Next]_vars => OrderInv'
<1> SUFFICES ASSUME OrderInv, [Next]_vars PROVE OrderInv'
  OBVIOUS
<1>1. TypeInv /\ TypeInv'
  BY TypeNext DEF OrderInv
<1>2. ASSUME UNCHANGED <<deferred, ready, step, line, mapped, read, last>>,
             \A t \in Threads : owners[t] # NoOwner => owners'[t] # NoOwner,
             overtaken \subseteq overtaken',
             step \in {"emit", "dispatch"} /\ line.kind \in Notifications
               /\ line.thread \notin overtaken' => owners'[line.thread] = owners[line.thread]
      PROVE  OrderInv'
  <2>1. Numbered' /\ InLine' /\ Parted' /\ Ahead'
    BY <1>2 DEF OrderInv, Numbered, InHand, InLine, Increasing, Parted, Ahead
  <2>2. MappedOwned'
    BY <1>1, <1>2, OrderTypes DEF OrderInv, MappedOwned
  <2>3. LineClear'
    BY <1>2 DEF OrderInv, LineClear
  <2>4. QED
    BY <1>1, <2>1, <2>2, <2>3 DEF OrderInv
<1>3. ASSUME NEW t \in Threads, NEW w \in Workspaces, Claim(t, w) PROVE OrderInv'
  <2>1. /\ UNCHANGED <<deferred, ready, step, line, mapped, read, last>>
        /\ owners' = Remember(owners, t, w) /\ owners \in OwnerMaps
        /\ overtaken' = IF Overtaken(t) THEN overtaken \cup {t} ELSE overtaken
    BY <1>1, <1>3, OrderTypes DEF Claim, fateVars
  <2>2. \A u \in Threads : /\ owners[u] # NoOwner => owners'[u] # NoOwner
                           /\ u # t \/ owners[u] # NoOwner => owners'[u] = owners[u]
    BY <2>1 DEF Remember, OwnerMaps
  <2>3. ASSUME step \in {"emit", "dispatch"}, line.kind \in Notifications,
               line.thread \notin overtaken'
        PROVE  owners'[line.thread] = owners[line.thread]
    <3>1. line.thread \in Threads
      BY <1>1, <2>3, OrderTypes
    <3>2. line.thread = t => owners[t] # NoOwner
      BY <2>1, <2>3 DEF Overtaken
    <3>3. QED
      BY <2>2, <3>1, <3>2
  <2>4. overtaken \subseteq overtaken'
    BY <2>1
  <2>5. QED
    BY <1>2, <2>1, <2>2, <2>3, <2>4
<1>4. CASE UNCHANGED <<deferred, ready, step, line, mapped, read, last, owners, overtaken>>
  BY <1>2, <1>4
<1>5. QED
  BY <1>3, <1>4, OrderRoute, OrderFlush, OrderEmit, OrderDispatch
     DEF Next, Start, Register, Unregister, AddCallback, RemoveCallback, vars, routeVars, fateVars

\* A thread's notifications reach the frontend in the order they were read, unless
\* a caller claimed it after the flush for a line of its and before the line's
\* dispatch (app_server.rs:1367-1390).
THEOREM OrderKept == Spec => DeliveredInOrder
<1>1. OrderInv /\ [Next]_vars => [\A t \in Threads \ overtaken' : last'[t] >= last[t]]_vars
  <2> SUFFICES ASSUME OrderInv, Next, NEW t \in Threads \ overtaken'
               PROVE  last'[t] >= last[t]
    OBVIOUS
  <2>0. TypeInv /\ last \in [Threads -> Nat] /\ read \in Nat
    BY OrderTypes DEF OrderInv
  <2>1. CASE last' = last
    BY <2>0, <2>1
  <2>2. CASE EmitReady
    <3>1. ready # <<>> /\ ready \in Seq(Line) /\ t \notin overtaken
      BY <2>0, <2>2, OrderTypes DEF EmitReady, Emitting
    <3>2. 1 \in DOMAIN ready /\ Head(ready) = ready[1]
      BY <3>1
    <3>3. ready[1].thread = t => last[t] < ready[1].n /\ ready[1].n \in Nat
      BY <2>0, <3>1, <3>2, OrderTypes DEF OrderInv, Ahead
    <3>4. last' \in {last, [last EXCEPT ![ready[1].thread] = ready[1].n]}
      BY <2>2, <3>2 DEF EmitReady, Delivered
    <3>5. last'[t] = last[t] \/ (ready[1].thread = t /\ last'[t] = ready[1].n)
      BY <2>0, <3>4
    <3>6. QED
      BY <2>0, <3>3, <3>5
  <2>3. CASE Dispatch /\ line.kind \in Notifications /\ Delivered(line)
    <3>1. /\ line.thread \in Threads /\ line.n = read /\ last[line.thread] + InHand <= read
          /\ InHand \in {0, 1}
      BY <2>0, <2>3, OrderTypes DEF OrderInv, Numbered, InHand, Dispatch
    <3>2. last'[t] = IF t = line.thread THEN read ELSE last[t]
      BY <2>0, <2>3, <3>1 DEF Delivered
    <3>3. QED
      BY <2>0, <3>1, <3>2
  <2>4. QED
    BY <2>1, <2>2, <2>3
       DEF Next, Route, Flush, Dispatch, Claim, Start, Register, Unregister, AddCallback,
           RemoveCallback, fateVars
<1>2. Init => OrderInv
  BY InvInit DEF Init, OrderInv, Numbered, InHand, InLine, Increasing, Parted, Ahead,
                 MappedOwned, LineClear
<1>3. QED
  BY <1>1, <1>2, OrderNext, PTL DEF Spec, DeliveredInOrder
=============================================================================
