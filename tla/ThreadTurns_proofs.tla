-------------------------- MODULE ThreadTurns_proofs --------------------------
(* What ThreadTurns promises, for any messages, continuations and number of    *)
(* stops: a stop holds against the timer; and to a user who waits for what is  *)
(* on its way the thread shows what the app-server does and is recorded so.    *)
EXTENDS ThreadTurns, TLAPS

-----------------------------------------------------------------------------
(* Types. *)

Replies == {"accepted", "refused", "notFound", "steered", "stale"}
OfTurns == Replies \cup {"started", "active", "completed", "error", "idle"}
Ways    == {"completed", "interrupted", "failed"}

Lines == [kind : OfTurns \cup {"closed", "stopped", "unstopped"}, turn : Turns \cup {None},
          how : Ways \cup {"", "willRetry"}]

\* Every line is of a turn or a call, but for the ends of the thread and of a stop.
IsLine(l) ==
  /\ l \in Lines
  /\ IF l.kind \in OfTurns THEN l.turn \in Turns ELSE l.turn = None
  /\ l.kind \in {"completed", "idle"} => l.how \in Ways

WireOK == wire \in Seq(Lines) /\ \A i \in DOMAIN wire : IsLine(wire[i])

Typed == TypeOK /\ WireOK

MaybeTurns == Turns \cup {None}

RefSet ==
  [known : Turns \cup {Unset, None}, adopted : Turns \cup {Unset, None},
   ahead : BOOLEAN, continues : BOOLEAN, pendingStop : BOOLEAN,
   execution : Turns \cup {None}, finalized : Turns \cup {None}]

\* Two pieces in a row.
LEMMA Joined ==
  ASSUME NEW S, NEW a \in Seq(S), NEW b \in Seq(S)
  PROVE  /\ a \o b \in Seq(S) /\ DOMAIN (a \o b) = 1 .. Len(a) + Len(b)
         /\ Len(a \o b) = Len(a) + Len(b)
         /\ \A j \in 1 .. Len(a) : (a \o b)[j] = a[j]
         /\ \A j \in 1 .. Len(b) : (a \o b)[Len(a) + j] = b[j]
OBVIOUS

\* What is left of a sequence without one of its places.
LEMMA Removal ==
  ASSUME NEW S, NEW s \in Seq(S), NEW i \in DOMAIN s
  PROVE  /\ RemoveAt(s, i) \in Seq(S) /\ Len(RemoveAt(s, i)) = Len(s) - 1
         /\ \A j \in 1 .. Len(s) - 1 : RemoveAt(s, i)[j] = IF j < i THEN s[j] ELSE s[j + 1]
<1> DEFINE l == SubSeq(s, 1, i - 1)
           r == SubSeq(s, i + 1, Len(s))
<1>1. /\ l \in Seq(S) /\ Len(l) = i - 1
      /\ \A j \in 1 .. (i - 1) : l[j] = s[j]
  OBVIOUS
<1>2. /\ r \in Seq(S) /\ Len(r) = Len(s) - i
      /\ \A j \in 1 .. (Len(s) - i) : r[j] = s[i + j]
  OBVIOUS
<1>3. RemoveAt(s, i) = l \o r
  BY DEF RemoveAt
<1>4. i \in Nat /\ Len(s) \in Nat /\ i >= 1 /\ i <= Len(s)
  OBVIOUS
<1> HIDE DEF l, r
<1>5. /\ l \o r \in Seq(S) /\ Len(l \o r) = Len(l) + Len(r)
      /\ \A j \in 1 .. Len(l) : (l \o r)[j] = l[j]
      /\ \A j \in 1 .. Len(r) : (l \o r)[Len(l) + j] = r[j]
  <2>1. l \in Seq(S) /\ r \in Seq(S)
    BY <1>1, <1>2
  <2>2. QED
    BY <2>1, Joined
<1>6. ASSUME NEW j \in 1 .. Len(s) - 1
      PROVE  (l \o r)[j] = IF j < i THEN s[j] ELSE s[j + 1]
  <2>1. CASE j < i
    <3>1. j \in 1 .. i - 1
      BY <1>4, <2>1
    <3>2. QED
      BY <1>1, <1>5, <2>1, <3>1
  <2>2. CASE ~(j < i)
    <3> DEFINE m == j - (i - 1)
    <3>1. m \in 1 .. (Len(s) - i) /\ i + m = j + 1 /\ (i - 1) + m = j
      BY <1>4, <2>2
    <3> HIDE DEF m
    <3>2. (l \o r)[j] = r[m]
      BY <1>1, <1>2, <1>5, <3>1
    <3>3. QED
      BY <1>2, <2>2, <3>1, <3>2
  <2>3. QED
    BY <2>1, <2>2
<1>7. Len(l \o r) = Len(s) - 1
  BY <1>1, <1>2, <1>4, <1>5
<1>8. QED
  BY <1>3, <1>5, <1>6, <1>7

\* One line is taken from the stream: the first, or the turn/started behind its
\* own reply.
LEMMA Taken ==
  ASSUME WireOK, NEW i, NEW kind, Arrives(i, kind)
  PROVE  /\ i \in DOMAIN wire /\ DOMAIN wire = 1 .. Len(wire) /\ Len(wire) \in Nat
         /\ wire[i].kind = kind /\ IsLine(wire[i])
         /\ \/ i = 1
            \/ /\ i = 2 /\ wire[1].kind = "accepted"
               /\ wire[2].kind = "started" /\ wire[2].turn = wire[1].turn
         /\ wire' \in Seq(Lines) /\ DOMAIN wire' = 1 .. Len(wire) - 1 /\ WireOK'
         /\ \A j \in DOMAIN wire' :
              /\ j < i => j \in DOMAIN wire /\ wire'[j] = wire[j]
              /\ j >= i => j + 1 \in DOMAIN wire /\ wire'[j] = wire[j + 1]
         /\ \A j \in DOMAIN wire :
              /\ j < i => j \in DOMAIN wire' /\ wire'[j] = wire[j]
              /\ j > i => j - 1 \in DOMAIN wire' /\ wire'[j - 1] = wire[j]
<1>1. i \in DOMAIN wire /\ wire' = RemoveAt(wire, i) /\ MayArrive(i) /\ wire[i].kind = kind
  BY DEF Arrives
<1>2. wire \in Seq(Lines) /\ \A j \in DOMAIN wire : IsLine(wire[j])
  BY DEF WireOK
<1>3. DOMAIN wire = 1 .. Len(wire) /\ Len(wire) \in Nat
  BY <1>2
<1>4. /\ wire' \in Seq(Lines) /\ Len(wire') = Len(wire) - 1
      /\ \A j \in 1 .. Len(wire) - 1 : wire'[j] = IF j < i THEN wire[j] ELSE wire[j + 1]
  BY <1>1, <1>2, Removal
<1>5. DOMAIN wire' = 1 .. Len(wire) - 1
  BY <1>4
<1>6. \A j \in DOMAIN wire' :
              /\ j < i => j \in DOMAIN wire /\ wire'[j] = wire[j]
              /\ j >= i => j + 1 \in DOMAIN wire /\ wire'[j] = wire[j + 1]
  BY <1>1, <1>3, <1>4, <1>5
<1>7. \A j \in DOMAIN wire :
              /\ j < i => j \in DOMAIN wire' /\ wire'[j] = wire[j]
              /\ j > i => j - 1 \in DOMAIN wire' /\ wire'[j - 1] = wire[j]
  BY <1>1, <1>3, <1>4, <1>5
<1>8. \A j \in DOMAIN wire' : IsLine(wire'[j])
  <2> SUFFICES ASSUME NEW j \in DOMAIN wire' PROVE IsLine(wire'[j])
    OBVIOUS
  <2>1. j < i \/ j >= i
    BY <1>1, <1>3, <1>5
  <2>2. \E m \in DOMAIN wire : wire'[j] = wire[m]
    BY <1>6, <2>1
  <2>3. QED
    BY <1>2, <2>2
<1>9. WireOK'
  BY <1>4, <1>8 DEF WireOK, IsLine
<1>10. ASSUME i # 1
       PROVE  /\ i = 2 /\ wire[1].kind = "accepted"
              /\ wire[2].kind = "started" /\ wire[2].turn = wire[1].turn
  <2>1. i = 2 /\ wire[1].kind = "accepted" /\ wire[2] = Line("started", wire[1].turn, "")
    BY <1>1, <1>10, Zenon DEF MayArrive
  <2>2. ASSUME NEW t PROVE Line("started", t, "").kind = "started" /\ Line("started", t, "").turn = t
    BY Zenon DEF Line
  <2>3. QED
    BY <2>1, <2>2, Zenon
<1>11. QED
  BY <1>1, <1>2, <1>3, <1>4, <1>5, <1>6, <1>7, <1>9, <1>10

\* Lines are added behind the others.
LEMMA Added ==
  ASSUME WireOK, NEW lines \in Seq(Lines), \A j \in DOMAIN lines : IsLine(lines[j]), Emits(lines)
  PROVE  /\ DOMAIN wire = 1 .. Len(wire) /\ Len(wire) \in Nat
         /\ DOMAIN lines = 1 .. Len(lines) /\ Len(lines) \in Nat
         /\ DOMAIN wire' = 1 .. Len(wire) + Len(lines) /\ WireOK'
         /\ \A j \in DOMAIN wire : j \in DOMAIN wire' /\ wire'[j] = wire[j]
         /\ \A j \in DOMAIN lines :
              Len(wire) + j \in DOMAIN wire' /\ wire'[Len(wire) + j] = lines[j]
         /\ \A j \in DOMAIN wire' :
              j \notin DOMAIN wire => j - Len(wire) \in DOMAIN lines /\ wire'[j] = lines[j - Len(wire)]
<1>1. wire \in Seq(Lines) /\ wire' = wire \o lines /\ \A j \in DOMAIN wire : IsLine(wire[j])
  BY DEF WireOK, Emits
<1>2. /\ DOMAIN wire = 1 .. Len(wire) /\ Len(wire) \in Nat
      /\ DOMAIN lines = 1 .. Len(lines) /\ Len(lines) \in Nat
  BY <1>1
<1>3. /\ wire' \in Seq(Lines) /\ DOMAIN wire' = 1 .. Len(wire) + Len(lines)
      /\ \A j \in 1 .. Len(wire) + Len(lines) :
           wire'[j] = IF j <= Len(wire) THEN wire[j] ELSE lines[j - Len(wire)]
  BY <1>1
<1>4. \A j \in DOMAIN wire : j \in DOMAIN wire' /\ wire'[j] = wire[j]
  BY <1>2, <1>3
<1>5. \A j \in DOMAIN lines :
              Len(wire) + j \in DOMAIN wire' /\ wire'[Len(wire) + j] = lines[j]
  BY <1>2, <1>3
<1>6. \A j \in DOMAIN wire' :
              j \notin DOMAIN wire => j - Len(wire) \in DOMAIN lines /\ wire'[j] = lines[j - Len(wire)]
  BY <1>2, <1>3
<1>7. \A j \in DOMAIN wire' : IsLine(wire'[j])
  BY <1>1, <1>4, <1>6
<1>8. QED
  BY <1>2, <1>3, <1>4, <1>5, <1>6, <1>7 DEF WireOK, IsLine

-----------------------------------------------------------------------------
(* Which turn is active. *)

\* The turn that refs r name when the last commit showed s.
KnownAt(r, s) ==
  IF r.known = Unset \/ ((~r.ahead \/ r.adopted # Unset) /\ r.adopted # s) THEN s
  ELSE r.known

\* The refs that a look leaves differ in what is known, what was adopted and whether
\* it is ahead.
SameBut(l, r) ==
  /\ l.continues = r.continues /\ l.pendingStop = r.pendingStop
  /\ l.execution = r.execution /\ l.finalized = r.finalized

\* Adopting takes what is shown when that has changed, and leaves the rest.
LEMMA AdoptKeeps ==
  ASSUME TypeOK, NEW r \in RefSet
  PROVE  /\ Adopt(r) \in RefSet /\ SameBut(Adopt(r), r)
         /\ Adopt(r).adopted = shown.active /\ Adopt(r).ahead = r.ahead
         /\ Adopt(r).known = IF r.adopted = shown.active THEN r.known ELSE shown.active
BY DEF Adopt, RefSet, SameBut, TypeOK

\* Looking finds what the last commit showed or what was known, and looking again
\* finds it again.
LEMMA Looks ==
  ASSUME TypeOK
  PROVE  /\ LookUp(refs) \in RefSet /\ SameBut(LookUp(refs), refs)
         /\ LookUp(refs).adopted = shown.active
         /\ LookUp(refs).known \in {refs.known, shown.active}
         /\ KnownTurn(refs) = KnownAt(refs, shown.active)
         /\ KnownTurn(refs) \in MaybeTurns
         /\ KnownAt(LookUp(refs), shown.active) = KnownTurn(refs)
         /\ \A s \in MaybeTurns : KnownAt(LookUp(refs), s) \in {s, KnownTurn(refs)}
<1> DEFINE l == LookUp(refs)
           caught == [refs EXCEPT !.ahead = FALSE]
           moved == [refs EXCEPT !.ahead = FALSE, !.known = shown.active]
<1>1. refs \in RefSet /\ shown.active \in MaybeTurns /\ Unset \notin MaybeTurns
  BY TurnsAssumption DEF TypeOK, RefSet, MaybeTurns, Turns
<1>2. caught \in RefSet /\ SameBut(caught, refs) /\ caught.known = refs.known
      /\ caught.ahead = FALSE /\ caught.adopted = refs.adopted
  BY <1>1 DEF RefSet, SameBut
<1>3. moved \in RefSet /\ SameBut(moved, refs) /\ moved.known = shown.active
      /\ moved.ahead = FALSE /\ moved.adopted = refs.adopted
  BY <1>1 DEF RefSet, SameBut, MaybeTurns
<1> DEFINE Facts ==
      /\ l \in RefSet /\ SameBut(l, refs) /\ l.adopted = shown.active
      /\ l.known \in {refs.known, shown.active}
      /\ refs.known # Unset => l.known = KnownAt(refs, shown.active)
      /\ refs.known = Unset => l.known \in {Unset, shown.active}
      /\ l.ahead => refs.known # Unset \/ refs.ahead
<1>4. Facts
  <2>1. CASE ~refs.ahead \/ refs.known = Unset
    <3>1. l = Adopt(refs)
      BY <2>1 DEF LookUp
    <3>2. l \in RefSet /\ SameBut(l, refs) /\ l.adopted = shown.active /\ l.ahead = refs.ahead
          /\ l.known = IF refs.adopted = shown.active THEN refs.known ELSE shown.active
      BY <1>1, <3>1, AdoptKeeps
    <3> HIDE DEF l
    <3>3. QED
      BY <2>1, <3>2 DEF KnownAt
  <2>2. CASE ~(~refs.ahead \/ refs.known = Unset) /\ shown.active = refs.known
    <3>1. l = Adopt(caught)
      BY <2>2 DEF LookUp
    <3> HIDE DEF l, caught
    <3>2. l \in RefSet /\ SameBut(l, caught) /\ l.adopted = shown.active /\ l.ahead = FALSE
          /\ l.known = IF caught.adopted = shown.active THEN caught.known ELSE shown.active
      BY <1>2, <3>1, AdoptKeeps
    <3>3. QED
      BY <1>2, <2>2, <3>2 DEF KnownAt, SameBut
  <2>3. CASE /\ ~(~refs.ahead \/ refs.known = Unset) /\ shown.active # refs.known
             /\ refs.adopted # Unset /\ shown.active # refs.adopted
    <3>1. l = Adopt(moved)
      BY <2>3 DEF LookUp
    <3> HIDE DEF l, moved
    <3>2. l \in RefSet /\ SameBut(l, moved) /\ l.adopted = shown.active /\ l.ahead = FALSE
          /\ l.known = IF moved.adopted = shown.active THEN moved.known ELSE shown.active
      BY <1>3, <3>1, AdoptKeeps
    <3>3. QED
      BY <1>3, <2>3, <3>2 DEF KnownAt, SameBut
  <2>4. CASE /\ ~(~refs.ahead \/ refs.known = Unset) /\ shown.active # refs.known
             /\ ~(refs.adopted # Unset /\ shown.active # refs.adopted)
    <3>1. l = [refs EXCEPT !.adopted = shown.active]
      BY <2>4 DEF LookUp
    <3>2. l \in RefSet /\ SameBut(l, refs) /\ l.adopted = shown.active /\ l.ahead = refs.ahead
          /\ l.known = refs.known
      BY <1>1, <3>1 DEF RefSet, SameBut, MaybeTurns
    <3> HIDE DEF l
    <3>3. QED
      BY <2>4, <3>2 DEF KnownAt
  <2>5. QED
    BY <2>1, <2>2, <2>3, <2>4
<1>5. KnownTurn(refs) = IF refs.known = Unset THEN shown.active ELSE l.known
  BY DEF KnownTurn
<1> HIDE DEF l, caught, moved
<1>6. KnownTurn(refs) = KnownAt(refs, shown.active)
  BY <1>4, <1>5 DEF KnownAt
<1>7. KnownTurn(refs) \in MaybeTurns
  BY <1>1, <1>6 DEF KnownAt, RefSet, MaybeTurns
<1>8. KnownAt(l, shown.active) = KnownTurn(refs)
  BY <1>1, <1>4, <1>6 DEF KnownAt
<1>9. ASSUME NEW s \in MaybeTurns PROVE KnownAt(l, s) \in {s, KnownTurn(refs)}
  BY <1>1, <1>4, <1>5 DEF KnownAt
<1>10. QED
  BY <1>4, <1>6, <1>7, <1>8, <1>9 DEF l

\* What is known does not depend on the other refs.
LEMMA SameKnown ==
  ASSUME NEW r, NEW l, r.known = l.known, r.ahead = l.ahead, r.adopted = l.adopted, NEW s
  PROVE  KnownAt(r, s) = KnownAt(l, s)
BY DEF KnownAt

-----------------------------------------------------------------------------
(* Type correctness. *)

\* Lines of turns and calls are well formed,
LEMMA LineIs ==
  ASSUME NEW kind \in OfTurns, NEW t \in Turns, NEW how \in Ways \cup {"", "willRetry"},
         kind \in {"completed", "idle"} => how \in Ways
  PROVE  IsLine(Line(kind, t, how))
BY DEF IsLine, Line, Lines

\* and so are those of the thread and of a stop.
LEMMA BareLineIs ==
  ASSUME NEW kind \in {"closed", "stopped", "unstopped"}
  PROVE  IsLine(Line(kind, None, ""))
BY DEF IsLine, Line, Lines, OfTurns, Replies

\* What a turn's end says.
LEMMA OverSays ==
  ASSUME running \in Turns, NEW how \in Ways
  PROVE  /\ Over(how) \in Seq(Lines) /\ DOMAIN Over(how) = 1 .. 2
         /\ Over(how)[1] = Line("completed", running, how)
         /\ Over(how)[2] = Line("idle", running, "completed")
         /\ \A j \in DOMAIN Over(how) : IsLine(Over(how)[j])
<1> DEFINE a == Line("completed", running, how)
           b == Line("idle", running, "completed")
<1>1. IsLine(a) /\ IsLine(b)
  BY LineIs DEF OfTurns, Ways
<1>2. a \in Lines /\ b \in Lines
  BY <1>1 DEF IsLine
<1>3. Over(how) = <<a, b>>
  BY DEF Over
<1> HIDE DEF a, b
<1>4. <<a, b>> \in Seq(Lines) /\ DOMAIN <<a, b>> = 1 .. 2 /\ <<a, b>>[1] = a /\ <<a, b>>[2] = b
  BY <1>2
<1>5. \A j \in 1 .. 2 : j = 1 \/ j = 2
  OBVIOUS
<1>6. QED
  BY <1>1, <1>3, <1>4, <1>5 DEF a, b

\* Every end of a turn is told by lines that close with the status, the thread's
\* end, or an answer to the stop; only a process that is gone tells less.
EndLines(lines) ==
  /\ lines \in Seq(Lines) /\ lines # <<>> /\ \A j \in DOMAIN lines : IsLine(lines[j])
  /\ \A j \in DOMAIN lines :
       /\ lines[j].kind \in {"completed", "error", "idle", "closed", "stopped"}
       /\ lines[j].kind = "error" => lines[j].how # "willRetry"
       /\ lines[j].kind \in OfTurns => lines[j].turn = running

Closing(lines) ==
  /\ \E j \in DOMAIN lines : lines[j].kind \in {"idle", "closed"}
  /\ \A j \in DOMAIN lines : lines[j].kind \in {"completed", "error"} =>
       \E m \in DOMAIN lines : m > j /\ lines[m].kind = "idle"

\* A turn that ends is told so.
LEMMA EndEnds ==
  ASSUME Typed, End
  PROVE  \E lines : EndLines(lines) /\ Closing(lines) /\ Emits(lines)
<1>1. running \in Turns
  BY DEF Typed, TypeOK, End
<1>2. Emits(Over("completed"))
  BY DEF End
<1> DEFINE o == Over("completed")
<1>3. /\ o \in Seq(Lines) /\ DOMAIN o = 1 .. 2
      /\ o[1] = Line("completed", running, "completed")
      /\ o[2] = Line("idle", running, "completed")
      /\ \A j \in DOMAIN o : IsLine(o[j])
  BY <1>1, OverSays DEF Ways
<1> HIDE DEF o
<1>4. EndLines(o) /\ Closing(o)
  BY <1>3 DEF EndLines, Closing, Line
<1>5. QED
  BY <1>2, <1>4 DEF o

\* So is a failure, unless the process is gone.
LEMMA FailEnds ==
  ASSUME Typed, Fail
  PROVE  \E lines : EndLines(lines) /\ (calm' => Closing(lines)) /\ Emits(lines)
<1>1. running \in Turns
  BY DEF Typed, TypeOK, Fail
<1> DEFINE o == Over("failed")
           e == Line("error", running, "")
           s == Line("idle", running, "failed")
<1>2. \/ Emits(<<e>> \o o) \/ Emits(<<e>> \o <<s>>)
      \/ Emits(<<e>>) /\ calm' = FALSE
  BY DEF Fail
<1>3. /\ o \in Seq(Lines) /\ DOMAIN o = 1 .. 2
      /\ o[1] = Line("completed", running, "failed")
      /\ o[2] = Line("idle", running, "completed")
      /\ \A j \in DOMAIN o : IsLine(o[j])
  BY <1>1, OverSays DEF Ways
<1>4. IsLine(e) /\ IsLine(s) /\ e \in Lines /\ s \in Lines
  <2>1. IsLine(e) /\ IsLine(s)
    BY <1>1, LineIs DEF OfTurns, Ways
  <2>2. QED
    BY <2>1 DEF IsLine
<1>5. /\ e.kind = "error" /\ e.how = "" /\ e.turn = running
      /\ s.kind = "idle" /\ s.turn = running
      /\ o[1].kind = "completed" /\ o[1].turn = running
      /\ o[2].kind = "idle" /\ o[2].turn = running
  BY <1>3 DEF Line
<1> HIDE DEF o, e, s
<1>6. CASE Emits(<<e>> \o o)
  <2> DEFINE l == <<e>> \o o
  <2>1. /\ l \in Seq(Lines) /\ DOMAIN l = 1 .. 3 /\ l[1] = e /\ l[2] = o[1] /\ l[3] = o[2]
    <3> DEFINE q == <<e>>
    <3>1. Len(o) = 2 /\ q \in Seq(Lines) /\ Len(q) = 1 /\ q[1] = e
      BY <1>3, <1>4
    <3> HIDE DEF q
    <3>2. /\ q \o o \in Seq(Lines) /\ DOMAIN (q \o o) = 1 .. Len(q) + Len(o)
          /\ \A j \in 1 .. Len(q) : (q \o o)[j] = q[j]
          /\ \A j \in 1 .. Len(o) : (q \o o)[Len(q) + j] = o[j]
      <4>1. o \in Seq(Lines) /\ q \in Seq(Lines)
        BY <1>3, <3>1
      <4>2. QED
        BY <4>1, Joined
    <3>3. 1 \in 1 .. Len(q) /\ 1 \in 1 .. Len(o) /\ 2 \in 1 .. Len(o)
      BY <3>1
    <3>4. (q \o o)[1] = e /\ (q \o o)[Len(q) + 1] = o[1] /\ (q \o o)[Len(q) + 2] = o[2]
      BY <3>1, <3>2, <3>3
    <3>5. Len(q) + 1 = 2 /\ Len(q) + 2 = 3 /\ Len(q) + Len(o) = 3
      BY <3>1
    <3>6. QED
      BY <3>2, <3>4, <3>5 DEF q
  <2> HIDE DEF l
  <2>2. l # <<>> /\ \A j \in 1 .. 3 : j = 1 \/ j = 2 \/ j = 3
    BY <2>1
  <2>3. EndLines(l)
    <3>1. IsLine(o[1]) /\ IsLine(o[2])
      BY <1>3
    <3>2. QED
      BY <1>4, <1>5, <2>1, <2>2, <3>1 DEF EndLines
  <2>4. Closing(l)
    <3>1. 3 \in DOMAIN l
      BY <2>1
    <3>2. l[3].kind = "idle"
      <4>1. l[3] = o[2]
        BY <2>1
      <4>2. QED
        BY <1>5, <4>1
    <3>3. \A j \in DOMAIN l : j # 3 => 3 > j
      BY <2>1, <2>2
    <3>4. l[3].kind \notin {"completed", "error"}
      BY <3>2
    <3>5. QED
      BY <3>1, <3>2, <3>3, <3>4 DEF Closing
  <2>5. QED
    BY <1>6, <2>3, <2>4 DEF l
<1>7. CASE Emits(<<e>> \o <<s>>)
  <2> DEFINE l == <<e>> \o <<s>>
  <2>1. /\ l \in Seq(Lines) /\ DOMAIN l = 1 .. 2 /\ l[1] = e /\ l[2] = s
    BY <1>4
  <2> HIDE DEF l
  <2>2. l # <<>> /\ \A j \in 1 .. 2 : j = 1 \/ j = 2
    BY <2>1
  <2>3. EndLines(l)
    BY <1>4, <1>5, <2>1, <2>2 DEF EndLines
  <2>4. Closing(l)
    <3>1. 2 \in DOMAIN l
      BY <2>1
    <3>2. l[2].kind = "idle"
      <4>1. l[2] = s
        BY <2>1
      <4>2. QED
        BY <1>5, <4>1
    <3>3. \A j \in DOMAIN l : j # 2 => 2 > j
      BY <2>1, <2>2
    <3>4. l[2].kind \notin {"completed", "error"}
      BY <3>2
    <3>5. QED
      BY <3>1, <3>2, <3>3, <3>4 DEF Closing
  <2>5. QED
    BY <1>7, <2>3, <2>4 DEF l
<1>8. CASE Emits(<<e>>) /\ calm' = FALSE
  <2> DEFINE l == <<e>>
  <2>1. l \in Seq(Lines) /\ DOMAIN l = 1 .. 1 /\ l[1] = e /\ l # <<>>
    BY <1>4
  <2> HIDE DEF l
  <2>2. \A j \in 1 .. 1 : j = 1
    OBVIOUS
  <2>3. EndLines(l)
    BY <1>4, <1>5, <2>1, <2>2 DEF EndLines
  <2>4. QED
    BY <1>8, <2>3 DEF l
<1>9. QED
  BY <1>2, <1>6, <1>7, <1>8

\* An interruption that meets the turn ends it, and one that does not says at most
\* that there was nothing to stop.
LEMMA InterruptEnds ==
  ASSUME Typed, NEW o, Interrupt(o)
  PROVE  \/ /\ running # None /\ running' = None
            /\ \E lines : EndLines(lines) /\ Closing(lines) /\ Emits(lines)
         \/ /\ running' = running /\ o # running /\ (o = Pending => running = None)
            /\ \/ wire' = wire
               \/ Emits(<<Line("unstopped", None, "")>>)
<1> DEFINE hit == running # None /\ o \in {running, Pending}
           reply == IF o # stop THEN <<>>
                    ELSE <<Line(IF hit THEN "stopped" ELSE "unstopped", None, "")>>
           p == Over("interrupted")
           s == Line("stopped", None, "")
<1>1. /\ Emits(IF hit THEN p \o reply ELSE reply)
      /\ running' = IF hit THEN None ELSE running
  BY DEF Interrupt
<1>2. running \in MaybeTurns /\ wire \in Seq(Lines) /\ o \in Turns \cup {Pending}
  BY DEF Typed, TypeOK, WireOK, MaybeTurns, Interrupt
<1>3. CASE hit
  <2>1. running \in Turns
    BY <1>2, <1>3 DEF MaybeTurns
  <2>2. /\ p \in Seq(Lines) /\ DOMAIN p = 1 .. 2
        /\ p[1] = Line("completed", running, "interrupted")
        /\ p[2] = Line("idle", running, "completed")
        /\ \A j \in DOMAIN p : IsLine(p[j])
    BY <2>1, OverSays DEF Ways
  <2>3. IsLine(s) /\ s \in Lines
    <3>1. IsLine(s)
      BY BareLineIs
    <3>2. QED
      BY <3>1 DEF IsLine
  <2>4. /\ p[1].kind = "completed" /\ p[1].turn = running
        /\ p[2].kind = "idle" /\ p[2].turn = running
        /\ s.kind = "stopped"
    BY <2>2 DEF Line
  <2>5. reply = <<>> \/ reply = <<s>>
    BY <1>3
  <2>6. Emits(p \o reply)
    BY <1>1, <1>3
  <2> HIDE DEF p, s, reply
  <2>7. CASE reply = <<>>
    <3>1. p \o reply = p
      BY <2>2, <2>7
    <3>2. p # <<>> /\ \A j \in 1 .. 2 : j = 1 \/ j = 2
      BY <2>2
    <3>3. EndLines(p)
      BY <2>2, <2>4, <3>2 DEF EndLines
    <3>4. Closing(p)
      <4>1. 2 \in DOMAIN p /\ p[2].kind = "idle"
        BY <2>2, <2>4
      <4>2. \A j \in DOMAIN p : j # 2 => 2 > j
        BY <2>2, <3>2
      <4>3. QED
        BY <4>1, <4>2 DEF Closing
    <3>5. QED
      BY <1>1, <1>3, <2>6, <3>1, <3>3, <3>4
  <2>8. CASE reply = <<s>>
    <3> DEFINE l == p \o <<s>>
    <3>1. /\ l \in Seq(Lines) /\ DOMAIN l = 1 .. 3 /\ l[1] = p[1] /\ l[2] = p[2] /\ l[3] = s
      <4> DEFINE q == <<s>>
      <4>1. Len(p) = 2 /\ q \in Seq(Lines) /\ Len(q) = 1 /\ q[1] = s
        BY <2>2, <2>3
      <4> HIDE DEF q
      <4>2. /\ p \o q \in Seq(Lines) /\ DOMAIN (p \o q) = 1 .. Len(p) + Len(q)
            /\ \A j \in 1 .. Len(p) : (p \o q)[j] = p[j]
            /\ \A j \in 1 .. Len(q) : (p \o q)[Len(p) + j] = q[j]
        <5>1. p \in Seq(Lines) /\ q \in Seq(Lines)
          BY <2>2, <4>1
        <5>2. QED
          BY <5>1, Joined
      <4>3. 1 \in 1 .. Len(p) /\ 2 \in 1 .. Len(p) /\ 1 \in 1 .. Len(q)
        BY <4>1
      <4>4. (p \o q)[1] = p[1] /\ (p \o q)[2] = p[2] /\ (p \o q)[Len(p) + 1] = s
        BY <4>1, <4>2, <4>3
      <4>5. Len(p) + 1 = 3 /\ Len(p) + Len(q) = 3
        BY <4>1
      <4>6. QED
        BY <4>2, <4>4, <4>5 DEF q
    <3> HIDE DEF l
    <3>2. l # <<>> /\ \A j \in 1 .. 3 : j = 1 \/ j = 2 \/ j = 3
      <4>1. 1 \in DOMAIN l
        BY <3>1
      <4>2. QED
        BY <4>1
    <3>3. EndLines(l)
      BY <2>2, <2>3, <2>4, <3>1, <3>2 DEF EndLines, OfTurns, Replies
    <3>4. Closing(l)
      BY <2>4, <3>1, <3>2 DEF Closing
    <3>5. QED
      BY <1>1, <1>3, <2>6, <2>8, <3>3, <3>4 DEF l
  <2>9. QED
    BY <2>5, <2>7, <2>8
<1>4. CASE ~hit
  <2>1. running' = running /\ Emits(reply)
    BY <1>1, <1>4
  <2>2. o # running /\ (o = Pending => running = None)
    BY <1>2, <1>4, TurnsAssumption DEF MaybeTurns, Turns
  <2>3. reply = <<>> \/ reply = <<Line("unstopped", None, "")>>
    BY <1>4
  <2>4. reply = <<>> => wire' = wire
    <3> HIDE DEF reply
    <3>1. wire \o <<>> = wire
      BY <1>2
    <3>2. QED
      BY <2>1, <3>1 DEF Emits
  <2>5. QED
    BY <2>1, <2>2, <2>3, <2>4
<1>5. QED
  BY <1>3, <1>4

\* The thread's end is told.
LEMMA CloseEnds ==
  ASSUME Typed, Close
  PROVE  \E lines : EndLines(lines) /\ Closing(lines) /\ Emits(lines)
<1> DEFINE c == Line("closed", None, "")
           l == <<c>>
<1>1. Emits(l)
  BY DEF Close
<1>2. IsLine(c)
  BY BareLineIs
<1>3. c \in Lines /\ c.kind = "closed"
  BY <1>2 DEF IsLine, Line
<1> HIDE DEF c
<1>4. l \in Seq(Lines) /\ DOMAIN l = 1 .. 1 /\ l[1] = c /\ l # <<>>
  BY <1>3
<1> HIDE DEF l
<1>5. 1 \in DOMAIN l /\ \A j \in DOMAIN l : j = 1
  BY <1>4
<1>6. EndLines(l)
  BY <1>2, <1>3, <1>4, <1>5 DEF EndLines, OfTurns, Replies
<1>7. Closing(l)
  BY <1>3, <1>4, <1>5 DEF Closing
<1>8. QED
  BY <1>1, <1>6, <1>7

\* One line is added.
LEMMA AddedOne ==
  ASSUME WireOK, NEW l, IsLine(l), Emits(<<l>>)
  PROVE  /\ DOMAIN wire = 1 .. Len(wire) /\ Len(wire) \in Nat
         /\ DOMAIN wire' = 1 .. Len(wire) + 1 /\ WireOK'
         /\ \A j \in DOMAIN wire : j \in DOMAIN wire' /\ wire'[j] = wire[j]
         /\ wire'[Len(wire) + 1] = l
         /\ \A j \in DOMAIN wire' : j \in DOMAIN wire \/ j = Len(wire) + 1
<1> DEFINE q == <<l>>
<1>1. q \in Seq(Lines) /\ DOMAIN q = 1 .. 1 /\ q[1] = l /\ Len(q) = 1
  BY DEF IsLine
<1>2. Emits(q)
  OBVIOUS
<1> HIDE DEF q
<1>3. \A j \in DOMAIN q : IsLine(q[j])
  BY <1>1
<1>4. /\ DOMAIN wire = 1 .. Len(wire) /\ Len(wire) \in Nat
      /\ DOMAIN q = 1 .. Len(q) /\ Len(q) \in Nat
      /\ DOMAIN wire' = 1 .. Len(wire) + Len(q) /\ WireOK'
      /\ \A j \in DOMAIN wire : j \in DOMAIN wire' /\ wire'[j] = wire[j]
      /\ \A j \in DOMAIN q :
           Len(wire) + j \in DOMAIN wire' /\ wire'[Len(wire) + j] = q[j]
      /\ \A j \in DOMAIN wire' :
           j \notin DOMAIN wire => j - Len(wire) \in DOMAIN q /\ wire'[j] = q[j - Len(wire)]
  BY <1>1, <1>2, <1>3, Added
<1>5. 1 \in DOMAIN q
  BY <1>1
<1>6. wire'[Len(wire) + 1] = l
  BY <1>1, <1>4, <1>5
<1>7. \A j \in DOMAIN wire' : j \in DOMAIN wire \/ j = Len(wire) + 1
  BY <1>1, <1>4
<1>8. QED
  BY <1>1, <1>4, <1>6, <1>7

\* A turn that is accepted is answered, announced and followed by the status.
LEMMA AddedStart ==
  ASSUME WireOK, NEW k \in Turns, Accept(k)
  PROVE  /\ DOMAIN wire = 1 .. Len(wire) /\ Len(wire) \in Nat
         /\ DOMAIN wire' = 1 .. Len(wire) + 3 /\ WireOK'
         /\ \A j \in DOMAIN wire : j \in DOMAIN wire' /\ wire'[j] = wire[j]
         /\ wire'[Len(wire) + 1].kind = "accepted" /\ wire'[Len(wire) + 1].turn = k
         /\ wire'[Len(wire) + 2].kind = "started" /\ wire'[Len(wire) + 2].turn = k
         /\ wire'[Len(wire) + 3].kind = "active" /\ wire'[Len(wire) + 3].turn = k
         /\ \A j \in DOMAIN wire' :
              j \in DOMAIN wire \/ j \in {Len(wire) + 1, Len(wire) + 2, Len(wire) + 3}
<1> DEFINE a == Line("accepted", k, "")
           b == Line("started", k, "")
           c == Line("active", k, "")
           q == <<a, b, c>>
<1>1. IsLine(a) /\ IsLine(b) /\ IsLine(c)
  BY LineIs DEF OfTurns, Replies
<1>2. Emits(q)
  BY DEF Accept
<1>3. /\ a.kind = "accepted" /\ b.kind = "started" /\ c.kind = "active"
      /\ a.turn = k /\ b.turn = k /\ c.turn = k
  BY Zenon DEF Line
<1> HIDE DEF a, b, c
<1>4. q \in Seq(Lines) /\ DOMAIN q = 1 .. 3 /\ q[1] = a /\ q[2] = b /\ q[3] = c /\ Len(q) = 3
  BY <1>1 DEF IsLine
<1> HIDE DEF q
<1>5. \A j \in 1 .. 3 : j = 1 \/ j = 2 \/ j = 3
  OBVIOUS
<1>6. \A j \in DOMAIN q : IsLine(q[j])
  BY <1>1, <1>4, <1>5
<1>7. /\ DOMAIN wire = 1 .. Len(wire) /\ Len(wire) \in Nat
      /\ DOMAIN q = 1 .. Len(q) /\ Len(q) \in Nat
      /\ DOMAIN wire' = 1 .. Len(wire) + Len(q) /\ WireOK'
      /\ \A j \in DOMAIN wire : j \in DOMAIN wire' /\ wire'[j] = wire[j]
      /\ \A j \in DOMAIN q :
           Len(wire) + j \in DOMAIN wire' /\ wire'[Len(wire) + j] = q[j]
      /\ \A j \in DOMAIN wire' :
           j \notin DOMAIN wire => j - Len(wire) \in DOMAIN q /\ wire'[j] = q[j - Len(wire)]
  BY <1>2, <1>4, <1>6, Added
<1>8. 1 \in DOMAIN q /\ 2 \in DOMAIN q /\ 3 \in DOMAIN q
  BY <1>4
<1>9. wire'[Len(wire) + 1] = a /\ wire'[Len(wire) + 2] = b /\ wire'[Len(wire) + 3] = c
  BY <1>4, <1>7, <1>8
<1>10. \A j \in DOMAIN wire' :
        j \in DOMAIN wire \/ j \in {Len(wire) + 1, Len(wire) + 2, Len(wire) + 3}
  BY <1>4, <1>7
<1>11. QED
  BY <1>3, <1>4, <1>7, <1>9, <1>10

\* What the app-server says is well formed.
LEMMA ServerTyped ==
  ASSUME Typed, Server
  PROVE  WireOK'
<1>1. WireOK /\ TypeOK
  BY DEF Typed
<1>2. ASSUME \E lines : EndLines(lines) /\ Emits(lines) PROVE WireOK'
  <2>1. PICK lines : EndLines(lines) /\ Emits(lines)
    BY <1>2
  <2>2. lines \in Seq(Lines) /\ \A j \in DOMAIN lines : IsLine(lines[j])
    BY <2>1 DEF EndLines
  <2>3. QED
    BY <1>1, <2>1, <2>2, Added
<1>3. CASE End
  BY <1>2, <1>3, EndEnds
<1>4. CASE Fail
  BY <1>2, <1>4, FailEnds
<1>5. CASE Close
  BY <1>2, <1>5, CloseEnds
<1>6. CASE Retry
  <2>1. running \in Turns
    BY <1>1, <1>6 DEF TypeOK, Retry
  <2>2. IsLine(Line("error", running, "willRetry"))
    BY <2>1, LineIs DEF OfTurns
  <2>3. QED
    BY <1>1, <1>6, <2>2, AddedOne DEF Retry
<1>7. ASSUME NEW k \in Calls, Accept(k) PROVE WireOK'
  BY <1>1, <1>7, AddedStart DEF Turns
<1>8. ASSUME NEW k \in Calls, Decline(k) PROVE WireOK'
  <2>1. PICK reply \in {"refused", "notFound"} : Emits(<<Line(reply, k, "")>>)
    BY <1>8 DEF Decline
  <2>2. IsLine(Line(reply, k, ""))
    BY LineIs DEF OfTurns, Replies, Turns
  <2>3. QED
    BY <1>1, <2>1, <2>2, AddedOne
<1>9. ASSUME NEW k \in Calls, Steer(k) PROVE WireOK'
  <2>1. PICK reply \in {"steered", "stale"} : Emits(<<Line(reply, k, "")>>)
    BY <1>9 DEF Steer
  <2>2. IsLine(Line(reply, k, ""))
    BY LineIs DEF OfTurns, Replies, Turns
  <2>3. QED
    BY <1>1, <2>1, <2>2, AddedOne
<1>10. ASSUME NEW o, Interrupt(o) PROVE WireOK'
  <2>1. CASE \E lines : EndLines(lines) /\ Emits(lines)
    BY <1>2, <2>1
  <2>2. CASE wire' = wire
    BY <1>1, <2>2 DEF WireOK
  <2>3. CASE Emits(<<Line("unstopped", None, "")>>)
    BY <1>1, <2>3, AddedOne, BareLineIs
  <2>4. QED
    BY <1>10, <2>1, <2>2, <2>3, InterruptEnds
<1>11. QED
  BY <1>3, <1>4, <1>5, <1>6, <1>7, <1>8, <1>9, <1>10 DEF Server

RecordSet == [turn : Turns \cup {None}, status : {"none", "active", "completed", "interrupted", "failed"}]
ViewSet   == [processing : BOOLEAN, active : Turns \cup {None}]
AutoSet   == [enabled : BOOLEAN, timer : BOOLEAN, fence : BOOLEAN]
CallSet   == [at : CallSteps, steers : Turns \cup {None}, recovered : BOOLEAN]

\* What the steps make of the refs, field by field.
LEMMA ResetIs ==
  ASSUME NEW r \in RefSet
  PROVE  /\ Reset(r) \in RefSet /\ Reset(r).known = None /\ Reset(r).ahead = FALSE
         /\ Reset(r).adopted = r.adopted /\ Reset(r).pendingStop = FALSE
         /\ Reset(r).continues = r.continues /\ Reset(r).execution = r.execution
         /\ Reset(r).finalized = r.finalized
BY DEF Reset, RefSet

\* Finalizing notes a turn.
LEMMA FinalizedIs ==
  ASSUME NEW r \in RefSet, NEW t \in MaybeTurns
  PROVE  /\ Finalized(r, t) \in RefSet /\ Finalized(r, t).known = r.known
         /\ Finalized(r, t).ahead = r.ahead /\ Finalized(r, t).adopted = r.adopted
         /\ Finalized(r, t).pendingStop = r.pendingStop
         /\ Finalized(r, t).continues = r.continues /\ Finalized(r, t).execution = r.execution
         /\ Finalized(r, t).finalized = IF t = None THEN r.finalized ELSE t
BY DEF Finalized, RefSet, MaybeTurns

\* Whether a turn is to be continued is a ref of its own.
LEMMA ContinuesIs ==
  ASSUME NEW r \in RefSet, NEW b \in BOOLEAN, NEW l, l = [r EXCEPT !.continues = b]
  PROVE  /\ l \in RefSet /\ l.known = r.known /\ l.ahead = r.ahead /\ l.adopted = r.adopted
         /\ l.pendingStop = r.pendingStop /\ l.continues = b /\ l.execution = r.execution
         /\ l.finalized = r.finalized
BY DEF RefSet

\* What is left of the refs when a turn has ended.
EndedRefs(l, t, continues) ==
  /\ l \in RefSet /\ l.known = None /\ l.ahead = FALSE /\ l.adopted = shown.active
  /\ l.pendingStop = FALSE /\ l.continues = continues /\ l.execution = refs.execution
  /\ l.finalized = IF t = None THEN refs.finalized ELSE t

\* The three ways in which the handlers of an end leave them.
LEMMA EndsAre ==
  ASSUME TypeOK, NEW t \in MaybeTurns
  PROVE  /\ EndedRefs(Reset([Finalized(LookUp(refs), t) EXCEPT !.continues = FALSE]), t, FALSE)
         /\ EndedRefs(Reset(Finalized(LookUp(refs), t)), t, refs.continues)
         /\ EndedRefs(Reset(LookUp(refs)), None, refs.continues)
<1> DEFINE l == LookUp(refs)
           f == Finalized(l, t)
           c == [f EXCEPT !.continues = FALSE]
<1>1. l \in RefSet /\ SameBut(l, refs) /\ l.adopted = shown.active
  BY Looks
<1> HIDE DEF l
<1>2. /\ f \in RefSet /\ f.known = l.known /\ f.ahead = l.ahead /\ f.adopted = l.adopted
      /\ f.pendingStop = l.pendingStop /\ f.continues = l.continues /\ f.execution = l.execution
      /\ f.finalized = IF t = None THEN l.finalized ELSE t
  BY <1>1, FinalizedIs
<1> HIDE DEF f
<1>3. /\ c \in RefSet /\ c.adopted = f.adopted /\ c.pendingStop = f.pendingStop
      /\ c.continues = FALSE /\ c.execution = f.execution /\ c.finalized = f.finalized
  <2>1. f \in RefSet
    BY <1>2
  <2>2. c = [f EXCEPT !.continues = FALSE]
    OBVIOUS
  <2> HIDE DEF c
  <2>3. QED
    BY <2>1, <2>2, ContinuesIs
<1> HIDE DEF c
<1>4. EndedRefs(Reset(c), t, FALSE)
  <2>1. /\ Reset(c) \in RefSet /\ Reset(c).known = None /\ Reset(c).ahead = FALSE
        /\ Reset(c).adopted = c.adopted /\ Reset(c).pendingStop = FALSE
        /\ Reset(c).continues = c.continues /\ Reset(c).execution = c.execution
        /\ Reset(c).finalized = c.finalized
    BY <1>3, ResetIs
  <2>2. QED
    BY <1>1, <1>2, <1>3, <2>1 DEF EndedRefs, SameBut
<1>5. EndedRefs(Reset(f), t, refs.continues)
  BY <1>1, <1>2, ResetIs DEF EndedRefs, SameBut
<1>6. EndedRefs(Reset(l), None, refs.continues)
  BY <1>1, ResetIs DEF EndedRefs, SameBut
<1>7. QED
  BY <1>4, <1>5, <1>6 DEF l, f, c

\* A record is closed at most, and closed if the turn is its own and not finalized yet.
LEMMA FinalizeIs ==
  ASSUME TypeOK, NEW t \in MaybeTurns, NEW how \in Ways
  PROVE  /\ Finalize(t, how) \in RecordSet /\ Finalize(t, how).turn = record.turn
         /\ Finalize(t, how).status = "active" =>
              /\ Finalize(t, how) = record
              /\ t = None \/ t = refs.finalized \/ t # record.turn
BY DEF Finalize, CompleteExecution, TypeOK, RecordSet, Ways

\* A record of the turn that is completed is open no more.
LEMMA CompleteIs ==
  ASSUME NEW r \in RecordSet, NEW t, NEW how \in Ways
  PROVE  /\ CompleteExecution(r, t, how) \in RecordSet
         /\ CompleteExecution(r, t, how).turn = r.turn
         /\ CompleteExecution(r, t, how).status = "active" =>
              CompleteExecution(r, t, how) = r /\ r.turn # t
BY DEF CompleteExecution, RecordSet, Ways

\* A turn that starts has its record open.
LEMMA StartIs ==
  ASSUME NEW r \in RecordSet, NEW t \in Turns, NEW continues
  PROVE  StartExecution(r, t, continues) = [turn |-> t, status |-> "active"]
<1>1. r = [turn |-> r.turn, status |-> r.status]
  BY DEF RecordSet
<1>2. [r EXCEPT !.turn = t] = [turn |-> t, status |-> r.status]
  BY <1>1
<1>3. QED
  BY <1>2 DEF StartExecution

\* A handler finds a well typed line.
LEMMA AutoErrorTyped ==
  ASSUME TypeOK, NEW t \in Turns, AutoError(t)
  PROVE  auto' \in AutoSet /\ fence' \in BOOLEAN /\ barred' \subseteq Turns
<1>1. auto \in AutoSet /\ fence \in BOOLEAN /\ barred \subseteq Turns
  BY Zenon DEF TypeOK, AutoSet
<1>2. Scheduled \in AutoSet
  BY <1>1 DEF Scheduled, AutoSet
<1>3. QED
  BY <1>1, <1>2 DEF AutoError

\* A call moves from step to step.
LEMMA AtIs ==
  ASSUME TypeOK, NEW k \in Calls, NEW label \in CallSteps, At(k, label)
  PROVE  call' \in [Calls -> CallSet]
BY DEF At, TypeOK, CallSet

\* The invariant of types is kept by every step.
LEMMA TypeStep ==
  ASSUME Typed, [Next]_vars
  PROVE  Typed'
<1> USE DEF MaybeTurns, Turns
<1>1. TypeOK /\ WireOK
  BY DEF Typed
<1>2. /\ turn \in ViewSet /\ shown \in ViewSet /\ refs \in RefSet /\ record \in RecordSet
      /\ auto \in AutoSet /\ fence \in BOOLEAN /\ barred \subseteq Turns
      /\ call \in [Calls -> CallSet] /\ stop \in Turns \cup {None, Pending}
      /\ stops \in 0 .. MaxStops /\ orders \subseteq Turns \cup {Pending}
      /\ running \in Turns \cup {None} /\ halted \in BOOLEAN /\ doomed \subseteq Calls
      /\ calm \in BOOLEAN
  BY <1>1 DEF TypeOK, ViewSet, RefSet, RecordSet, AutoSet, CallSet
<1>3. /\ turn.active \in MaybeTurns /\ turn.processing \in BOOLEAN
      /\ shown.active \in MaybeTurns /\ shown.processing \in BOOLEAN
      /\ KnownTurn(refs) \in MaybeTurns /\ LookUp(refs) \in RefSet
      /\ refs.execution \in MaybeTurns /\ refs.finalized \in MaybeTurns
      /\ auto.enabled \in BOOLEAN /\ auto.timer \in BOOLEAN
  BY <1>1, <1>2, Looks DEF ViewSet, RefSet, AutoSet
<1> DEFINE T == /\ turn' \in ViewSet /\ shown' \in ViewSet /\ refs' \in RefSet
                /\ record' \in RecordSet
                /\ auto' \in AutoSet /\ fence' \in BOOLEAN /\ barred' \subseteq Turns
                /\ call' \in [Calls -> CallSet] /\ stop' \in Turns \cup {None, Pending}
                /\ stops' \in 0 .. MaxStops /\ orders' \subseteq Turns \cup {Pending}
                /\ running' \in Turns \cup {None} /\ halted' \in BOOLEAN /\ doomed' \subseteq Calls
                /\ calm' \in BOOLEAN
<1>4. ASSUME T, WireOK' PROVE Typed'
  <2>1. TypeOK'
    BY <1>4 DEF TypeOK, ViewSet, RefSet, RecordSet, AutoSet, CallSet
  <2>2. QED
    BY <1>4, <2>1 DEF Typed
<1>5. Quiet \in AutoSet /\ Scheduled \in AutoSet /\ [Quiet EXCEPT !.enabled = FALSE] \in AutoSet
      /\ [Quiet EXCEPT !.enabled = ~auto.enabled] \in AutoSet
  BY <1>2, <1>3 DEF AutoSet, Quiet, Scheduled
<1>6. Idle \in ViewSet /\ [turn EXCEPT !.processing = TRUE] \in ViewSet
  BY <1>2 DEF ViewSet, Idle
<1>7. ASSUME NEW t \in MaybeTurns
      PROVE  [turn EXCEPT !.active = t] \in ViewSet /\ [processing |-> TRUE, active |-> t] \in ViewSet
  BY <1>2 DEF ViewSet
<1>8. ASSUME NEW k \in Calls, NEW sent, AutoAfter(k, sent) PROVE auto' \in AutoSet
  BY <1>2, <1>5, <1>8 DEF AutoAfter
<1>9. ASSUME NEW l, NEW t, NEW continues, EndedRefs(l, t, continues) PROVE l \in RefSet
  BY <1>9 DEF EndedRefs
<1>10. ASSUME NEW i, NEW kind, Arrives(i, kind)
       PROVE  /\ WireOK' /\ wire[i] \in Lines
              /\ kind \in OfTurns => wire[i].turn \in Turns
              /\ kind \in {"completed", "idle"} => wire[i].how \in Ways
  <2>1. WireOK' /\ wire[i].kind = kind /\ IsLine(wire[i])
    BY <1>1, <1>10, Taken
  <2>2. QED
    BY <2>1 DEF IsLine
<1>11. CASE Commit
  <2>1. T
    BY <1>2, <1>11 DEF Commit, autoVars, serverVars
  <2>2. WireOK'
    BY <1>1, <1>11 DEF Commit, serverVars, WireOK
  <2>3. QED
    BY <1>4, <2>1, <2>2
<1>12. ASSUME NEW i, OnTurnStarted(i) PROVE Typed'
  <2> DEFINE t == wire[i].turn
             seen == [refs EXCEPT !.execution = t, !.continues = FALSE]
  <2>1. t \in Turns /\ WireOK'
    BY <1>10, <1>12 DEF OnTurnStarted, OfTurns
  <2> HIDE DEF t
  <2>2. /\ seen \in RefSet /\ [seen EXCEPT !.pendingStop = FALSE] \in RefSet
        /\ [seen EXCEPT !.adopted = shown.active, !.ahead = TRUE, !.known = t] \in RefSet
    <3>1. seen \in RefSet
      BY <1>2, <2>1 DEF RefSet
    <3> HIDE DEF seen
    <3>2. [seen EXCEPT !.pendingStop = FALSE] \in RefSet
      BY <3>1 DEF RefSet
    <3>3. ASSUME NEW s \in MaybeTurns
          PROVE  [seen EXCEPT !.adopted = s, !.ahead = TRUE, !.known = t] \in RefSet
      BY <2>1, <3>1 DEF RefSet
    <3>4. QED
      BY <1>3, <3>1, <3>2, <3>3
  <2>3. StartExecution(record, t, refs.continues) = [turn |-> t, status |-> "active"]
    BY <1>2, <2>1, StartIs
  <2>4. [turn |-> t, status |-> "active"] \in RecordSet
    BY <2>1 DEF RecordSet
  <2>5. CompleteExecution([turn |-> t, status |-> "active"], t, "interrupted") \in RecordSet
    BY <2>4, CompleteIs DEF Ways
  <2>6. refs' \in RefSet /\ record' \in RecordSet
    <3>1. refs.pendingStop \in BOOLEAN
      BY <1>2 DEF RefSet
    <3>2. QED
      BY <1>12, <2>2, <2>3, <2>4, <2>5 DEF OnTurnStarted, t
  <2>7. turn' \in ViewSet /\ orders' \subseteq Turns \cup {Pending}
    BY <1>2, <1>7, <1>12, <2>1 DEF OnTurnStarted, t
  <2>8. T
    BY <1>2, <1>5, <1>12, <2>6, <2>7 DEF OnTurnStarted, UserFrame
  <2>9. QED
    BY <1>4, <2>1, <2>8
<1>13. ASSUME NEW i, OnTurnCompleted(i) PROVE Typed'
  <2>1. wire[i].turn \in Turns /\ wire[i].how \in Ways /\ WireOK'
    BY <1>10, <1>13 DEF OnTurnCompleted, OfTurns
  <2>2. refs' \in RefSet
    BY <1>1, <1>3, <1>9, <1>13, <2>1, EndsAre DEF OnTurnCompleted
  <2>3. record' \in RecordSet /\ turn' \in ViewSet
    BY <1>1, <1>2, <1>6, <1>13, <2>1, FinalizeIs DEF OnTurnCompleted
  <2>4. T
    BY <1>2, <1>5, <1>13, <2>2, <2>3 DEF OnTurnCompleted, UserFrame
  <2>5. QED
    BY <1>4, <2>1, <2>4
<1>14. ASSUME NEW i, OnTurnError(i) PROVE Typed'
  <2>1. wire[i].turn \in Turns /\ WireOK'
    BY <1>10, <1>14 DEF OnTurnError, OfTurns
  <2>2. [refs EXCEPT !.continues = TRUE] \in RefSet
    BY <1>2, ContinuesIs
  <2>3. refs' \in RefSet
    BY <1>1, <1>3, <1>9, <1>14, <2>1, <2>2, EndsAre DEF OnTurnError
  <2>4. record' \in RecordSet /\ turn' \in ViewSet
    BY <1>1, <1>2, <1>6, <1>14, <2>1, FinalizeIs DEF OnTurnError, Ways
  <2>5. auto' \in AutoSet /\ fence' \in BOOLEAN /\ barred' \subseteq Turns
    BY <1>1, <1>2, <1>14, <2>1, AutoErrorTyped DEF OnTurnError
  <2>6. T
    BY <1>2, <1>14, <2>3, <2>4, <2>5 DEF OnTurnError, UserFrame
  <2>7. QED
    BY <1>4, <2>1, <2>6
<1>15. ASSUME NEW i, OnStatusActive(i) PROVE Typed'
  <2>1. WireOK'
    BY <1>10, <1>15 DEF OnStatusActive
  <2>2. T
    BY <1>2, <1>3, <1>6, <1>15 DEF OnStatusActive, UserFrame, autoVars
  <2>3. QED
    BY <1>4, <2>1, <2>2
<1>16. ASSUME NEW i, OnStatusIdle(i) PROVE Typed'
  <2>1. wire[i].how \in Ways /\ WireOK'
    BY <1>10, <1>16 DEF OnStatusIdle
  <2>2. (IF KnownTurn(refs) # None THEN KnownTurn(refs) ELSE refs.execution) \in MaybeTurns
    BY <1>3
  <2>3. refs' \in RefSet
    BY <1>1, <1>9, <1>16, <2>2, EndsAre DEF OnStatusIdle
  <2>4. record' \in RecordSet
    BY <1>1, <1>2, <1>16, <2>1, <2>2, FinalizeIs DEF OnStatusIdle
  <2>5. T
    BY <1>2, <1>6, <1>16, <2>3, <2>4 DEF OnStatusIdle, UserFrame, autoVars, NoLongerProcessing
  <2>6. QED
    BY <1>4, <2>1, <2>5
<1>17. ASSUME NEW i, OnThreadClosed(i) PROVE Typed'
  <2>1. WireOK'
    BY <1>10, <1>17 DEF OnThreadClosed
  <2>2. (IF KnownTurn(refs) # None THEN KnownTurn(refs) ELSE refs.execution) \in MaybeTurns
    BY <1>3
  <2>3. refs' \in RefSet
    BY <1>1, <1>9, <1>17, <2>2, EndsAre DEF OnThreadClosed
  <2>4. record' \in RecordSet
    BY <1>1, <1>2, <1>17, <2>2, FinalizeIs DEF OnThreadClosed, Ways
  <2>5. T
    BY <1>2, <1>5, <1>6, <1>17, <2>3, <2>4 DEF OnThreadClosed, UserFrame
  <2>6. QED
    BY <1>4, <2>1, <2>5
<1>18. ASSUME NEW k \in Sends, Send(k) PROVE Typed'
  <2>1. k \in Calls /\ WireOK'
    BY <1>1, <1>18 DEF Send, serverVars, WireOK, Calls
  <2>2. call' \in [Calls -> CallSet]
    <3>1. CASE At(k, "preflight")
      BY <1>1, <2>1, <3>1, AtIs DEF CallSteps
    <3>2. CASE call' = [call EXCEPT ![k].at = "steer", ![k].steers = KnownTurn(refs)]
      <4> DEFINE g == [call EXCEPT ![k].at = "steer"]
      <4>1. g \in [Calls -> CallSet]
        BY <1>2, <2>1 DEF CallSet, CallSteps
      <4>2. call' = [g EXCEPT ![k].steers = KnownTurn(refs)]
        BY <3>2
      <4> HIDE DEF g
      <4>3. QED
        BY <1>3, <2>1, <4>1, <4>2 DEF CallSet
    <3>3. QED
      BY <1>18, <3>1, <3>2 DEF Send
  <2>3. T
    BY <1>2, <1>3, <1>6, <1>18, <2>2 DEF Send, serverVars, Asked, Settled
  <2>4. QED
    BY <1>4, <2>1, <2>3
<1>19. ASSUME NEW k \in Autos, AutoFires(k) PROVE Typed'
  <2>1. k \in Calls /\ WireOK'
    BY <1>1, <1>19 DEF AutoFires, serverVars, WireOK, Calls
  <2>2. call' \in [Calls -> CallSet]
    <3>1. CASE At(k, "preflight")
      BY <1>1, <2>1, <3>1, AtIs DEF CallSteps
    <3>2. QED
      BY <1>2, <1>19, <3>1 DEF AutoFires
  <2>3. T
    BY <1>2, <1>3, <1>5, <1>19, <2>2 DEF AutoFires, serverVars, Asked, Settled
  <2>4. QED
    BY <1>4, <2>1, <2>3
<1>20. ASSUME NEW k \in Calls, Preflight(k) PROVE Typed'
  <2>1. WireOK'
    BY <1>1, <1>20 DEF Preflight, serverVars, WireOK
  <2>2. call' \in [Calls -> CallSet]
    BY <1>1, <1>20, AtIs DEF Preflight, Done, CallSteps
  <2>3. auto' \in AutoSet
    BY <1>2, <1>8, <1>20 DEF Preflight
  <2>4. T
    BY <1>2, <1>6, <1>20, <2>2, <2>3 DEF Preflight, serverVars, UserFrame
  <2>5. QED
    BY <1>4, <2>1, <2>4
<1>21. ASSUME NEW i, StartAccepted(i) PROVE Typed'
  <2>1. wire[i].turn \in Turns /\ WireOK'
    BY <1>10, <1>21 DEF StartAccepted, OfTurns, Replies
  <2>2. call' \in [Calls -> CallSet]
    BY <1>1, <1>21, <2>1, AtIs DEF StartAccepted, Done, CallSteps
  <2>3. auto' \in AutoSet /\ turn' \in ViewSet
    BY <1>7, <1>8, <1>21, <2>1 DEF StartAccepted
  <2>4. T
    BY <1>2, <1>21, <2>2, <2>3 DEF StartAccepted, ReplyFrame, UserFrame
  <2>5. QED
    BY <1>4, <2>1, <2>4
<1>22. ASSUME NEW i, StartRefused(i) PROVE Typed'
  <2>1. wire[i].turn \in Turns /\ WireOK'
    BY <1>10, <1>22 DEF StartRefused, OfTurns, Replies
  <2>2. call' \in [Calls -> CallSet]
    BY <1>1, <1>22, <2>1, AtIs DEF StartRefused, Done, CallSteps
  <2>3. auto' \in AutoSet /\ turn' \in ViewSet
    BY <1>6, <1>8, <1>22, <2>1 DEF StartRefused
  <2>4. T
    BY <1>2, <1>22, <2>2, <2>3 DEF StartRefused, ReplyFrame, UserFrame
  <2>5. QED
    BY <1>4, <2>1, <2>4
<1>23. ASSUME NEW i, StartNotFound(i) PROVE Typed'
  <2> DEFINE k == wire[i].turn
  <2>1. k \in Turns /\ WireOK'
    BY <1>10, <1>23 DEF StartNotFound, OfTurns, Replies
  <2>2. call[k].recovered \in BOOLEAN
    BY <1>2, <2>1 DEF CallSet
  <2>3. \/ turn' = Idle /\ Done(k) /\ AutoAfter(k, FALSE)
        \/ /\ call' = [call EXCEPT ![k].at = "resume", ![k].recovered = TRUE]
           /\ UNCHANGED <<turn, auto>>
    BY <1>23, <2>2 DEF StartNotFound
  <2> HIDE DEF k
  <2>4. [call EXCEPT ![k].at = "resume", ![k].recovered = TRUE] \in [Calls -> CallSet]
    BY <1>2, <2>1 DEF CallSet, CallSteps
  <2>5. Done(k) => call' \in [Calls -> CallSet]
    BY <1>1, <2>1, AtIs DEF Done, CallSteps
  <2>6. call' \in [Calls -> CallSet] /\ auto' \in AutoSet /\ turn' \in ViewSet
    BY <1>2, <1>6, <1>8, <2>1, <2>3, <2>4, <2>5
  <2>7. T
    BY <1>2, <1>23, <2>6 DEF StartNotFound, ReplyFrame, UserFrame
  <2>8. QED
    BY <1>4, <2>1, <2>7
<1>24. ASSUME NEW k \in Calls, Resumed(k) PROVE Typed'
  <2>1. WireOK'
    BY <1>1, <1>24 DEF Resumed, WireOK
  <2>2. call' \in [Calls -> CallSet]
    BY <1>1, <1>24, AtIs DEF Resumed, Done, CallSteps
  <2>3. auto' \in AutoSet /\ turn' \in ViewSet
    BY <1>2, <1>6, <1>8, <1>24 DEF Resumed
  <2>4. T
    BY <1>2, <1>24, <2>2, <2>3 DEF Resumed, ReplyFrame, UserFrame
  <2>5. QED
    BY <1>4, <2>1, <2>4
<1>25. ASSUME NEW i, SteerAccepted(i) PROVE Typed'
  <2>1. wire[i].turn \in Turns /\ WireOK'
    BY <1>10, <1>25 DEF SteerAccepted, OfTurns, Replies
  <2>2. call' \in [Calls -> CallSet]
    BY <1>1, <1>25, <2>1, AtIs DEF SteerAccepted, Done, CallSteps
  <2>3. call[wire[i].turn].steers \in MaybeTurns
    BY <1>2, <2>1 DEF CallSet
  <2>4. turn' \in ViewSet
    BY <1>7, <1>25, <2>3 DEF SteerAccepted
  <2>5. T
    BY <1>2, <1>25, <2>2, <2>4 DEF SteerAccepted, ReplyFrame, UserFrame
  <2>6. QED
    BY <1>4, <2>1, <2>5
<1>26. ASSUME NEW i, SteerStale(i) PROVE Typed'
  <2>1. wire[i].turn \in Turns /\ WireOK'
    BY <1>10, <1>26 DEF SteerStale, OfTurns, Replies
  <2>2. call' \in [Calls -> CallSet]
    BY <1>1, <1>26, <2>1, AtIs DEF SteerStale, Done, CallSteps
  <2>3. T
    BY <1>2, <1>6, <1>26, <2>2 DEF SteerStale, ReplyFrame, UserFrame
  <2>4. QED
    BY <1>4, <2>1, <2>3
<1>27. CASE SetEnabled
  <2>1. T
    BY <1>2, <1>3, <1>5, <1>27 DEF SetEnabled, uiVars, serverVars
  <2>2. WireOK'
    BY <1>1, <1>27 DEF SetEnabled, serverVars, WireOK
  <2>3. QED
    BY <1>4, <2>1, <2>2
<1>28. CASE Stop
  <2>1. WireOK'
    BY <1>1, <1>28 DEF Stop, WireOK
  <2>2. [LookUp(refs) EXCEPT !.pendingStop = TRUE] \in RefSet
    BY <1>3 DEF RefSet
  <2>3. /\ refs' \in RefSet /\ turn' \in ViewSet /\ stop' \in Turns \cup {None, Pending}
        /\ orders' \subseteq Turns \cup {Pending}
    BY <1>2, <1>3, <1>6, <1>28, <2>2 DEF Stop, NoteInterrupt
  <2>4. stops' \in 0 .. MaxStops
    BY <1>2, <1>28, TurnsAssumption DEF Stop
  <2>5. barred' \subseteq Turns /\ doomed' \subseteq Calls
    BY <1>2, <1>3, <1>28 DEF Stop, Barring
  <2>6. T
    BY <1>2, <1>5, <1>28, <2>3, <2>4, <2>5 DEF Stop
  <2>7. QED
    BY <1>4, <2>1, <2>6
<1>29. ASSUME NEW i, StopAnswered(i) PROVE Typed'
  <2>1. WireOK'
    BY <1>10, <1>29 DEF StopAnswered
  <2>2. CompleteExecution(record, stop, "interrupted") \in RecordSet
    BY <1>2, CompleteIs DEF Ways
  <2>3. T
    BY <1>2, <1>6, <1>29, <2>2 DEF StopAnswered, UserFrame, autoVars
  <2>4. QED
    BY <1>4, <2>1, <2>3
<1>30. CASE Server
  <2>1. WireOK'
    BY <1>1, <1>30, ServerTyped DEF Typed
  <2>2. UNCHANGED <<uiVars, autoVars, stop, stops, halted, doomed>>
    BY <1>30 DEF Server, End, Fail, Retry, Close, Accept, Decline, Steer, Interrupt, ServerFrame,
                 UserFrame
  <2>3. call' \in [Calls -> CallSet]
    <3>1. ASSUME NEW k \in Calls, At(k, "answer") PROVE call' \in [Calls -> CallSet]
      BY <1>1, <3>1, AtIs DEF CallSteps
    <3>2. QED
      BY <1>2, <1>30, <3>1 DEF Server, End, Fail, Retry, Close, Accept, Decline, Steer, Interrupt
  <2>4. running' \in Turns \cup {None}
    BY <1>2, <1>30 DEF Server, End, Fail, Retry, Close, Accept, Decline, Steer, Interrupt
  <2>5. orders' \subseteq Turns \cup {Pending}
    BY <1>2, <1>30 DEF Server, End, Fail, Retry, Close, Accept, Decline, Steer, Interrupt
  <2>6. calm' \in BOOLEAN
    BY <1>2, <1>30 DEF Server, End, Fail, Retry, Close, Accept, Decline, Steer, Interrupt,
                       ServerFrame, UserFrame
  <2>7. T
    BY <1>2, <2>2, <2>3, <2>4, <2>5, <2>6 DEF uiVars, autoVars
  <2>8. QED
    BY <1>4, <2>1, <2>7
<1>31. CASE UNCHANGED vars
  BY <1>1, <1>31 DEF vars, uiVars, autoVars, serverVars, Typed, TypeOK, WireOK
<1>32. QED
  BY <1>11, <1>12, <1>13, <1>14, <1>15, <1>16, <1>17, <1>18, <1>19, <1>20, <1>21, <1>22,
     <1>23, <1>24, <1>25, <1>26, <1>27, <1>28, <1>29, <1>30, <1>31 DEF Next, Handle, User

\* The types hold at first.
LEMMA InitTyped == ASSUME Init PROVE TypeOK
<1>1. (Autos # {}) \in BOOLEAN /\ 0 \in 0 .. MaxStops
  BY TurnsAssumption
<1>2. auto \in [enabled : BOOLEAN, timer : BOOLEAN, fence : BOOLEAN]
  BY <1>1 DEF Init
<1>3. call \in [Calls -> [at : CallSteps, steers : Turns \cup {None}, recovered : BOOLEAN]]
  BY DEF Init, CallSteps
<1>4. refs \in RefSet /\ {turn, shown} \subseteq ViewSet /\ record \in RecordSet
  BY DEF Init, Idle, RefSet, ViewSet, RecordSet
<1>5. /\ fence \in BOOLEAN /\ barred \subseteq Turns /\ stop \in Turns \cup {None, Pending}
      /\ stops \in 0 .. MaxStops /\ orders \subseteq Turns \cup {Pending}
      /\ running \in Turns \cup {None} /\ halted \in BOOLEAN /\ doomed \subseteq Calls
      /\ calm \in BOOLEAN
  BY <1>1 DEF Init
<1>6. QED
  BY <1>2, <1>3, <1>4, <1>5 DEF TypeOK, RefSet, ViewSet, RecordSet

\* The thread's state is well typed, and so is every line on its way.
THEOREM TurnsTyped == Spec => []Typed
<1>1. Init => Typed
  <2> SUFFICES ASSUME Init PROVE Typed
    OBVIOUS
  <2>1. TypeOK
    BY InitTyped
  <2>2. wire = <<>>
    BY DEF Init
  <2>3. QED
    BY <2>1, <2>2 DEF Typed, WireOK
<1>2. Typed /\ [Next]_vars => Typed'
  BY TypeStep
<1>3. QED
  BY <1>1, <1>2, PTL DEF Spec

-----------------------------------------------------------------------------
(* A stop holds. *)

\* While the user has halted the thread and continuations are on, the fence is up
\* and no timer runs; and an answer on its way is to a call that was made.
Barrier ==
  /\ halted /\ auto.enabled => fence /\ ~auto.timer
  /\ \A i \in DOMAIN wire : wire[i].kind \in Replies => call[wire[i].turn].at # "idle"

\* The fence and the timer are kept so by every step.
LEMMA FenceStep ==
  ASSUME Typed, [Next]_vars, halted /\ auto.enabled => fence /\ ~auto.timer
  PROVE  (halted /\ auto.enabled => fence /\ ~auto.timer)'
<1>1. /\ auto \in AutoSet /\ fence \in BOOLEAN /\ halted \in BOOLEAN
  BY DEF Typed, TypeOK, AutoSet
<1>2. /\ Quiet \in AutoSet /\ Quiet.timer = FALSE /\ Quiet.enabled = auto.enabled
      /\ Scheduled \in AutoSet /\ Scheduled.timer = auto.enabled
      /\ Scheduled.enabled = auto.enabled
      /\ [Quiet EXCEPT !.enabled = FALSE].enabled = FALSE
      /\ [Quiet EXCEPT !.enabled = ~auto.enabled].timer = FALSE
      /\ [Quiet EXCEPT !.enabled = ~auto.enabled].enabled = ~auto.enabled
  BY <1>1 DEF AutoSet, Quiet, Scheduled
<1> DEFINE Quieter == halted' = halted /\ fence' = fence /\ auto' \in {auto, Quiet}
           Same    == halted' = halted /\ fence' = fence /\ auto' = auto
<1>3. ASSUME Commit \/ UNCHANGED vars PROVE Same
  BY <1>3 DEF Commit, vars, autoVars
<1>4. ASSUME NEW i, OnTurnStarted(i) \/ OnTurnCompleted(i) \/ OnStatusActive(i) \/ OnStatusIdle(i)
                    \/ SteerAccepted(i) \/ SteerStale(i) \/ StopAnswered(i)
      PROVE  Quieter
  BY <1>4 DEF OnTurnStarted, OnTurnCompleted, OnStatusActive, OnStatusIdle, SteerAccepted,
              SteerStale, StopAnswered, UserFrame, ReplyFrame, autoVars
<1>5. ASSUME NEW i, OnTurnError(i) PROVE (halted /\ auto.enabled => fence /\ ~auto.timer)'
  BY <1>1, <1>2, <1>5 DEF OnTurnError, AutoError, UserFrame
<1>6. ASSUME NEW i, OnThreadClosed(i) PROVE ~auto'.enabled
  BY <1>1, <1>2, <1>6 DEF OnThreadClosed
<1>7. ASSUME NEW k, NEW sent, AutoAfter(k, sent), halted' = halted, fence' = fence
      PROVE  (halted /\ auto.enabled => fence /\ ~auto.timer)'
  BY <1>1, <1>2, <1>7 DEF AutoAfter
<1>8. ASSUME NEW i, StartAccepted(i) \/ StartRefused(i) \/ StartNotFound(i)
      PROVE  (halted /\ auto.enabled => fence /\ ~auto.timer)'
  <2>1. halted' = halted /\ fence' = fence
    BY <1>8 DEF StartAccepted, StartRefused, StartNotFound, ReplyFrame, UserFrame
  <2>2. auto' = auto \/ \E sent \in BOOLEAN : AutoAfter(wire[i].turn, sent)
    BY <1>8 DEF StartAccepted, StartRefused, StartNotFound
  <2>3. QED
    BY <1>7, <2>1, <2>2
<1>9. ASSUME NEW k, Preflight(k) \/ Resumed(k)
      PROVE  (halted /\ auto.enabled => fence /\ ~auto.timer)'
  <2>1. halted' = halted /\ fence' = fence
    BY <1>9 DEF Preflight, Resumed, ReplyFrame, UserFrame
  <2>2. auto' = auto \/ AutoAfter(k, FALSE)
    BY <1>9 DEF Preflight, Resumed
  <2>3. QED
    BY <1>7, <2>1, <2>2
<1>10. ASSUME NEW k, Send(k) PROVE (halted /\ auto.enabled => fence /\ ~auto.timer)'
  BY <1>1, <1>10 DEF Send
<1>11. ASSUME NEW k, AutoFires(k) PROVE (halted /\ auto.enabled => fence /\ ~auto.timer)'
  BY <1>1, <1>2, <1>11 DEF AutoFires
<1>12. CASE SetEnabled
  BY <1>1, <1>2, <1>12 DEF SetEnabled
<1>13. CASE Stop
  BY <1>1, <1>2, <1>13 DEF Stop
<1>14. CASE Server
  <2>1. Same
    BY <1>14 DEF Server, End, Fail, Retry, Close, Accept, Decline, Steer, Interrupt, ServerFrame,
                 UserFrame, autoVars
  <2>2. QED
    BY <2>1
<1>15. ASSUME Quieter PROVE (halted /\ auto.enabled => fence /\ ~auto.timer)'
  BY <1>2, <1>15
<1>16. QED
  BY <1>3, <1>4, <1>5, <1>6, <1>8, <1>9, <1>10, <1>11, <1>12, <1>13, <1>14, <1>15
     DEF Next, Handle, User

\* Calls are made by the user and by the timer alone, and what was made is not unmade.
Makes(k) == (k \in Sends /\ Send(k)) \/ (k \in Autos /\ AutoFires(k))

\* A call is made by one of these, or stays as made as it was.
LEMMA OnlyMade ==
  ASSUME Typed, [Next]_vars, NEW k \in Calls,
         \A i \in DOMAIN wire : wire[i].kind \in Replies => call[wire[i].turn].at # "idle"
  PROVE  /\ call[k].at # "idle" => call'[k].at # "idle"
         /\ call[k].at = "idle" => call'[k].at = "idle" \/ Makes(k)
<1>1. WireOK /\ call \in [Calls -> CallSet]
  BY DEF Typed, TypeOK, CallSet
<1> DEFINE Keeps == /\ call[k].at # "idle" => call'[k].at # "idle"
                    /\ call[k].at = "idle" => call'[k].at = "idle"
<1>2. ASSUME call' = call PROVE Keeps
  BY <1>2
<1>3. ASSUME NEW m \in Calls, NEW label, label # "idle", At(m, label), call[m].at # "idle"
      PROVE  Keeps
  BY <1>1, <1>3 DEF At, CallSet
<1>4. CASE Commit \/ UNCHANGED vars \/ SetEnabled \/ Stop
  BY <1>2, <1>4 DEF Commit, vars, SetEnabled, Stop
<1>5. ASSUME NEW i, OnTurnStarted(i) \/ OnTurnCompleted(i) \/ OnTurnError(i) \/ OnStatusActive(i)
                    \/ OnStatusIdle(i) \/ OnThreadClosed(i) \/ StopAnswered(i)
      PROVE  Keeps
  BY <1>2, <1>5 DEF OnTurnStarted, OnTurnCompleted, OnTurnError, OnStatusActive, OnStatusIdle,
                    OnThreadClosed, StopAnswered
<1>6. ASSUME NEW i, NEW kind \in Replies, Arrives(i, kind)
      PROVE  wire[i].turn \in Calls /\ call[wire[i].turn].at # "idle"
  <2>1. i \in DOMAIN wire /\ wire[i].kind = kind /\ IsLine(wire[i])
    BY <1>1, <1>6, Taken
  <2>2. QED
    BY <2>1 DEF IsLine, OfTurns, Turns
<1>7. ASSUME NEW i, StartAccepted(i) \/ StartRefused(i) \/ SteerAccepted(i) \/ SteerStale(i)
      PROVE  Keeps
  <2>1. Done(wire[i].turn) /\ \E kind \in Replies : Arrives(i, kind)
    BY <1>7 DEF StartAccepted, StartRefused, SteerAccepted, SteerStale, Replies
  <2>2. QED
    BY <1>3, <1>6, <2>1 DEF Done
<1>8. ASSUME NEW i, StartNotFound(i) PROVE Keeps
  <2> DEFINE m == wire[i].turn
  <2>1. m \in Calls /\ call[m].at # "idle"
    BY <1>6, <1>8 DEF StartNotFound, Replies
  <2>2. Done(m) \/ call' = [call EXCEPT ![m].at = "resume", ![m].recovered = TRUE]
    BY <1>8 DEF StartNotFound
  <2> HIDE DEF m
  <2>3. CASE Done(m)
    BY <1>3, <2>1, <2>3 DEF Done
  <2>4. CASE call' = [call EXCEPT ![m].at = "resume", ![m].recovered = TRUE]
    BY <1>1, <2>1, <2>4 DEF CallSet
  <2>5. QED
    BY <2>2, <2>3, <2>4
<1>9. ASSUME NEW m \in Calls, Preflight(m) \/ Resumed(m) PROVE Keeps
  <2>1. call[m].at # "idle" /\ \E label \in {"start", "done"} : At(m, label)
    BY <1>9 DEF Preflight, Resumed, Done
  <2>2. QED
    BY <1>3, <2>1
<1>10. ASSUME NEW m \in Sends, Send(m)
       PROVE  /\ call[k].at # "idle" => call'[k].at # "idle"
              /\ call[k].at = "idle" => call'[k].at = "idle" \/ m = k
  BY <1>1, <1>10 DEF Send, At, CallSet, Calls
<1>11. ASSUME NEW m \in Autos, AutoFires(m)
       PROVE  /\ call[k].at # "idle" => call'[k].at # "idle"
              /\ call[k].at = "idle" => call'[k].at = "idle" \/ m = k
  BY <1>1, <1>11 DEF AutoFires, At, CallSet, Calls
<1>12. CASE Server
  <2>1. call' = call \/ \E m \in Calls : At(m, "answer") /\ call[m].at # "idle"
    BY <1>12 DEF Server, End, Fail, Retry, Close, Accept, Decline, Steer, Interrupt
  <2>2. QED
    BY <1>2, <1>3, <2>1
<1>13. QED
  BY <1>4, <1>5, <1>7, <1>8, <1>9, <1>10, <1>11, <1>12 DEF Next, Handle, User, Makes

\* Answers stay answers to calls that were made.
LEMMA AnswersStep ==
  ASSUME Typed, [Next]_vars,
         \A i \in DOMAIN wire : wire[i].kind \in Replies => call[wire[i].turn].at # "idle"
  PROVE  (\A i \in DOMAIN wire : wire[i].kind \in Replies => call[wire[i].turn].at # "idle")'
<1> DEFINE Fine(l) == l.kind \in Replies => l.turn \in Calls /\ call'[l.turn].at # "idle"
<1>1. WireOK /\ TypeOK
  BY DEF Typed
<1>2. \A j \in DOMAIN wire : Fine(wire[j])
  <2> SUFFICES ASSUME NEW j \in DOMAIN wire, wire[j].kind \in Replies
               PROVE  wire[j].turn \in Calls /\ call'[wire[j].turn].at # "idle"
    OBVIOUS
  <2>1. wire[j].turn \in Calls
    BY <1>1 DEF WireOK, IsLine, OfTurns, Turns
  <2>2. QED
    BY <2>1, OnlyMade
<1> SUFFICES \A j \in DOMAIN wire' : Fine(wire'[j])
  OBVIOUS
<1> HIDE DEF Fine
<1>3. ASSUME NEW i, NEW kind, Arrives(i, kind) PROVE \A j \in DOMAIN wire' : Fine(wire'[j])
  <2> SUFFICES ASSUME NEW j \in DOMAIN wire' PROVE Fine(wire'[j])
    OBVIOUS
  <2>1. /\ i \in {1, 2} /\ DOMAIN wire' = 1 .. Len(wire) - 1 /\ Len(wire) \in Nat
        /\ j < i => j \in DOMAIN wire /\ wire'[j] = wire[j]
        /\ j >= i => j + 1 \in DOMAIN wire /\ wire'[j] = wire[j + 1]
    BY <1>1, <1>3, Taken
  <2>2. \E m \in DOMAIN wire : wire'[j] = wire[m]
    <3>1. j < i \/ j >= i
      BY <2>1
    <3>2. QED
      BY <2>1, <3>1
  <2>3. QED
    BY <1>2, <2>2
<1>4. CASE wire' = wire
  BY <1>2, <1>4
<1>5. ASSUME NEW lines, EndLines(lines), Emits(lines) PROVE \A j \in DOMAIN wire' : Fine(wire'[j])
  <2> SUFFICES ASSUME NEW j \in DOMAIN wire' PROVE Fine(wire'[j])
    OBVIOUS
  <2>1. lines \in Seq(Lines) /\ \A m \in DOMAIN lines : IsLine(lines[m])
    BY <1>5 DEF EndLines
  <2>2. CASE j \in DOMAIN wire
    BY <1>1, <1>2, <1>5, <2>1, <2>2, Added
  <2>3. CASE j \notin DOMAIN wire
    <3>1. PICK m \in DOMAIN lines : wire'[j] = lines[m]
      BY <1>1, <1>5, <2>1, <2>3, Added
    <3>2. lines[m].kind \notin Replies
      BY <1>5 DEF EndLines, Replies
    <3>3. QED
      BY <3>1, <3>2 DEF Fine
  <2>4. QED
    BY <2>2, <2>3
<1>6. ASSUME NEW l, IsLine(l), Emits(<<l>>), Fine(l) PROVE \A j \in DOMAIN wire' : Fine(wire'[j])
  BY <1>1, <1>2, <1>6, AddedOne
<1>7. ASSUME NEW m \in Calls, NEW kind \in OfTurns \ {"completed", "idle"}, NEW how \in {"", "willRetry"},
             Emits(<<Line(kind, m, how)>>), kind \in Replies => call'[m].at # "idle"
      PROVE  \A j \in DOMAIN wire' : Fine(wire'[j])
  <2>1. IsLine(Line(kind, m, how))
    BY LineIs DEF Turns
  <2>2. Fine(Line(kind, m, how))
    BY <1>7 DEF Fine, Line
  <2>3. QED
    BY <1>6, <1>7, <2>1, <2>2
<1>8. ASSUME NEW m \in Calls, At(m, "answer") PROVE call'[m].at # "idle"
  BY <1>1, <1>8 DEF At, TypeOK
<1>9. CASE Server
  <2>1. CASE End
    BY <1>5, <2>1, EndEnds
  <2>2. CASE Fail
    BY <1>5, <2>2, FailEnds
  <2>3. CASE Close
    BY <1>5, <2>3, CloseEnds
  <2>4. CASE Retry
    <3>1. running \in Calls
      BY <1>1, <2>4 DEF Retry, TypeOK, Turns
    <3>2. QED
      BY <1>7, <2>4, <3>1 DEF Retry, OfTurns, Replies
  <2>5. ASSUME NEW m \in Calls, Accept(m) PROVE \A j \in DOMAIN wire' : Fine(wire'[j])
    <3>1. call'[m].at # "idle"
      BY <1>8, <2>5 DEF Accept
    <3>2. /\ \A j \in DOMAIN wire : wire'[j] = wire[j]
          /\ wire'[Len(wire) + 1].turn = m /\ wire'[Len(wire) + 2].turn = m
          /\ wire'[Len(wire) + 3].turn = m
          /\ \A j \in DOMAIN wire' :
               j \in DOMAIN wire \/ j \in {Len(wire) + 1, Len(wire) + 2, Len(wire) + 3}
      BY <1>1, <2>5, AddedStart DEF Turns
    <3>3. \A j \in DOMAIN wire' : j \in DOMAIN wire \/ wire'[j].turn = m
      BY <3>2
    <3>4. QED
      BY <1>2, <3>1, <3>2, <3>3 DEF Fine
  <2>6. ASSUME NEW m \in Calls, Decline(m) PROVE \A j \in DOMAIN wire' : Fine(wire'[j])
    <3>1. PICK reply \in {"refused", "notFound"} : Emits(<<Line(reply, m, "")>>)
      BY <2>6 DEF Decline
    <3>2. QED
      BY <1>7, <1>8, <2>6, <3>1 DEF Decline, OfTurns, Replies
  <2>7. ASSUME NEW m \in Calls, Steer(m) PROVE \A j \in DOMAIN wire' : Fine(wire'[j])
    <3>1. PICK reply \in {"steered", "stale"} : Emits(<<Line(reply, m, "")>>)
      BY <2>7 DEF Steer
    <3>2. QED
      BY <1>7, <1>8, <2>7, <3>1 DEF Steer, OfTurns, Replies
  <2>8. ASSUME NEW o, Interrupt(o) PROVE \A j \in DOMAIN wire' : Fine(wire'[j])
    <3>1. CASE Emits(<<Line("unstopped", None, "")>>)
      <4>1. Fine(Line("unstopped", None, ""))
        BY DEF Fine, Line, Replies
      <4>2. QED
        BY <1>6, <3>1, <4>1, BareLineIs
    <3>2. QED
      BY <1>4, <1>5, <2>8, <3>1, InterruptEnds
  <2>9. QED
    BY <1>9, <2>1, <2>2, <2>3, <2>4, <2>5, <2>6, <2>7, <2>8 DEF Server
<1>10. CASE \/ Commit \/ UNCHANGED vars \/ User \/ \E k \in Calls : Preflight(k) \/ Resumed(k)
            \/ \E k \in Autos : AutoFires(k)
  <2>1. wire' = wire
    BY <1>10 DEF Commit, vars, serverVars, User, Send, Stop, SetEnabled, Preflight, Resumed, AutoFires
  <2>2. QED
    BY <1>4, <2>1
<1>11. CASE Handle
  <2>1. \E i \in DOMAIN wire, kind \in OfTurns \cup {"closed", "stopped", "unstopped"} : Arrives(i, kind)
    BY <1>11 DEF Handle, OnTurnStarted, OnTurnCompleted, OnTurnError, OnStatusActive, OnStatusIdle,
                 OnThreadClosed, StartAccepted, StartRefused, StartNotFound, SteerAccepted, SteerStale,
                 StopAnswered, OfTurns, Replies
  <2>2. QED
    BY <1>3, <2>1
<1>12. QED
  BY <1>9, <1>10, <1>11 DEF Next

\* After a stop nothing continues the thread by itself until the user asks for a
\* turn, for any messages, continuations and number of stops: the timer does not
\* pass the fence, and what comes late does not set it (StopHolds).
THEOREM StopsHold == Spec => StopHolds
<1> DEFINE Inv == Typed /\ Barrier
           A   == \A k \in Autos : halted /\ call[k].at = "idle" => call'[k].at = "idle"
<1>1. Init => Inv
  <2> SUFFICES ASSUME Init PROVE Inv
    OBVIOUS
  <2>1. TypeOK
    BY InitTyped
  <2>2. Barrier /\ WireOK
    BY DEF Init, Barrier, WireOK
  <2>3. QED
    BY <2>1, <2>2 DEF Typed
<1>2. Inv /\ [Next]_vars => Inv'
  BY TypeStep, FenceStep, AnswersStep DEF Barrier
<1>3. Inv /\ [Next]_vars => A
  <2> SUFFICES ASSUME Inv, [Next]_vars, NEW k \in Autos, halted, call[k].at = "idle"
               PROVE  call'[k].at = "idle"
    OBVIOUS
  <2>1. k \in Calls /\ k \notin Sends
    BY TurnsAssumption DEF Calls
  <2>2. ASSUME AutoFires(k) PROVE FALSE
    BY <2>2 DEF AutoFires, Barrier
  <2>3. QED
    BY <2>1, <2>2, OnlyMade DEF Barrier, Makes
<1>4. QED
  BY <1>1, <1>2, <1>3, PTL DEF Spec, StopHolds

-----------------------------------------------------------------------------
(* What a user who waits is told. *)

EndKinds == {"idle", "closed"}

\* Behind a place of the stream the thread is said to be idle or closed; the running
\* turn is announced.
Ended(i)  == \E j \in DOMAIN wire : j > i /\ wire[j].kind \in EndKinds
Begins(i) == \E j \in DOMAIN wire : j > i /\ wire[j].kind = "started" /\ wire[j].turn = running

\* The turn a line is about, if it speaks of one that runs.
Subject(l) == IF l.kind = "steered" THEN call[l.turn].steers ELSE l.turn
WillRetry(l) == l.kind = "error" /\ l.how = "willRetry"
Speaks(l)  == l.kind \in {"accepted", "started", "active", "steered"} \/ WillRetry(l)
Breaks(l)  == l.kind = "completed" \/ (l.kind = "error" /\ l.how # "willRetry")
Clears(l)  == l.kind \in {"idle", "closed", "stopped"}
Refuses(l) == l.kind \in {"refused", "notFound", "stale"}

\* No turn runs but one that is to be interrupted.
InHand == running = None \/ running \in orders

\* A line about a turn that runs no more, and one about its end, are followed by the
\* status; what clears the view, while a turn runs, by its announcement; and a
\* refusal clears the view of no turn that is to go on.
Told ==
  \A i \in DOMAIN wire :
    /\ Speaks(wire[i]) =>
            Subject(wire[i]) # None /\ (Subject(wire[i]) = running \/ Ended(i))
    /\ Breaks(wire[i]) => Ended(i)
    /\ Clears(wire[i]) => running = None \/ Begins(i)
    /\ Refuses(wire[i]) => InHand

\* One call is under way, and answered once.
OneCall ==
  /\ \A k, m \in Calls : Under(k) /\ Under(m) => k = m
  /\ \A i \in DOMAIN wire : wire[i].kind \in Replies => call[wire[i].turn].at = "answer"
  /\ \A i, j \in DOMAIN wire : wire[i].kind \in Replies /\ wire[j].kind \in Replies => i = j

\* A turn is asked for while none runs that is to go on, and steered while it runs.
Waits ==
  \A k \in Calls :
    /\ call[k].at \in {"preflight", "start", "resume"} => InHand
    /\ call[k].at = "steer" => call[k].steers # None /\ (InHand \/ running = call[k].steers)

Kept == Told /\ OneCall /\ Waits

\* What is left behind a place of the stream when a line has been taken.
LEMMA TakenLater ==
  ASSUME WireOK, NEW i, NEW kind, Arrives(i, kind), NEW j, j \in DOMAIN wire'
  PROVE  \E m \in DOMAIN wire :
           /\ m # i /\ wire'[j] = wire[m]
           /\ Ended(m) => Ended(j)'
           /\ wire[m].kind # "accepted" /\ running' = running /\ Begins(m) => Begins(j)'
<1>1. /\ i \in DOMAIN wire /\ DOMAIN wire = 1 .. Len(wire) /\ Len(wire) \in Nat
      /\ i = 1 \/ (i = 2 /\ wire[1].kind = "accepted" /\ wire[2].kind = "started")
      /\ DOMAIN wire' = 1 .. Len(wire) - 1
      /\ j < i => j \in DOMAIN wire /\ wire'[j] = wire[j]
      /\ j >= i => j + 1 \in DOMAIN wire /\ wire'[j] = wire[j + 1]
      /\ \A n \in DOMAIN wire :
              /\ n < i => n \in DOMAIN wire' /\ wire'[n] = wire[n]
              /\ n > i => n - 1 \in DOMAIN wire' /\ wire'[n - 1] = wire[n]
  BY Taken
<1>2. j \in Nat /\ i \in Nat /\ 1 <= j /\ 1 <= i
  BY <1>1
<1>3. CASE j >= i
  <2>1. j + 1 \in DOMAIN wire /\ j + 1 # i /\ wire'[j] = wire[j + 1]
    <3>1. j + 1 # i
      BY <1>2, <1>3
    <3>2. QED
      BY <1>1, <1>3, <3>1
  <2>2. ASSUME NEW n \in DOMAIN wire, n > j + 1
        PROVE  n - 1 \in DOMAIN wire' /\ n - 1 > j /\ wire'[n - 1] = wire[n]
    <3>1. n \in Nat
      BY <1>1
    <3>2. n > i /\ n - 1 > j
      BY <1>2, <1>3, <2>2, <3>1
    <3>3. QED
      BY <1>1, <3>2
  <2>3. Ended(j + 1) => Ended(j)'
    BY <2>2 DEF Ended
  <2>4. running' = running /\ Begins(j + 1) => Begins(j)'
    BY <2>2 DEF Begins
  <2>5. QED
    BY <2>1, <2>3, <2>4
<1>4. CASE j < i
  <2>1. i = 2 /\ j = 1 /\ wire[1].kind = "accepted" /\ wire[2].kind = "started"
    <3>1. i = 2
      BY <1>1, <1>2, <1>4
    <3>2. QED
      BY <1>1, <1>2, <1>4, <3>1
  <2>2. j \in DOMAIN wire /\ j # i /\ wire'[j] = wire[j]
    BY <1>1, <1>4, <2>1
  <2>3. ASSUME NEW n \in DOMAIN wire, n > j, wire[n].kind # "started"
        PROVE  n - 1 \in DOMAIN wire' /\ n - 1 > j /\ wire'[n - 1] = wire[n]
    <3>1. n \in Nat /\ n # 2
      BY <1>1, <2>1, <2>3
    <3>2. n > i /\ n - 1 > j
      BY <2>1, <2>3, <3>1
    <3>3. QED
      BY <1>1, <3>2
  <2>4. Ended(j) => Ended(j)'
    <3>1. ASSUME NEW n \in DOMAIN wire, n > j, wire[n].kind \in EndKinds PROVE Ended(j)'
      <4>1. wire[n].kind # "started"
        BY <3>1 DEF EndKinds
      <4>2. QED
        BY <2>3, <3>1, <4>1 DEF Ended
    <3>2. QED
      BY <3>1 DEF Ended
  <2>5. QED
    BY <2>1, <2>2, <2>4
<1>5. QED
  <2>1. j >= i \/ j < i
    BY <1>2
  <2>2. QED
    BY <2>1, <1>3, <1>4

\* What the stream had is still there, or was the line that was taken.
LEMMA TakenOne ==
  ASSUME WireOK, NEW i, NEW kind, Arrives(i, kind)
  PROVE  /\ Ended(0) => Ended(0)' \/ wire[i].kind \in EndKinds
         /\ running' = running /\ Begins(0) =>
              Begins(0)' \/ (wire[i].kind = "started" /\ wire[i].turn = running)
         /\ Ended(i) => Ended(0)'
         /\ running' = running /\ Begins(i) => Begins(0)'
<1>1. /\ i \in DOMAIN wire /\ DOMAIN wire = 1 .. Len(wire) /\ Len(wire) \in Nat
      /\ i = 1 \/ i = 2
      /\ \A n \in DOMAIN wire :
              /\ n < i => n \in DOMAIN wire' /\ wire'[n] = wire[n]
              /\ n > i => n - 1 \in DOMAIN wire' /\ wire'[n - 1] = wire[n]
  BY Taken
<1>2. \A n \in DOMAIN wire : n # i => \E m \in DOMAIN wire' : m > 0 /\ wire'[m] = wire[n]
  <2> TAKE n \in DOMAIN wire
  <2>1. CASE n < i
    BY <1>1, <2>1
  <2>2. CASE n > i
    <3>1. n - 1 \in DOMAIN wire' /\ wire'[n - 1] = wire[n] /\ n - 1 > 0
      BY <1>1, <2>2
    <3>2. QED
      BY <3>1
  <2>3. QED
    BY <1>1, <2>1, <2>2
<1>3. Ended(0) => Ended(0)' \/ wire[i].kind \in EndKinds
  BY <1>2 DEF Ended
<1>4. running' = running /\ Begins(0) =>
              Begins(0)' \/ (wire[i].kind = "started" /\ wire[i].turn = running)
  BY <1>2 DEF Begins
<1>5. Ended(i) => Ended(0)'
  BY <1>1, <1>2 DEF Ended
<1>6. running' = running /\ Begins(i) => Begins(0)'
  BY <1>1, <1>2 DEF Begins
<1>7. QED
  BY <1>3, <1>4, <1>5, <1>6

\* What is added takes nothing away.
LEMMA StillThere ==
  ASSUME NEW i, \A j \in DOMAIN wire : j \in DOMAIN wire' /\ wire'[j] = wire[j]
  PROVE  /\ Ended(i) => Ended(i)'
         /\ running' = running /\ Begins(i) => Begins(i)'
BY DEF Ended, Begins

\* A line is taken, and no turn begins or ends.
LEMMA ToldTaken ==
  ASSUME WireOK, Told, NEW i, NEW kind, Arrives(i, kind), running' = running, orders \subseteq orders',
         \A k \in Calls : call'[k].steers = call[k].steers
  PROVE  Told'
<1>1. InHand => InHand'
  BY DEF InHand
<1>2. SUFFICES ASSUME NEW j \in DOMAIN wire'
               PROVE  /\ Speaks(wire'[j]) =>
                              Subject(wire[j])' # None /\ (Subject(wire[j])' = running' \/ Ended(j)')
                      /\ Breaks(wire'[j]) => Ended(j)'
                      /\ Clears(wire'[j]) => running' = None \/ Begins(j)'
                      /\ Refuses(wire'[j]) => InHand'
  BY DEF Told, Speaks, WillRetry, Breaks, Clears, Refuses
<1>3. PICK m \in DOMAIN wire :
           /\ m # i /\ wire'[j] = wire[m]
           /\ Ended(m) => Ended(j)'
           /\ wire[m].kind # "accepted" /\ running' = running /\ Begins(m) => Begins(j)'
  BY TakenLater
<1>4. /\ Speaks(wire[m]) =>
              Subject(wire[m]) # None /\ (Subject(wire[m]) = running \/ Ended(m))
      /\ Breaks(wire[m]) => Ended(m)
      /\ Clears(wire[m]) => running = None \/ Begins(m)
      /\ Refuses(wire[m]) => InHand
  BY DEF Told
<1>5. Subject(wire[j])' = Subject(wire[m])
  <2>1. CASE wire[m].kind = "steered"
    <3>1. wire[m].turn \in Calls
      BY <2>1 DEF WireOK, IsLine, OfTurns, Replies, Turns
    <3>2. QED
      BY <1>3, <2>1, <3>1 DEF Subject
  <2>2. CASE wire[m].kind # "steered"
    BY <1>3, <2>2 DEF Subject
  <2>3. QED
    BY <2>1, <2>2
<1>6. Clears(wire[m]) => wire[m].kind # "accepted"
  BY DEF Clears
<1>7. QED
  BY <1>1, <1>3, <1>4, <1>5, <1>6

\* The replies that are left are of calls that are answered.
LEMMA RepliesTaken ==
  ASSUME WireOK, OneCall, NEW i, NEW kind, Arrives(i, kind)
  PROVE  /\ \A n \in DOMAIN wire' : wire'[n].kind \in Replies =>
              call[wire'[n].turn].at = "answer" /\ kind \notin Replies
         /\ \A n, p \in DOMAIN wire' :
              wire'[n].kind \in Replies /\ wire'[p].kind \in Replies => n = p
<1>1. /\ \A n \in DOMAIN wire : wire[n].kind \in Replies => call[wire[n].turn].at = "answer"
      /\ \A n, p \in DOMAIN wire : wire[n].kind \in Replies /\ wire[p].kind \in Replies => n = p
  BY DEF OneCall
<1>2. /\ DOMAIN wire = 1 .. Len(wire) /\ DOMAIN wire' = 1 .. Len(wire) - 1 /\ Len(wire) \in Nat
      /\ i \in DOMAIN wire /\ wire[i].kind = kind
      /\ \A j \in DOMAIN wire' :
              /\ j < i => j \in DOMAIN wire /\ wire'[j] = wire[j]
              /\ j >= i => j + 1 \in DOMAIN wire /\ wire'[j] = wire[j + 1]
  BY Taken
<1>3. ASSUME NEW n \in DOMAIN wire', wire'[n].kind \in Replies
      PROVE  call[wire'[n].turn].at = "answer" /\ kind \notin Replies
  <2>1. CASE n < i
    BY <1>1, <1>2, <1>3, <2>1
  <2>2. CASE n >= i
    <3>1. n + 1 # i
      BY <1>2, <2>2
    <3>2. QED
      BY <1>1, <1>2, <1>3, <2>2, <3>1
  <2>3. QED
    BY <1>2, <2>1, <2>2
<1>4. ASSUME NEW n \in DOMAIN wire', NEW p \in DOMAIN wire', wire'[n].kind \in Replies,
             wire'[p].kind \in Replies
      PROVE  n = p
  BY <1>1, <1>2, <1>4
<1>5. QED
  BY <1>3, <1>4

\* A notification is handled.
LEMMA NoticeKeeps ==
  ASSUME Typed, Kept, NEW i, NEW kind, Arrives(i, kind),
         UNCHANGED <<call, running>>, orders \subseteq orders'
  PROVE  Kept'
<1>1. WireOK /\ Told /\ OneCall /\ Waits
  BY DEF Typed, Kept
<1>2. InHand => InHand'
  BY DEF InHand
<1>3. Told'
  BY <1>1, ToldTaken
<1>4. OneCall'
  BY <1>1, RepliesTaken DEF OneCall, Under
<1>5. Waits'
  BY <1>1, <1>2 DEF Waits
<1>6. QED
  BY <1>3, <1>4, <1>5 DEF Kept

\* A reply is handled: its call is done, or resumes the thread.
LEMMA ReplyKeeps ==
  ASSUME Typed, Kept, NEW i, NEW kind \in Replies, Arrives(i, kind), UNCHANGED <<orders, running>>,
         \A m \in Calls : m # wire[i].turn => call'[m] = call[m],
         call'[wire[i].turn].steers = call[wire[i].turn].steers,
         \/ call'[wire[i].turn].at = "done"
         \/ call'[wire[i].turn].at = "resume" /\ kind = "notFound"
  PROVE  Kept'
<1>1. WireOK /\ Told /\ OneCall /\ Waits
  BY DEF Typed, Kept
<1> DEFINE k == wire[i].turn
<1>2. i \in DOMAIN wire /\ wire[i].kind = kind /\ k \in Calls
  BY <1>1, Taken DEF IsLine, OfTurns, Turns
<1>3. call[k].at = "answer" /\ Under(k) /\ \A m \in Calls : Under(m) => m = k
  BY <1>1, <1>2 DEF OneCall, Under
<1>4. Told'
  <2>1. \A m \in Calls : call'[m].steers = call[m].steers
    BY <1>2
  <2>2. QED
    BY <1>1, <2>1, ToldTaken
<1> HIDE DEF k
<1>5. \A m \in Calls : Under(m)' => m = k
  BY <1>3 DEF Under, k
<1>6. OneCall'
  <2>1. \A n \in DOMAIN wire' : ~(wire'[n].kind \in Replies)
    BY <1>1, RepliesTaken
  <2>2. QED
    BY <1>5, <2>1 DEF OneCall
<1>7. Waits'
  <2>1. kind = "notFound" => InHand
    BY <1>1, <1>2 DEF Told, Refuses
  <2>2. kind = "notFound" => InHand'
    BY <2>1 DEF InHand
  <2>3. ASSUME NEW m \in Calls
        PROVE  /\ call'[m].at \in {"preflight", "start", "resume"} => InHand'
               /\ call'[m].at = "steer" => /\ call'[m].steers # None
                                           /\ InHand' \/ running' = call'[m].steers
    <3>1. CASE m = k
      BY <2>2, <3>1 DEF k
    <3>2. CASE m # k
      BY <1>5, <3>2 DEF Under
    <3>3. QED
      BY <3>1, <3>2
  <2>4. QED
    BY <2>3 DEF Waits
<1>8. QED
  BY <1>4, <1>6, <1>7 DEF Kept

\* A turn ends, or the thread does.
LEMMA EndKeeps ==
  ASSUME Typed, Kept, NEW lines, EndLines(lines), Closing(lines), Emits(lines),
         running' = None, call' = call
  PROVE  Kept' /\ Ended(0)'
<1>1. WireOK /\ Told /\ OneCall /\ Waits
  BY DEF Typed, Kept
<1>2. lines \in Seq(Lines) /\ \A j \in DOMAIN lines : IsLine(lines[j])
  BY DEF EndLines
<1>3. /\ DOMAIN wire = 1 .. Len(wire) /\ Len(wire) \in Nat
      /\ DOMAIN lines = 1 .. Len(lines) /\ Len(lines) \in Nat
      /\ \A j \in DOMAIN wire : j \in DOMAIN wire' /\ wire'[j] = wire[j]
      /\ \A j \in DOMAIN lines :
           Len(wire) + j \in DOMAIN wire' /\ wire'[Len(wire) + j] = lines[j]
      /\ \A j \in DOMAIN wire' :
           j \notin DOMAIN wire => j - Len(wire) \in DOMAIN lines /\ wire'[j] = lines[j - Len(wire)]
      /\ DOMAIN wire' = 1 .. Len(wire) + Len(lines)
  BY <1>1, <1>2, Added
<1>4. InHand'
  BY DEF InHand
<1>5. /\ \A j \in DOMAIN wire : Ended(j)'
      /\ Ended(0)'
  <2>1. PICK e \in DOMAIN lines : lines[e].kind \in {"idle", "closed"}
    BY DEF Closing
  <2>2. /\ Len(wire) + e \in DOMAIN wire' /\ wire'[Len(wire) + e].kind \in EndKinds
    BY <1>3, <2>1 DEF EndKinds
  <2>3. Len(wire) + e > 0 /\ \A j \in DOMAIN wire : Len(wire) + e > j
    BY <1>3
  <2>4. QED
    BY <2>2, <2>3 DEF Ended
<1>6. ASSUME NEW j \in DOMAIN wire', j \notin DOMAIN wire
      PROVE  ~Speaks(wire'[j]) /\ (Breaks(wire'[j]) => Ended(j)') /\ ~Refuses(wire'[j])
             /\ wire'[j].kind \notin Replies
  <2> DEFINE n == j - Len(wire)
  <2>1. n \in DOMAIN lines /\ wire'[j] = lines[n]
    BY <1>3, <1>6
  <2>2. /\ lines[n].kind \in {"completed", "error", "idle", "closed", "stopped"}
        /\ lines[n].kind = "error" => lines[n].how # "willRetry"
    BY <2>1 DEF EndLines
  <2>3. ASSUME Breaks(wire'[j]) PROVE Ended(j)'
    <3>1. lines[n].kind \in {"completed", "error"}
      BY <2>1, <2>3 DEF Breaks
    <3>2. PICK m \in DOMAIN lines : m > n /\ lines[m].kind = "idle"
      BY <2>1, <3>1 DEF Closing
    <3>3. Len(wire) + m \in DOMAIN wire' /\ wire'[Len(wire) + m].kind = "idle"
      BY <1>3, <3>2
    <3>4. Len(wire) + m > j
      BY <1>3, <2>1, <3>2
    <3>5. QED
      BY <3>3, <3>4 DEF Ended, EndKinds
  <2>4. QED
    BY <2>1, <2>2, <2>3 DEF Speaks, WillRetry, Refuses, Replies
<1>7. Told'
  <2> SUFFICES ASSUME NEW j \in DOMAIN wire'
               PROVE  /\ Speaks(wire'[j]) => Subject(wire[j])' # None /\ Ended(j)'
                      /\ Breaks(wire'[j]) => Ended(j)'
    BY <1>4 DEF Told, Speaks, WillRetry, Breaks, Clears, Refuses
  <2>1. CASE j \in DOMAIN wire
    <3>1. Subject(wire[j])' = Subject(wire[j])
      BY <1>3, <2>1 DEF Subject
    <3>2. Speaks(wire[j]) => Subject(wire[j]) # None
      BY <1>1, <2>1 DEF Told
    <3>3. QED
      BY <1>3, <1>5, <2>1, <3>1, <3>2
  <2>2. QED
    BY <1>6, <2>1
<1>8. OneCall'
  <2>1. \A j \in DOMAIN wire' : wire'[j].kind \in Replies => j \in DOMAIN wire /\ wire'[j] = wire[j]
    BY <1>3, <1>6
  <2>2. QED
    BY <1>1, <2>1 DEF OneCall, Under
<1>9. Waits'
  BY <1>1, <1>4 DEF Waits
<1>10. QED
  BY <1>5, <1>7, <1>8, <1>9 DEF Kept

\* One line is added, of which what the invariant says holds.
LEMMA OneKeeps ==
  ASSUME WireOK, Told, NEW l, IsLine(l), Emits(<<l>>), running' = running,
         \A k \in Calls : call'[k].steers = call[k].steers,
         InHand => InHand',
         Speaks(l) => /\ (IF l.kind = "steered" THEN call[l.turn].steers ELSE l.turn) = running
                      /\ running # None,
         ~Breaks(l), ~Clears(l), Refuses(l) => InHand
  PROVE  Told'
<1>1. /\ DOMAIN wire = 1 .. Len(wire) /\ Len(wire) \in Nat
      /\ DOMAIN wire' = 1 .. Len(wire) + 1
      /\ \A j \in DOMAIN wire : j \in DOMAIN wire' /\ wire'[j] = wire[j]
      /\ wire'[Len(wire) + 1] = l
      /\ \A j \in DOMAIN wire' : j \in DOMAIN wire \/ j = Len(wire) + 1
  BY AddedOne
<1>2. ASSUME NEW m, IsLine(m)
      PROVE  Subject(m) = (IF m.kind = "steered" THEN call'[m.turn].steers ELSE m.turn)
  <2>1. m.kind = "steered" => m.turn \in Calls
    BY <1>2 DEF IsLine, OfTurns, Replies, Turns
  <2>2. QED
    BY <2>1 DEF Subject
<1>3. SUFFICES ASSUME NEW j \in DOMAIN wire'
               PROVE  /\ Speaks(wire'[j]) =>
                           LET t == IF wire'[j].kind = "steered" THEN call'[wire'[j].turn].steers
                                    ELSE wire'[j].turn IN
                           t # None /\ (t = running \/ Ended(j)')
                      /\ Breaks(wire'[j]) => Ended(j)'
                      /\ Clears(wire'[j]) => running' = None \/ Begins(j)'
                      /\ Refuses(wire'[j]) => InHand'
  BY DEF Told, Speaks, WillRetry, Breaks, Clears, Refuses, Subject
<1>4. CASE j \in DOMAIN wire
  <2>1. (Ended(j) => Ended(j)') /\ (Begins(j) => Begins(j)')
    BY <1>1, StillThere
  <2>2. IsLine(wire[j]) /\ wire'[j] = wire[j]
    BY <1>1, <1>4 DEF WireOK
  <2>3. /\ Speaks(wire[j]) =>
                Subject(wire[j]) # None /\ (Subject(wire[j]) = running \/ Ended(j))
        /\ Breaks(wire[j]) => Ended(j)
        /\ Clears(wire[j]) => running = None \/ Begins(j)
        /\ Refuses(wire[j]) => InHand
    BY <1>4 DEF Told
  <2>4. QED
    BY <1>2, <2>1, <2>2, <2>3
<1>5. CASE j = Len(wire) + 1
  <2>1. wire'[j] = l
    BY <1>1, <1>5
  <2>2. QED
    BY <1>2, <2>1 DEF Subject
<1>6. QED
  BY <1>1, <1>4, <1>5

\* A call is answered, but not with a turn.
LEMMA AnswerKeeps ==
  ASSUME Typed, Kept, NEW k \in Calls, call[k].at \in {"start", "steer"}, At(k, "answer"),
         NEW l, IsLine(l), l.kind \in Replies, l.kind # "accepted", l.turn = k, Emits(<<l>>),
         UNCHANGED <<orders, running>>, l.kind = "steered" => call[k].steers = running /\ running # None,
         Refuses(l) => InHand
  PROVE  Kept'
<1>1. WireOK /\ Told /\ OneCall /\ Waits /\ call \in [Calls -> CallSet]
  BY DEF Typed, Kept, TypeOK, CallSet
<1>2. /\ call'[k].at = "answer"
      /\ \A m \in Calls : call'[m].steers = call[m].steers
      /\ \A m \in Calls : m # k => call'[m] = call[m]
  BY <1>1 DEF At, CallSet
<1>3. Told'
  <2>1. /\ Speaks(l) => /\ (IF l.kind = "steered" THEN call[l.turn].steers ELSE l.turn) = running
                         /\ running # None
        /\ ~Breaks(l) /\ ~Clears(l)
    BY DEF Speaks, WillRetry, Breaks, Clears, Replies
  <2>2. InHand => InHand'
    BY DEF InHand
  <2>3. QED
    BY <1>1, <1>2, <2>1, <2>2, OneKeeps
<1>4. Under(k) /\ \A m \in Calls : Under(m) => m = k
  BY <1>1 DEF OneCall, Under
<1>5. \A m \in Calls : Under(m)' => m = k
  BY <1>2, <1>4 DEF Under
<1>6. OneCall'
  <2>1. /\ \A j \in DOMAIN wire : j \in DOMAIN wire' /\ wire'[j] = wire[j]
        /\ wire'[Len(wire) + 1] = l
        /\ \A j \in DOMAIN wire' : j \in DOMAIN wire \/ j = Len(wire) + 1
    BY <1>1, AddedOne
  <2>2. \A j \in DOMAIN wire : wire[j].kind \notin Replies
    <3> SUFFICES ASSUME NEW j \in DOMAIN wire, wire[j].kind \in Replies PROVE FALSE
      OBVIOUS
    <3>1. wire[j].turn \in Calls
      BY <1>1 DEF WireOK, IsLine, OfTurns, Turns
    <3>2. call[wire[j].turn].at = "answer"
      BY <1>1 DEF OneCall
    <3>3. wire[j].turn = k
      BY <1>4, <3>1, <3>2 DEF Under
    <3>4. QED
      BY <3>2, <3>3
  <2>3. \A j \in DOMAIN wire' : wire'[j].kind \in Replies => j = Len(wire) + 1 /\ wire'[j].turn = k
    BY <2>1, <2>2
  <2>4. QED
    BY <1>2, <1>5, <2>3 DEF OneCall
<1>7. Waits'
  <2>1. \A m \in Calls : call'[m].at \notin {"preflight", "start", "resume", "steer"}
    BY <1>2, <1>5 DEF Under
  <2>2. QED
    BY <2>1 DEF Waits
<1>8. QED
  BY <1>3, <1>6, <1>7 DEF Kept

\* A turn is accepted.
LEMMA AcceptKeeps ==
  ASSUME Typed, Kept, NEW k \in Calls, Accept(k)
  PROVE  Kept' /\ Begins(0)'
<1>1. WireOK /\ Told /\ OneCall /\ Waits /\ call \in [Calls -> CallSet]
  BY DEF Typed, Kept, TypeOK, CallSet
<1>2. /\ call[k].at = "start" /\ running = None /\ running' = k /\ At(k, "answer")
  BY DEF Accept
<1>3. /\ DOMAIN wire = 1 .. Len(wire) /\ Len(wire) \in Nat
      /\ DOMAIN wire' = 1 .. Len(wire) + 3
      /\ \A j \in DOMAIN wire : j \in DOMAIN wire' /\ wire'[j] = wire[j]
      /\ wire'[Len(wire) + 1].kind = "accepted" /\ wire'[Len(wire) + 1].turn = k
      /\ wire'[Len(wire) + 2].kind = "started" /\ wire'[Len(wire) + 2].turn = k
      /\ wire'[Len(wire) + 3].kind = "active" /\ wire'[Len(wire) + 3].turn = k
      /\ \A j \in DOMAIN wire' :
              j \in DOMAIN wire \/ j \in {Len(wire) + 1, Len(wire) + 2, Len(wire) + 3}
  BY <1>1, AddedStart DEF Turns
<1>4. /\ call'[k].at = "answer"
      /\ \A m \in Calls : call'[m].steers = call[m].steers
      /\ \A m \in Calls : m # k => call'[m] = call[m]
  BY <1>1, <1>2 DEF At, CallSet
<1>5. \A m \in Calls : Under(m) => m = k
  BY <1>1, <1>2 DEF OneCall, Under
<1>6. \A j \in DOMAIN wire : wire[j].kind \notin Replies
  <2> SUFFICES ASSUME NEW j \in DOMAIN wire, wire[j].kind \in Replies PROVE FALSE
    OBVIOUS
  <2>1. wire[j].turn \in Calls
    BY <1>1 DEF WireOK, IsLine, OfTurns, Turns
  <2>2. call[wire[j].turn].at = "answer"
    BY <1>1 DEF OneCall
  <2>3. wire[j].turn = k
    BY <1>5, <2>1, <2>2 DEF Under
  <2>4. QED
    BY <1>2, <2>2, <2>3
<1>7. /\ \A j \in DOMAIN wire : Begins(j)'
      /\ Begins(0)'
  <2>1. Len(wire) + 2 \in DOMAIN wire' /\ Len(wire) + 2 > 0
        /\ \A j \in DOMAIN wire : Len(wire) + 2 > j
    BY <1>3
  <2>2. QED
    BY <1>2, <1>3, <2>1 DEF Begins
<1>8. Told'
  <2> SUFFICES ASSUME NEW j \in DOMAIN wire'
               PROVE  /\ Speaks(wire'[j]) =>
                              Subject(wire[j])' # None /\ (Subject(wire[j])' = running' \/ Ended(j)')
                      /\ Breaks(wire'[j]) => Ended(j)'
                      /\ Clears(wire'[j]) => running' = None \/ Begins(j)'
                      /\ Refuses(wire'[j]) => InHand'
    BY DEF Told, Speaks, WillRetry, Breaks, Clears, Refuses
  <2>1. CASE j \in DOMAIN wire
    <3>1. Ended(j) => Ended(j)'
      BY <1>3, StillThere
    <3>2. IsLine(wire[j]) /\ wire'[j] = wire[j] /\ wire[j].kind \notin Replies
      BY <1>1, <1>3, <1>6, <2>1 DEF WireOK
    <3>3. /\ Speaks(wire[j]) =>
                  Subject(wire[j]) # None /\ (Subject(wire[j]) = running \/ Ended(j))
          /\ Breaks(wire[j]) => Ended(j)
      BY <1>1, <2>1 DEF Told
    <3>4. Speaks(wire[j]) => Subject(wire[j]) # running /\ Subject(wire[j])' # None
      <4>1. Speaks(wire[j]) => /\ wire[j].turn \in Turns /\ Subject(wire[j]) = wire[j].turn
                               /\ Subject(wire[j])' = wire[j].turn
        BY <3>2 DEF Speaks, WillRetry, Subject, IsLine, OfTurns, Replies
      <4>2. None \notin Turns
        BY TurnsAssumption DEF Turns
      <4>3. QED
        BY <1>2, <4>1, <4>2
    <3>5. ~Refuses(wire[j])
      BY <3>2 DEF Refuses, Replies
    <3>6. Clears(wire'[j]) => Begins(j)'
      BY <1>7, <2>1
    <3>7. Speaks(wire[j]) => Ended(j)
      BY <3>3, <3>4
    <3>8. QED
      BY <3>1, <3>2, <3>3, <3>4, <3>5, <3>6, <3>7
  <2>2. CASE j \in {Len(wire) + 1, Len(wire) + 2, Len(wire) + 3}
    <3>1. wire'[j].kind \in {"accepted", "started", "active"} /\ wire'[j].turn = k
      BY <1>3, <2>2
    <3>2. Subject(wire[j])' = k
      BY <3>1 DEF Subject
    <3>3. k # None
      BY TurnsAssumption
    <3>4. QED
      BY <1>2, <3>1, <3>2, <3>3 DEF Breaks, Clears, Refuses
  <2>3. QED
    BY <1>3, <2>1, <2>2
<1>9. OneCall'
  <2>1. \A j \in DOMAIN wire' : wire'[j].kind \in Replies => j = Len(wire) + 1 /\ wire'[j].turn = k
    <3>1. ASSUME NEW j \in DOMAIN wire', wire'[j].kind \in Replies
          PROVE  j = Len(wire) + 1 /\ wire'[j].turn = k
      <4>1. CASE j \in DOMAIN wire
        BY <1>3, <1>6, <3>1, <4>1
      <4>2. CASE j \in {Len(wire) + 2, Len(wire) + 3}
        BY <1>3, <3>1, <4>2 DEF Replies
      <4>3. QED
        BY <1>3, <4>1, <4>2
    <3>2. QED
      BY <3>1
  <2>2. \A m \in Calls : Under(m)' => m = k
    BY <1>4, <1>5 DEF Under
  <2>3. QED
    BY <1>4, <2>1, <2>2 DEF OneCall
<1>10. Waits'
  <2>1. \A m \in Calls : call'[m].at \notin {"preflight", "start", "resume", "steer"}
    BY <1>4, <1>5 DEF Under
  <2>2. QED
    BY <2>1 DEF Waits
<1>11. QED
  BY <1>7, <1>8, <1>9, <1>10 DEF Kept

\* A call goes on, or gives up, before it asks.
LEMMA GoesOn ==
  ASSUME Typed, Kept, NEW k \in Calls, NEW label \in {"start", "done"}, At(k, label),
         call[k].at \in {"preflight", "resume"}, UNCHANGED <<wire, orders, running>>
  PROVE  Kept'
<1>1. WireOK /\ Told /\ OneCall /\ Waits /\ call \in [Calls -> CallSet]
  BY DEF Typed, Kept, TypeOK, CallSet
<1>2. /\ call'[k].at = label
      /\ \A m \in Calls : call'[m].steers = call[m].steers
      /\ \A m \in Calls : m # k => call'[m] = call[m]
  BY <1>1 DEF At, CallSet
<1>3. \A i \in DOMAIN wire : wire[i].kind \in Replies => wire[i].turn \in Calls
  BY <1>1 DEF WireOK, IsLine, OfTurns, Turns
<1>4. (InHand <=> InHand') /\ \A i : (Ended(i) <=> Ended(i)') /\ (Begins(i) <=> Begins(i)')
  BY DEF InHand, Ended, Begins
<1>5. \A i \in DOMAIN wire : Subject(wire[i])' = Subject(wire[i])
  BY <1>2, <1>3 DEF Subject, Replies
<1>6. Told'
  <2>1. \A i \in DOMAIN wire :
          /\ Speaks(wire[i]) =>
                  Subject(wire[i]) # None /\ (Subject(wire[i]) = running \/ Ended(i))
          /\ Breaks(wire[i]) => Ended(i)
          /\ Clears(wire[i]) => running = None \/ Begins(i)
          /\ Refuses(wire[i]) => InHand
    BY <1>1 DEF Told
  <2> SUFFICES ASSUME NEW j \in DOMAIN wire'
               PROVE  /\ Speaks(wire'[j]) =>
                              Subject(wire[j])' # None /\ (Subject(wire[j])' = running' \/ Ended(j)')
                      /\ Breaks(wire'[j]) => Ended(j)'
                      /\ Clears(wire'[j]) => running' = None \/ Begins(j)'
                      /\ Refuses(wire'[j]) => InHand'
    BY DEF Told, Speaks, WillRetry, Breaks, Clears, Refuses
  <2>2. QED
    BY <1>4, <1>5, <2>1
<1>7. OneCall'
  <2>1. \A m \in Calls : Under(m)' => Under(m)
    BY <1>2 DEF Under
  <2>2. \A i \in DOMAIN wire : wire[i].kind \in Replies => call'[wire[i].turn].at = "answer"
    BY <1>1, <1>2, <1>3 DEF OneCall
  <2>3. QED
    BY <1>1, <2>1, <2>2 DEF OneCall
<1>8. Waits'
  <2>1. InHand
    BY <1>1 DEF Waits
  <2>2. \A m \in Calls : call'[m].at = "steer" => call[m].at = "steer"
    BY <1>2
  <2>3. QED
    BY <1>1, <1>2, <1>4, <2>1, <2>2 DEF Waits
<1>9. QED
  BY <1>6, <1>7, <1>8 DEF Kept

\* Nothing changes but what the user asks to stop.
LEMMA StaysKept ==
  ASSUME Kept, UNCHANGED <<wire, call, running>>, InHand => InHand'
  PROVE  Kept'
<1>1. \A i : (Ended(i) <=> Ended(i)') /\ (Begins(i) <=> Begins(i)')
  BY DEF Ended, Begins
<1>2. \A i \in DOMAIN wire : Subject(wire[i])' = Subject(wire[i])
  BY DEF Subject
<1>3. \A i \in DOMAIN wire :
          /\ Speaks(wire[i]) =>
                  Subject(wire[i]) # None /\ (Subject(wire[i]) = running \/ Ended(i))
          /\ Breaks(wire[i]) => Ended(i)
          /\ Clears(wire[i]) => running = None \/ Begins(i)
          /\ Refuses(wire[i]) => InHand
  BY DEF Kept, Told
<1>4. Told'
  <2> SUFFICES ASSUME NEW j \in DOMAIN wire'
               PROVE  /\ Speaks(wire'[j]) =>
                              Subject(wire[j])' # None /\ (Subject(wire[j])' = running' \/ Ended(j)')
                      /\ Breaks(wire'[j]) => Ended(j)'
                      /\ Clears(wire'[j]) => running' = None \/ Begins(j)'
                      /\ Refuses(wire'[j]) => InHand'
    BY DEF Told, Speaks, WillRetry, Breaks, Clears, Refuses
  <2>1. QED
    BY <1>1, <1>2, <1>3
<1>5. OneCall'
  BY DEF Kept, OneCall, Under
<1>6. Waits'
  BY DEF Kept, Waits
<1>7. QED
  BY <1>4, <1>5, <1>6 DEF Kept

-----------------------------------------------------------------------------
(* What that user sees. *)

\* The reducer and the hook's refs name t, now and once the view is committed.
Sees(t) == turn.active = t /\ KnownAt(refs, shown.active) = t /\ KnownAt(refs, t) = t

Busy == \E k \in Calls : call[k].at \in {"start", "resume", "answer"}

\* A turn that runs is seen, about to be announced or to be interrupted; when none
\* runs none is seen, or its end is about to be heard.
View ==
  /\ running # None => Begins(0) \/ running \in orders \/ (Sees(running) /\ turn.processing)
  /\ running = None => Ended(0) \/ (Sees(None) /\ (turn.processing => Busy))

\* Refs that are looked up name what they named.
LEMMA LookSees ==
  ASSUME TypeOK, NEW t \in MaybeTurns, KnownTurn(refs) = t, shown' = shown,
         \/ refs' = LookUp(refs)
         \/ refs' = NoteInterrupt(LookUp(refs))
  PROVE  KnownAt(refs', shown'.active) = t /\ KnownAt(refs', t) = t
<1>1. /\ KnownAt(LookUp(refs), shown.active) = t
      /\ KnownAt(LookUp(refs), t) \in {t, KnownTurn(refs)}
      /\ LookUp(refs) \in RefSet
  BY Looks
<1> DEFINE l == LookUp(refs)
<1> HIDE DEF l
<1>2. CASE refs' = l
  BY <1>1, <1>2 DEF l
<1>3. CASE refs' = NoteInterrupt(l)
  <2>1. l \in RefSet
    BY <1>1 DEF l
  <2>2. refs'.known = l.known /\ refs'.ahead = l.ahead /\ refs'.adopted = l.adopted
    BY <1>3, <2>1 DEF NoteInterrupt, RefSet
  <2>3. KnownAt(refs', shown.active) = KnownAt(l, shown.active) /\ KnownAt(refs', t) = KnownAt(l, t)
    BY <2>2, SameKnown
  <2>4. QED
    BY <1>1, <2>3 DEF l
<1>4. QED
  BY <1>2, <1>3 DEF l

\* Refs that are reset name no turn.
LEMMA EndSees ==
  ASSUME TypeOK, NEW t, NEW continues, EndedRefs(refs', t, continues), turn' = Idle, shown' = shown
  PROVE  Sees(None)' /\ ~turn'.processing
<1>1. refs'.known = None /\ refs'.adopted = shown.active /\ None # Unset
  BY TurnsAssumption DEF EndedRefs
<1>2. turn'.active = None /\ turn'.processing = FALSE
  BY DEF Idle
<1>3. KnownAt(refs', shown'.active) = None /\ KnownAt(refs', None) = None
  BY <1>1 DEF KnownAt
<1>4. QED
  BY <1>2, <1>3 DEF Sees

\* A turn runs no end of which is about to be heard.
LEMMA EndedBegins ==
  ASSUME WireOK, Told, NEW i \in DOMAIN wire, Ended(i), running # None
  PROVE  Begins(i)
<1>1. PICK j \in DOMAIN wire : j > i /\ wire[j].kind \in EndKinds
  BY DEF Ended
<1>2. Begins(j)
  BY <1>1 DEF Told, Clears, EndKinds
<1>3. PICK m \in DOMAIN wire : m > j /\ wire[m].kind = "started" /\ wire[m].turn = running
  BY <1>2 DEF Begins
<1>4. i \in Nat /\ j \in Nat /\ m \in Nat
  BY DEF WireOK
<1>5. m > i
  BY <1>1, <1>3, <1>4
<1>6. QED
  BY <1>3, <1>5 DEF Begins

\* What is taken is of no account when the thread's status is still to come.
LEMMA EndedView ==
  ASSUME WireOK, Told, NEW i, NEW kind, Arrives(i, kind), running' = running, Ended(i)
  PROVE  View'
<1>1. i \in DOMAIN wire
  BY Taken
<1>2. running = None => Ended(0)'
  BY TakenOne
<1>3. running # None => Begins(0)'
  BY <1>1, EndedBegins, TakenOne
<1>4. QED
  BY <1>2, <1>3 DEF View

\* It suffices to look at what is seen.
LEMMA TakenView ==
  ASSUME WireOK, View, NEW i, NEW kind, Arrives(i, kind), running' = running, orders \subseteq orders',
         kind # "started",
         running # None /\ Sees(running) /\ turn.processing => Sees(running)' /\ turn'.processing,
         running = None /\ (kind \in EndKinds \/ (Sees(None) /\ (turn.processing => Busy))) =>
           Sees(None)' /\ (turn'.processing => Busy')
  PROVE  View'
<1>1. wire[i].kind = kind
  BY Taken
<1>2. running = None /\ Ended(0) => Ended(0)' \/ kind \in EndKinds
  BY <1>1, TakenOne
<1>3. running # None /\ Begins(0) => Begins(0)'
  BY <1>1, TakenOne
<1>4. QED
  BY <1>2, <1>3 DEF View, Sees

\* The app-server's notifications.
LEMMA NoticesView ==
  ASSUME Typed, Kept, View, NEW i,
         \/ OnTurnStarted(i) \/ OnTurnCompleted(i) \/ OnTurnError(i)
         \/ OnStatusActive(i) \/ OnStatusIdle(i) \/ OnThreadClosed(i) \/ StopAnswered(i)
  PROVE  Kept' /\ View'
<1>1. WireOK /\ TypeOK /\ Told
  BY DEF Typed, Kept
<1>2. /\ running \in MaybeTurns /\ None \notin Turns /\ shown.active \in MaybeTurns
      /\ refs \in RefSet /\ KnownTurn(refs) \in MaybeTurns
      /\ KnownTurn(refs) = KnownAt(refs, shown.active)
      /\ turn \in ViewSet
  BY <1>1, TurnsAssumption, Looks DEF TypeOK, MaybeTurns, RefSet, Turns, ViewSet
<1>3. ASSUME NEW kind, Arrives(i, kind)
      PROVE  /\ i \in DOMAIN wire /\ wire[i].kind = kind /\ IsLine(wire[i])
             /\ Speaks(wire[i]) =>
                  Subject(wire[i]) # None /\ (Subject(wire[i]) = running \/ Ended(i))
             /\ Breaks(wire[i]) => Ended(i)
             /\ Clears(wire[i]) => running = None \/ Begins(i)
  <2>1. i \in DOMAIN wire /\ wire[i].kind = kind /\ IsLine(wire[i])
    BY <1>1, <1>3, Taken
  <2>2. QED
    BY <1>1, <2>1 DEF Told
<1>4. \A t \in Turns \cup {None} : (IF KnownTurn(refs) # None THEN KnownTurn(refs) ELSE t) \in MaybeTurns
  BY <1>2 DEF MaybeTurns
<1>5. refs.execution \in Turns \cup {None}
  BY <1>2 DEF RefSet
<1>6. CASE OnTurnStarted(i)
  <2> DEFINE t == wire[i].turn
  <2>1. /\ Arrives(i, "started") /\ UNCHANGED <<call, running, shown>> /\ orders \subseteq orders'
        /\ \/ t \in orders'
           \/ /\ turn' = [processing |-> TRUE, active |-> t]
              /\ refs' = [[refs EXCEPT !.execution = t, !.continues = FALSE]
                            EXCEPT !.adopted = shown.active, !.ahead = TRUE, !.known = t]
    BY <1>6 DEF OnTurnStarted
  <2>2. Kept'
    BY <2>1, NoticeKeeps
  <2>3. /\ t \in Turns /\ (t = running \/ Ended(i))
    BY <1>3, <2>1 DEF Speaks, Subject, IsLine, OfTurns
  <2> HIDE DEF t
  <2>4. CASE Ended(i)
    BY <1>1, <2>1, <2>2, <2>4, EndedView
  <2>5. CASE t = running /\ t \in orders'
    BY <1>2, <2>1, <2>2, <2>3, <2>5 DEF View
  <2>6. CASE /\ t = running
             /\ turn' = [processing |-> TRUE, active |-> t]
             /\ refs' = [[refs EXCEPT !.execution = t, !.continues = FALSE]
                            EXCEPT !.adopted = shown.active, !.ahead = TRUE, !.known = t]
    <3>1. refs'.known = t /\ refs'.adopted = shown.active
      BY <1>2, <2>6 DEF RefSet
    <3>2. t # Unset
      BY <2>3, TurnsAssumption DEF Turns
    <3>3. KnownAt(refs', shown'.active) = t /\ KnownAt(refs', t) = t
      BY <2>1, <3>1, <3>2 DEF KnownAt
    <3>4. turn'.active = t /\ turn'.processing
      BY <2>6
    <3>5. Sees(running)'
      BY <2>1, <2>6, <3>3, <3>4 DEF Sees
    <3>6. QED
      BY <1>2, <2>1, <2>2, <2>3, <2>6, <3>4, <3>5 DEF View
  <2>7. QED
    BY <2>1, <2>3, <2>4, <2>5, <2>6
<1>7. CASE OnTurnCompleted(i)
  <2>1. Arrives(i, "completed") /\ UNCHANGED <<call, running, orders>>
    BY <1>7 DEF OnTurnCompleted
  <2>2. Ended(i)
    BY <1>3, <2>1 DEF Breaks
  <2>3. QED
    BY <1>1, <2>1, <2>2, EndedView, NoticeKeeps
<1>8. CASE OnTurnError(i)
  <2>1. Arrives(i, "error") /\ UNCHANGED <<call, running, orders, shown>>
    BY <1>8 DEF OnTurnError
  <2>2. Kept'
    BY <2>1, NoticeKeeps
  <2>3. CASE Ended(i)
    BY <1>1, <2>1, <2>2, <2>3, EndedView
  <2>4. CASE ~Ended(i)
    <3>1. wire[i].how = "willRetry" /\ wire[i].turn = running /\ running # None
      BY <1>3, <2>1, <2>4 DEF Breaks, Speaks, WillRetry, Subject
    <3>2. refs' = [refs EXCEPT !.continues = TRUE] /\ turn' = turn
      BY <1>8, <3>1 DEF OnTurnError
    <3>3. refs'.known = refs.known /\ refs'.ahead = refs.ahead /\ refs'.adopted = refs.adopted
      BY <1>2, <3>2 DEF RefSet
    <3>4. \A s : KnownAt(refs', s) = KnownAt(refs, s)
      BY <3>3, SameKnown
    <3>5. Sees(running) => Sees(running)'
      BY <2>1, <3>2, <3>4 DEF Sees
    <3>6. View'
      <4> USE <1>1, <2>1, <3>1, <3>2, <3>5
      <4>1. "error" # "started"
        OBVIOUS
      <4>2. QED
        BY <4>1, TakenView
    <3>7. QED
      BY <2>2, <3>6
  <2>5. QED
    BY <2>3, <2>4
<1>9. CASE OnStatusActive(i)
  <2>1. /\ Arrives(i, "active") /\ UNCHANGED <<call, running, orders, shown>>
        /\ refs' = LookUp(refs) /\ turn' \in {turn, [turn EXCEPT !.processing = TRUE]}
    BY <1>9 DEF OnStatusActive
  <2>2. Kept'
    BY <2>1, NoticeKeeps
  <2>3. CASE Ended(i)
    BY <1>1, <2>1, <2>2, <2>3, EndedView
  <2>4. CASE ~Ended(i)
    <3>1. running # None
      BY <1>3, <2>1, <2>4 DEF Speaks
    <3>2. ASSUME Sees(running), turn.processing PROVE Sees(running)' /\ turn'.processing
      <4>1. KnownTurn(refs) = running
        BY <1>2, <3>2 DEF Sees
      <4>2. KnownAt(refs', shown'.active) = running /\ KnownAt(refs', running) = running
        BY <1>1, <1>2, <2>1, <4>1, LookSees
      <4>3. turn'.active = running /\ turn'.processing
        BY <1>2, <2>1, <3>2 DEF Sees, ViewSet
      <4>4. QED
        BY <2>1, <4>2, <4>3 DEF Sees
    <3>3. View'
      BY <1>1, <2>1, <3>1, <3>2, TakenView
    <3>4. QED
      BY <2>2, <3>3
  <2>5. QED
    BY <2>3, <2>4
<1>10. ASSUME NEW kind \in EndKinds, Arrives(i, kind), NEW t, NEW continues,
              UNCHANGED <<call, running, orders, shown>>,
              EndedRefs(refs', t, continues), turn' = Idle
       PROVE  Kept' /\ View'
  <2>1. running = None \/ Begins(i)
    BY <1>3, <1>10 DEF Clears, EndKinds
  <2>2. Sees(None)' /\ ~turn'.processing
    BY <1>1, <1>10, EndSees
  <2>3. Kept'
    BY <1>10, NoticeKeeps
  <2>4. running # None => Begins(0)'
    BY <1>1, <1>10, <2>1, TakenOne
  <2>5. View'
    BY <1>10, <2>2, <2>4 DEF View
  <2>6. QED
    BY <2>3, <2>5
<1>11. CASE OnStatusIdle(i)
  <2> DEFINE t == IF KnownTurn(refs) # None THEN KnownTurn(refs) ELSE refs.execution
  <2>1. t \in MaybeTurns
    BY <1>4, <1>5
  <2>2. Arrives(i, "idle") /\ UNCHANGED <<call, running, orders, shown>> /\ turn' = Idle
    BY <1>11 DEF OnStatusIdle, NoLongerProcessing
  <2>3. refs' = Reset(LookUp(refs)) \/ refs' = Reset(Finalized(LookUp(refs), t))
    BY <1>11 DEF OnStatusIdle
  <2> HIDE DEF t
  <2>4. EndedRefs(refs', t, refs.continues) \/ EndedRefs(refs', None, refs.continues)
    BY <1>1, <2>1, <2>3, EndsAre
  <2>5. PICK e : EndedRefs(refs', e, refs.continues)
    BY <2>4
  <2>6. "idle" \in EndKinds
    BY DEF EndKinds
  <2>7. QED
    BY <1>10, <2>2, <2>5, <2>6
<1>12. CASE OnThreadClosed(i)
  <2> DEFINE t == IF KnownTurn(refs) # None THEN KnownTurn(refs) ELSE refs.execution
  <2>1. t \in MaybeTurns
    BY <1>4, <1>5
  <2>2. Arrives(i, "closed") /\ UNCHANGED <<call, running, orders, shown>> /\ turn' = Idle
    BY <1>12 DEF OnThreadClosed
  <2>3. refs' = Reset([Finalized(LookUp(refs), t) EXCEPT !.continues = FALSE])
    BY <1>12 DEF OnThreadClosed
  <2> HIDE DEF t
  <2>4. EndedRefs(refs', t, FALSE)
    BY <1>1, <2>1, <2>3, EndsAre
  <2>5. "closed" \in EndKinds
    BY DEF EndKinds
  <2>6. QED
    BY <1>10, <2>2, <2>4, <2>5
<1>13. CASE StopAnswered(i)
  <2>1. UNCHANGED <<call, running, orders, shown, refs>>
    BY <1>13 DEF StopAnswered
  <2>2. PICK kind \in {"stopped", "unstopped"} :
          Arrives(i, kind) /\ ((kind = "stopped" /\ turn' = Idle) \/ turn' = turn)
    <3>1. PICK kind \in {"stopped", "unstopped"} : Arrives(i, kind)
      BY <1>13 DEF StopAnswered
    <3>2. wire[i].kind = kind
      BY <1>3, <3>1
    <3>3. (kind = "stopped" /\ turn' = Idle) \/ turn' = turn
      BY <1>13, <3>2 DEF StopAnswered
    <3>4. QED
      BY <3>1, <3>3
  <2>3. Kept'
    BY <2>1, <2>2, NoticeKeeps
  <2>4. Busy' = Busy
    BY <2>1 DEF Busy
  <2>5. CASE turn' = turn
    <3>1. \A s : Sees(s)' <=> Sees(s)
      BY <2>1, <2>5 DEF Sees
    <3>2. Sees(None)' <=> Sees(None)
      BY <3>1
    <3>3. Sees(running)' <=> Sees(running)
      BY <2>1, <2>5 DEF Sees
    <3>4. View'
      BY <1>1, <2>1, <2>2, <2>4, <2>5, <3>2, <3>3, TakenView DEF EndKinds
    <3>5. QED
      BY <2>3, <3>4
  <2>6. CASE kind = "stopped" /\ turn' = Idle
    <3>1. running = None \/ Begins(i)
      BY <1>3, <2>2, <2>6 DEF Clears
    <3>2. CASE running # None
      <4>1. Begins(0)'
        BY <1>1, <2>1, <2>2, <3>1, <3>2, TakenOne
      <4>2. QED
        BY <2>1, <2>3, <3>2, <4>1 DEF View
    <3>3. CASE running = None
      <4>1. turn'.active = None /\ turn'.processing = FALSE
        BY <2>6 DEF Idle
      <4>2. Sees(None) => Sees(None)'
        BY <2>1, <4>1 DEF Sees
      <4>3. View'
        BY <1>1, <2>1, <2>2, <2>6, <3>3, <4>1, <4>2, TakenView DEF EndKinds
      <4>4. QED
        BY <2>3, <4>3
    <3>4. QED
      BY <3>2, <3>3
  <2>7. QED
    BY <2>2, <2>5, <2>6
<1>14. QED
  BY <1>6, <1>7, <1>8, <1>9, <1>11, <1>12, <1>13

\* The replies.
LEMMA RepliesView ==
  ASSUME Typed, Kept, View, NEW i,
         \/ StartAccepted(i) \/ StartRefused(i) \/ StartNotFound(i)
         \/ SteerAccepted(i) \/ SteerStale(i)
  PROVE  Kept' /\ View'
<1>1. /\ WireOK /\ TypeOK /\ Told /\ turn \in ViewSet /\ call \in [Calls -> CallSet]
      /\ None \notin Turns
  BY TurnsAssumption DEF Typed, Kept, TypeOK, ViewSet, CallSet, Turns
<1> DEFINE k == wire[i].turn
<1>2. ASSUME NEW kind, Arrives(i, kind)
      PROVE  /\ i \in DOMAIN wire /\ wire[i].kind = kind /\ IsLine(wire[i])
             /\ Speaks(wire[i]) =>
                  Subject(wire[i]) # None /\ (Subject(wire[i]) = running \/ Ended(i))
             /\ Refuses(wire[i]) => InHand
  <2>1. i \in DOMAIN wire /\ wire[i].kind = kind /\ IsLine(wire[i])
    BY <1>1, <1>2, Taken
  <2>2. QED
    BY <1>1, <2>1 DEF Told
<1>3. ASSUME NEW kind \in Replies, Arrives(i, kind), Done(k), ReplyFrame PROVE Kept'
  <2>1. k \in Calls
    BY <1>2, <1>3 DEF IsLine, OfTurns, Turns
  <2>2. /\ call'[k].at = "done" /\ call'[k].steers = call[k].steers
        /\ \A m \in Calls : m # k => call'[m] = call[m]
    BY <1>1, <1>3, <2>1 DEF Done, At, CallSet
  <2>3. QED
    BY <1>3, <2>2, ReplyKeeps DEF ReplyFrame
<1>4. ASSUME NEW kind \in {"refused", "notFound", "stale"}, Arrives(i, kind), ReplyFrame, turn' = Idle
      PROVE  View'
  <2>1. InHand
    BY <1>2, <1>4 DEF Refuses
  <2>2. turn'.active = None /\ turn'.processing = FALSE
    BY <1>4 DEF Idle
  <2>3. Sees(None) => Sees(None)'
    BY <1>4, <2>2 DEF Sees, ReplyFrame
  <2>4. CASE running = None
    BY <1>1, <1>4, <2>2, <2>3, <2>4, TakenView DEF EndKinds, ReplyFrame
  <2>5. CASE running # None
    BY <1>4, <2>1, <2>5 DEF InHand, View, ReplyFrame
  <2>6. QED
    BY <2>4, <2>5
<1>5. ASSUME NEW kind \in {"accepted", "steered"}, Arrives(i, kind), ReplyFrame,
             turn' = [turn EXCEPT !.active = Subject(wire[i])]
      PROVE  View'
  <2>1. Subject(wire[i]) # None /\ (Subject(wire[i]) = running \/ Ended(i))
    BY <1>2, <1>5 DEF Speaks
  <2>2. CASE Ended(i)
    BY <1>1, <1>5, <2>2, EndedView DEF ReplyFrame
  <2>3. CASE Subject(wire[i]) = running
    <3>1. turn'.active = running /\ turn'.processing = turn.processing
      BY <1>1, <1>5, <2>3 DEF ViewSet
    <3>2. Sees(running) => Sees(running)'
      BY <1>5, <3>1 DEF Sees, ReplyFrame
    <3>3. running # None
      BY <2>1, <2>3
    <3>4. QED
      BY <1>1, <1>5, <3>1, <3>2, <3>3, TakenView DEF ReplyFrame
  <2>4. QED
    BY <2>1, <2>2, <2>3
<1>6. CASE StartAccepted(i)
  <2>1. Arrives(i, "accepted") /\ Done(k) /\ ReplyFrame /\ turn' = [turn EXCEPT !.active = k]
    BY <1>6 DEF StartAccepted
  <2>2. Subject(wire[i]) = k
    BY <1>2, <2>1 DEF Subject
  <2>3. QED
    BY <1>3, <1>5, <2>1, <2>2 DEF Replies
<1>7. CASE StartRefused(i)
  <2>1. Arrives(i, "refused") /\ Done(k) /\ ReplyFrame /\ turn' = Idle
    BY <1>7 DEF StartRefused
  <2>2. QED
    BY <1>3, <1>4, <2>1 DEF Replies
<1>8. CASE SteerStale(i)
  <2>1. Arrives(i, "stale") /\ Done(k) /\ ReplyFrame /\ turn' = Idle
    BY <1>8 DEF SteerStale
  <2>2. QED
    BY <1>3, <1>4, <2>1 DEF Replies
<1>9. CASE SteerAccepted(i)
  <2>1. Arrives(i, "steered") /\ Done(k) /\ ReplyFrame /\ turn' = [turn EXCEPT !.active = call[k].steers]
    BY <1>9 DEF SteerAccepted
  <2>2. Subject(wire[i]) = call[k].steers
    BY <1>2, <2>1 DEF Subject
  <2>3. QED
    BY <1>3, <1>5, <2>1, <2>2 DEF Replies
<1>10. CASE StartNotFound(i)
  <2>1. Arrives(i, "notFound") /\ ReplyFrame
    BY <1>10 DEF StartNotFound
  <2>2. k \in Calls /\ wire[i].kind = "notFound"
    BY <1>2, <2>1 DEF IsLine, OfTurns, Replies, Turns
  <2>3. call[k].recovered \in BOOLEAN
    BY <1>1, <2>2 DEF CallSet
  <2>4. CASE turn' = Idle /\ Done(k)
    BY <1>3, <1>4, <2>1, <2>4 DEF Replies
  <2>5. CASE turn' = turn /\ call' = [call EXCEPT ![k].at = "resume", ![k].recovered = TRUE]
    <3>1. /\ call'[k].at = "resume" /\ call'[k].steers = call[k].steers
          /\ \A m \in Calls : m # k => call'[m] = call[m]
      BY <1>1, <2>2, <2>5 DEF CallSet
    <3>2. Kept'
      BY <2>1, <3>1, ReplyKeeps DEF Replies, ReplyFrame
    <3>3. Busy'
      BY <2>2, <3>1 DEF Busy
    <3>4. (Sees(None) => Sees(None)') /\ (Sees(running) => Sees(running)')
      BY <2>1, <2>5 DEF Sees, ReplyFrame
    <3>5. View'
      BY <1>1, <2>1, <2>5, <3>3, <3>4, TakenView DEF EndKinds, ReplyFrame
    <3>6. QED
      BY <3>2, <3>5
  <2>6. QED
    BY <1>10, <2>3, <2>4, <2>5 DEF StartNotFound
<1>11. QED
  BY <1>6, <1>7, <1>8, <1>9, <1>10

\* The calls' own steps, before they ask.
LEMMA CallsView ==
  ASSUME Typed, Kept, View, NEW k \in Calls, Preflight(k) \/ Resumed(k)
  PROVE  Kept' /\ View'
<1>1. TypeOK /\ Waits /\ OneCall /\ turn \in ViewSet /\ call \in [Calls -> CallSet]
  BY DEF Typed, Kept, TypeOK, ViewSet, CallSet
<1>2. PICK label \in {"start", "done"} : At(k, label) /\
          \/ label = "start" /\ turn' = [turn EXCEPT !.processing = TRUE]
          \/ label = "done" /\ turn' \in {turn, Idle} /\ (Preflight(k) => turn' = turn)
  BY DEF Preflight, Resumed, Done
<1>3. /\ UNCHANGED <<wire, orders, running, refs, shown>>
      /\ call[k].at \in {"preflight", "resume"}
      /\ Preflight(k) => call[k].at = "preflight"
  BY DEF Preflight, Resumed, serverVars, ReplyFrame
<1>4. Kept'
  BY <1>2, <1>3, GoesOn
<1>5. InHand
  BY <1>1, <1>3 DEF Waits
<1>6. (Begins(0)' <=> Begins(0)) /\ (Ended(0)' <=> Ended(0))
  BY <1>3 DEF Begins, Ended
<1>7. call'[k].at = label /\ \A m \in Calls : m # k => call'[m] = call[m]
  BY <1>1, <1>2 DEF At, CallSet
<1>8. CASE label = "start"
  <2>1. Busy'
    BY <1>7, <1>8 DEF Busy
  <2>2. turn'.active = turn.active /\ turn'.processing = TRUE
    BY <1>1, <1>2, <1>8 DEF ViewSet
  <2>3. (Sees(None) => Sees(None)') /\ (Sees(running) => Sees(running)')
    BY <1>3, <2>2 DEF Sees
  <2>4. View'
    BY <1>3, <1>6, <2>1, <2>2, <2>3 DEF View
  <2>5. QED
    BY <1>4, <2>4
<1>9. CASE label = "done" /\ running # None
  <2>1. View'
    BY <1>3, <1>5, <1>9 DEF View, InHand
  <2>2. QED
    BY <1>4, <2>1
<1>10. CASE label = "done" /\ running = None
  <2>1. CASE turn' = Idle
    <3>1. turn'.active = None /\ turn'.processing = FALSE
      BY <2>1 DEF Idle
    <3>2. Sees(None) => Sees(None)'
      BY <1>3, <3>1 DEF Sees
    <3>3. View'
      BY <1>3, <1>6, <1>10, <3>1, <3>2 DEF View
    <3>4. QED
      BY <1>4, <3>3
  <2>2. CASE turn' = turn /\ call[k].at = "preflight"
    <3>1. Busy => Busy'
      BY <1>7, <2>2 DEF Busy
    <3>2. Sees(None) => Sees(None)'
      BY <1>3, <2>2 DEF Sees
    <3>3. View'
      BY <1>3, <1>6, <1>10, <2>2, <3>1, <3>2 DEF View
    <3>4. QED
      BY <1>4, <3>3
  <2>3. CASE turn' = turn /\ call[k].at = "resume"
    <3>1. Resumed(k)
      BY <1>3, <2>3
    <3>2. turn' = Idle
      <4>1. call'[k].at = "done"
        BY <1>7, <1>10
      <4>2. ~At(k, "start")
        <5>1. ASSUME At(k, "start") PROVE call'[k].at = "start"
          BY <1>1, <5>1 DEF At, CallSet
        <5>2. QED
          BY <4>1, <5>1
      <4>3. QED
        BY <3>1, <4>2 DEF Resumed
    <3>3. QED
      BY <2>1, <3>2
  <2>4. QED
    BY <1>2, <1>3, <1>10, <2>1, <2>2, <2>3
<1>11. QED
  BY <1>8, <1>9, <1>10

\* A turn is asked for.
LEMMA AsksView ==
  ASSUME Typed, Kept, View, calm', NEW k \in Calls, (k \in Sends /\ Send(k)) \/ AutoFires(k)
  PROVE  Kept' /\ View'
<1>1. TypeOK /\ turn \in ViewSet /\ call \in [Calls -> CallSet] /\ running \in MaybeTurns
      /\ KnownTurn(refs) \in MaybeTurns /\ KnownTurn(refs) = KnownAt(refs, shown.active)
      /\ auto \in AutoSet /\ shown \in ViewSet
  BY Looks DEF Typed, TypeOK, ViewSet, CallSet, MaybeTurns, AutoSet
<1>2. UNCHANGED <<wire, orders, running, shown>>
  BY DEF Send, AutoFires, serverVars
<1>3. CASE UNCHANGED <<turn, refs, call>>
  <2>1. Kept'
    <3>1. InHand => InHand'
      BY <1>2 DEF InHand
    <3>2. QED
      BY <1>2, <1>3, <3>1, StaysKept
  <2>2. View'
    BY <1>2, <1>3 DEF View, Begins, Ended, Sees, Busy
  <2>3. QED
    BY <2>1, <2>2
<1>4. CASE /\ Settled /\ refs' = LookUp(refs) /\ turn.processing = FALSE
           /\ At(k, "preflight") /\ turn' = turn
      \* a new turn
  <2>1. wire = <<>> /\ wire' = <<>> /\ \A m \in Calls : ~Under(m)
    BY <1>2, <1>4 DEF Settled
  <2>2. DOMAIN wire = {} /\ DOMAIN wire' = {}
    BY <2>1
  <2>3. ~Begins(0) /\ ~Ended(0)
    BY <2>2 DEF Begins, Ended
  <2>4. InHand
    BY <1>4, <2>3 DEF View, InHand
  <2>5. call'[k].at = "preflight" /\ \A m \in Calls : m # k => call'[m] = call[m]
    BY <1>1, <1>4 DEF At, CallSet
  <2>6. \A m \in Calls : Under(m)' => m = k
    BY <2>1, <2>5 DEF Under
  <2>7. Kept'
    <3>1. Told'
      BY <2>2 DEF Told
    <3>2. OneCall'
      BY <2>2, <2>6 DEF OneCall
    <3>3. InHand'
      BY <1>2, <2>4 DEF InHand
    <3>4. Waits'
      BY <2>5, <2>6, <3>3 DEF Waits, Under
    <3>5. QED
      BY <3>1, <3>2, <3>4 DEF Kept
  <2>8. CASE running # None
    BY <1>2, <2>4, <2>7, <2>8 DEF View, InHand
  <2>9. CASE running = None
    <3>1. Sees(None)
      BY <2>3, <2>9 DEF View
    <3>2. KnownTurn(refs) = None
      BY <1>1, <3>1 DEF Sees
    <3>3. KnownAt(refs', shown'.active) = None /\ KnownAt(refs', None) = None
      BY <1>1, <1>2, <1>4, <3>2, LookSees
    <3>4. Sees(None)'
      BY <1>4, <3>1, <3>3 DEF Sees
    <3>5. QED
      BY <1>2, <1>4, <2>7, <2>9, <3>4 DEF View
  <2>10. QED
    BY <2>8, <2>9
<1>5. CASE /\ Settled /\ refs' = LookUp(refs) /\ KnownTurn(refs) # None
           /\ call' = [call EXCEPT ![k].at = "steer", ![k].steers = KnownTurn(refs)]
           /\ turn' = [turn EXCEPT !.processing = TRUE]
      \* the turn that runs is steered
  <2>1. wire = <<>> /\ wire' = <<>> /\ \A m \in Calls : ~Under(m)
    BY <1>2, <1>5 DEF Settled
  <2>2. DOMAIN wire = {} /\ DOMAIN wire' = {}
    BY <2>1
  <2>3. ~Begins(0) /\ ~Ended(0)
    BY <2>2 DEF Begins, Ended
  <2>4. running # None
    <3>1. Sees(None) => KnownTurn(refs) = None
      BY <1>1 DEF Sees
    <3>2. QED
      BY <1>5, <2>3, <3>1 DEF View
  <2>5. running \in orders \/ (Sees(running) /\ KnownTurn(refs) = running)
    BY <1>1, <2>3, <2>4 DEF View, Sees
  <2>6. /\ call'[k].at = "steer" /\ call'[k].steers = KnownTurn(refs)
        /\ \A m \in Calls : m # k => call'[m] = call[m]
    BY <1>1, <1>5 DEF CallSet
  <2>7. \A m \in Calls : Under(m)' => m = k
    BY <2>1, <2>6 DEF Under
  <2>8. Kept'
    <3>1. Told'
      BY <2>2 DEF Told
    <3>2. OneCall'
      BY <2>2, <2>7 DEF OneCall
    <3>3. InHand' \/ running' = call'[k].steers
      BY <1>2, <2>5, <2>6 DEF InHand
    <3>4. Waits'
      BY <1>5, <2>6, <2>7, <3>3 DEF Waits, Under
    <3>5. QED
      BY <3>1, <3>2, <3>4 DEF Kept
  <2>9. CASE running \in orders
    BY <1>2, <2>4, <2>8, <2>9 DEF View
  <2>10. CASE Sees(running) /\ KnownTurn(refs) = running
    <3>1. KnownAt(refs', shown'.active) = running /\ KnownAt(refs', running) = running
      BY <1>1, <1>2, <1>5, <2>10, LookSees
    <3>2. turn'.active = turn.active /\ turn'.processing = TRUE
      BY <1>1, <1>5 DEF ViewSet
    <3>3. Sees(running)'
      BY <1>2, <2>10, <3>1, <3>2 DEF Sees
    <3>4. QED
      BY <1>2, <2>4, <2>8, <3>2, <3>3 DEF View
  <2>11. QED
    BY <2>5, <2>9, <2>10
<1>6. CASE k \in Sends /\ Send(k)
  <2>1. Settled /\ refs' = LookUp(refs) /\ shown.processing \in BOOLEAN
    BY <1>1, <1>6 DEF Send, ViewSet
  <2>2. \/ ~shown.processing /\ At(k, "preflight") /\ turn' = turn
        \/ /\ KnownTurn(refs) # None
           /\ call' = [call EXCEPT ![k].at = "steer", ![k].steers = KnownTurn(refs)]
           /\ turn' = [turn EXCEPT !.processing = TRUE]
    BY <1>6 DEF Send
  <2>3. ~shown.processing => turn.processing = FALSE
    BY <2>1 DEF Settled
  <2>4. QED
    BY <1>4, <1>5, <2>1, <2>2, <2>3
<1>7. CASE AutoFires(k)
  <2>1. CASE shown.processing \/ shown.active # None
    BY <1>3, <1>7, <2>1 DEF AutoFires
  <2>2. CASE ~(shown.processing \/ shown.active # None)
    <3>1. Settled /\ refs' = LookUp(refs) /\ At(k, "preflight") /\ turn' = turn
      BY <1>7, <2>2 DEF AutoFires
    <3>2. turn.processing = FALSE
      BY <1>1, <2>2, <3>1 DEF Settled, ViewSet
    <3>3. QED
      BY <1>4, <3>1, <3>2
  <2>3. QED
    BY <2>1, <2>2
<1>8. QED
  BY <1>6, <1>7

\* What the user does beside: the view is committed, the thread stopped, and automatic
\* continuation switched.
LEMMA UserView ==
  ASSUME Typed, Kept, View, Commit \/ Stop \/ SetEnabled
  PROVE  Kept' /\ View'
<1>1. TypeOK /\ running \in MaybeTurns /\ KnownTurn(refs) = KnownAt(refs, shown.active)
      /\ turn \in ViewSet
  BY Looks DEF Typed, TypeOK, MaybeTurns, ViewSet
<1>2. UNCHANGED <<wire, call, running>> /\ orders \subseteq orders'
  BY DEF Commit, Stop, SetEnabled, serverVars
<1>3. Kept'
  <2>1. InHand => InHand'
    BY <1>2 DEF InHand
  <2>2. QED
    BY <1>2, <2>1, StaysKept
<1>4. (Begins(0)' <=> Begins(0)) /\ (Ended(0)' <=> Ended(0)) /\ (Busy' <=> Busy)
  BY <1>2 DEF Begins, Ended, Busy
<1>5. CASE Commit
  <2>1. turn' = turn /\ refs' = refs /\ shown' = turn
    BY <1>5 DEF Commit
  <2>2. (Sees(None) => Sees(None)') /\ (Sees(running) => Sees(running)')
    BY <1>2, <2>1 DEF Sees
  <2>3. QED
    BY <1>2, <1>3, <1>4, <2>1, <2>2 DEF View
<1>6. CASE SetEnabled
  <2>1. turn' = turn /\ refs' = refs /\ shown' = shown
    BY <1>6 DEF SetEnabled, uiVars
  <2>2. (Sees(None) => Sees(None)') /\ (Sees(running) => Sees(running)')
    BY <1>2, <2>1 DEF Sees
  <2>3. QED
    BY <1>2, <1>3, <1>4, <2>1, <2>2 DEF View
<1>7. CASE Stop
  <2>1. shown' = shown
    BY <1>7 DEF Stop
  <2>2. \/ turn' = turn /\ refs' = refs
        \/ turn' = turn /\ refs' = LookUp(refs)
        \/ KnownTurn(refs) = None /\ turn' = Idle /\ refs' = NoteInterrupt(LookUp(refs))
    BY <1>7 DEF Stop
  <2>3. ASSUME NEW t \in MaybeTurns, Sees(t), refs' # refs
        PROVE  KnownAt(refs', shown'.active) = t /\ KnownAt(refs', t) = t /\ KnownTurn(refs) = t
    <3>1. KnownTurn(refs) = t
      BY <1>1, <2>3 DEF Sees
    <3>2. refs' = LookUp(refs) \/ refs' = NoteInterrupt(LookUp(refs))
      BY <2>2, <2>3
    <3>3. QED
      BY <1>1, <2>1, <3>1, <3>2, LookSees
  <2>4. CASE running # None
    <3>1. ASSUME Sees(running), turn.processing PROVE Sees(running)' /\ turn'.processing
      <4>1. CASE refs' = refs /\ turn' = turn
        BY <1>2, <2>1, <3>1, <4>1 DEF Sees
      <4>2. CASE refs' # refs
        <5>1. /\ KnownAt(refs', shown'.active) = running /\ KnownAt(refs', running) = running
              /\ KnownTurn(refs) = running
          BY <1>1, <2>3, <3>1, <4>2
        <5>2. turn' = turn
          BY <2>2, <2>4, <4>2, <5>1
        <5>3. QED
          BY <1>2, <3>1, <5>1, <5>2 DEF Sees
      <4>3. CASE refs' = refs /\ turn' # turn
        <5>1. KnownTurn(refs) = running
          BY <1>1, <3>1 DEF Sees
        <5>2. QED
          BY <2>2, <2>4, <4>3, <5>1
      <4>4. QED
        BY <4>1, <4>2, <4>3
    <3>2. View'
      BY <1>2, <1>4, <2>4, <3>1 DEF View
    <3>3. QED
      BY <1>3, <3>2
  <2>5. CASE running = None
    <3>1. ASSUME Sees(None) PROVE Sees(None)' /\ (turn'.processing => turn.processing)
      <4>1. turn'.active = None /\ (turn'.processing => turn.processing)
        <5>1. turn' \in {turn, Idle}
          BY <2>2
        <5>2. QED
          BY <1>1, <3>1, <5>1 DEF Sees, Idle, ViewSet
      <4>2. KnownAt(refs', shown'.active) = None /\ KnownAt(refs', None) = None
        <5>1. CASE refs' = refs
          BY <2>1, <3>1, <5>1 DEF Sees
        <5>2. CASE refs' # refs
          BY <2>3, <3>1, <5>2 DEF MaybeTurns
        <5>3. QED
          BY <5>1, <5>2
      <4>3. QED
        BY <4>1, <4>2 DEF Sees
    <3>2. View'
      BY <1>2, <1>4, <2>5, <3>1 DEF View
    <3>3. QED
      BY <1>3, <3>2
  <2>6. QED
    BY <2>4, <2>5
<1>8. QED
  BY <1>5, <1>6, <1>7

\* What the app-server does.
LEMMA ServerView ==
  ASSUME Typed, Kept, View, calm', Server
  PROVE  Kept' /\ View'
<1>1. WireOK /\ TypeOK /\ Waits /\ running \in MaybeTurns /\ None \notin Turns
  BY TurnsAssumption DEF Typed, Kept, TypeOK, MaybeTurns, Turns
<1>2. UNCHANGED <<turn, shown, refs>>
  BY DEF Server, End, Fail, Retry, Close, Accept, Decline, Steer, Interrupt, ServerFrame, uiVars
<1>3. ASSUME \E lines : EndLines(lines) /\ Closing(lines) /\ Emits(lines), running' = None, call' = call
      PROVE  Kept' /\ View'
  <2>1. Kept' /\ Ended(0)'
    BY <1>3, EndKeeps
  <2>2. QED
    BY <1>3, <2>1 DEF View
<1>4. ASSUME \A j \in DOMAIN wire : j \in DOMAIN wire' /\ wire'[j] = wire[j],
             running' = running, running # None => (running \in orders => running \in orders'),
             Busy => Busy'
      PROVE  View'
  <2>1. (Begins(0) => Begins(0)') /\ (Ended(0) => Ended(0)')
    BY <1>4, StillThere
  <2>2. (Sees(None) => Sees(None)') /\ (Sees(running) => Sees(running)')
    BY <1>2, <1>4 DEF Sees
  <2>3. QED
    BY <1>2, <1>4, <2>1, <2>2 DEF View
<1>5. CASE End
  <2>1. running' = None /\ call' = call
    BY <1>5 DEF End
  <2>2. QED
    BY <1>3, <1>5, <2>1, EndEnds
<1>6. CASE Fail
  <2>1. running' = None /\ call' = call
    BY <1>6 DEF Fail
  <2>2. QED
    BY <1>3, <1>6, <2>1, FailEnds
<1>7. CASE Close
  <2>1. running' = None /\ call' = call
    BY <1>7 DEF Close
  <2>2. QED
    BY <1>3, <1>7, <2>1, CloseEnds
<1>8. CASE Retry
  <2> DEFINE l == Line("error", running, "willRetry")
  <2>1. /\ running # None /\ Emits(<<l>>) /\ UNCHANGED <<call, orders, running>>
    BY <1>8 DEF Retry
  <2>2. IsLine(l) /\ l.kind = "error" /\ l.how = "willRetry" /\ l.turn = running
    <3>1. running \in Turns
      BY <1>1, <2>1 DEF MaybeTurns
    <3>2. IsLine(l)
      BY <3>1, LineIs DEF OfTurns
    <3>3. QED
      BY <3>2 DEF Line
  <2> HIDE DEF l
  <2>3. Told'
    <3>1. InHand => InHand'
      BY <2>1 DEF InHand
    <3>2. ~Breaks(l) /\ ~Clears(l) /\ ~Refuses(l)
      BY <2>2 DEF Breaks, Clears, Refuses
    <3>3. Told
      BY DEF Kept
    <3>4. QED
      BY <1>1, <2>1, <2>2, <3>1, <3>2, <3>3, OneKeeps
  <2>4. /\ \A j \in DOMAIN wire : j \in DOMAIN wire' /\ wire'[j] = wire[j]
        /\ wire'[Len(wire) + 1] = l
        /\ \A j \in DOMAIN wire' : j \in DOMAIN wire \/ j = Len(wire) + 1
    BY <1>1, <2>1, <2>2, AddedOne
  <2>5. OneCall'
    <3>1. \A j \in DOMAIN wire' : wire'[j].kind \in Replies => j \in DOMAIN wire /\ wire'[j] = wire[j]
      BY <2>2, <2>4 DEF Replies
    <3>2. QED
      BY <2>1, <3>1 DEF Kept, OneCall, Under
  <2>6. Waits'
    <3>1. InHand => InHand'
      BY <2>1 DEF InHand
    <3>2. QED
      BY <1>1, <2>1, <3>1 DEF Waits
  <2>7. Kept'
    BY <2>3, <2>5, <2>6 DEF Kept
  <2>8. Busy => Busy'
    BY <2>1 DEF Busy
  <2>9. View'
    BY <1>4, <2>1, <2>4, <2>8
  <2>10. QED
    BY <2>7, <2>9
<1>9. ASSUME NEW k \in Calls, Accept(k) PROVE Kept' /\ View'
  <2>1. Kept' /\ Begins(0)'
    BY <1>9, AcceptKeeps
  <2>2. running' # None
    BY <1>1, <1>9 DEF Accept, Turns
  <2>3. QED
    BY <2>1, <2>2 DEF View
<1>10. ASSUME NEW k \in Calls, NEW kind \in Replies \ {"accepted"}, Emits(<<Line(kind, k, "")>>),
              At(k, "answer"), call[k].at \in {"start", "steer"}, UNCHANGED <<orders, running>>,
              kind = "steered" => call[k].steers = running /\ running # None,
              kind # "steered" => InHand
       PROVE  Kept' /\ View'
  <2> DEFINE l == Line(kind, k, "")
  <2>1. IsLine(l) /\ l.kind = kind /\ l.turn = k
    <3>1. IsLine(l)
      BY LineIs DEF OfTurns, Replies, Turns
    <3>2. l.kind = kind /\ l.turn = k
      BY Zenon DEF Line
    <3>3. QED
      BY <3>1, <3>2
  <2>2. Emits(<<l>>)
    BY <1>10
  <2> HIDE DEF l
  <2>3. Refuses(l) => InHand
    BY <1>10, <2>1 DEF Refuses
  <2>4. /\ k \in Calls /\ call[k].at \in {"start", "steer"} /\ At(k, "answer")
        /\ l.kind \in Replies /\ l.kind # "accepted" /\ UNCHANGED <<orders, running>>
        /\ l.kind = "steered" => call[k].steers = running /\ running # None
    BY <1>10, <2>1, Zenon
  <2>5. Kept'
    BY <2>1, <2>2, <2>3, <2>4, AnswerKeeps
  <2>6. \A j \in DOMAIN wire : j \in DOMAIN wire' /\ wire'[j] = wire[j]
    BY <1>1, <2>1, <2>2, AddedOne
  <2>7. Busy'
    <3>1. call'[k].at = "answer"
      BY <1>1, <2>4 DEF At, TypeOK
    <3>2. QED
      BY <2>4, <3>1 DEF Busy
  <2>8. View'
    BY <1>4, <2>4, <2>6, <2>7
  <2>9. QED
    BY <2>5, <2>8
<1>11. ASSUME NEW k \in Calls, Decline(k) PROVE Kept' /\ View'
  <2>1. PICK kind \in {"refused", "notFound"} : Emits(<<Line(kind, k, "")>>)
    BY <1>11 DEF Decline
  <2>2. call[k].at = "start" /\ At(k, "answer") /\ UNCHANGED <<orders, running>>
    BY <1>11 DEF Decline
  <2>3. InHand
    BY <1>1, <2>2 DEF Waits
  <2>4. kind \in Replies \ {"accepted"} /\ kind # "steered" /\ call[k].at \in {"start", "steer"}
    BY <2>2 DEF Replies
  <2>5. QED
    BY <1>10, <2>1, <2>2, <2>3, <2>4, Zenon
<1>12. ASSUME NEW k \in Calls, Steer(k) PROVE Kept' /\ View'
  <2> DEFINE kind == IF running = call[k].steers THEN "steered" ELSE "stale"
  <2>1. Emits(<<Line(kind, k, "")>>)
    BY <1>12 DEF Steer
  <2>2. call[k].at = "steer" /\ At(k, "answer") /\ UNCHANGED <<orders, running>>
    BY <1>12 DEF Steer
  <2>3. (InHand \/ running = call[k].steers) /\ call[k].steers # None
    BY <1>1, <2>2 DEF Waits
  <2>4. /\ kind \in Replies \ {"accepted"} /\ call[k].at \in {"start", "steer"}
        /\ kind = "steered" => call[k].steers = running /\ running # None
        /\ kind # "steered" => InHand
    BY <2>2, <2>3 DEF Replies
  <2> HIDE DEF kind
  <2>5. QED
    BY <1>10, <2>1, <2>2, <2>4, Zenon
<1>13. ASSUME NEW o, Interrupt(o) PROVE Kept' /\ View'
  <2>1. call' = call /\ orders' = orders \ {o}
    BY <1>13 DEF Interrupt
  <2>2. CASE /\ running # None /\ running' = None
             /\ \E lines : EndLines(lines) /\ Closing(lines) /\ Emits(lines)
    BY <1>3, <2>1, <2>2
  <2>3. CASE running' = running /\ o # running /\ wire' = wire
    <3>1. (InHand => InHand') /\ (running \in orders => running \in orders')
      BY <2>1, <2>3 DEF InHand
    <3>2. Kept'
      BY <2>1, <2>3, <3>1, StaysKept
    <3>3. (Busy => Busy') /\ \A j \in DOMAIN wire : j \in DOMAIN wire' /\ wire'[j] = wire[j]
      BY <2>1, <2>3 DEF Busy
    <3>4. View'
      BY <1>4, <2>3, <3>1, <3>3
    <3>5. QED
      BY <3>2, <3>4
  <2>4. ASSUME NEW l, IsLine(l), l.kind = "unstopped", Emits(<<l>>), running' = running, o # running
        PROVE  Kept' /\ View'
    <3>1. (InHand => InHand') /\ (running \in orders => running \in orders')
      BY <2>1, <2>4 DEF InHand
    <3>2. /\ \A j \in DOMAIN wire : j \in DOMAIN wire' /\ wire'[j] = wire[j]
          /\ wire'[Len(wire) + 1] = l
          /\ \A j \in DOMAIN wire' : j \in DOMAIN wire \/ j = Len(wire) + 1
      BY <1>1, <2>4, AddedOne
    <3>3. Told'
      <4>1. ~Speaks(l) /\ ~Breaks(l) /\ ~Clears(l) /\ ~Refuses(l)
        BY <2>4 DEF Speaks, WillRetry, Breaks, Clears, Refuses
      <4>2. Told
        BY DEF Kept
      <4>3. QED
        BY <1>1, <2>1, <2>4, <3>1, <4>1, <4>2, OneKeeps
    <3>4. OneCall'
      <4>1. \A j \in DOMAIN wire' : wire'[j].kind \in Replies => j \in DOMAIN wire /\ wire'[j] = wire[j]
        BY <2>4, <3>2 DEF Replies
      <4>2. QED
        BY <2>1, <4>1 DEF Kept, OneCall, Under
    <3>5. Waits'
      BY <1>1, <2>1, <2>4, <3>1 DEF Waits
    <3>6. Busy => Busy'
      BY <2>1 DEF Busy
    <3>7. View'
      BY <1>4, <2>4, <3>1, <3>2, <3>6
    <3>8. QED
      BY <3>3, <3>4, <3>5, <3>7 DEF Kept
  <2>5. CASE running' = running /\ o # running /\ Emits(<<Line("unstopped", None, "")>>)
    <3> DEFINE l == Line("unstopped", None, "")
    <3>1. IsLine(l)
      BY BareLineIs
    <3>2. l.kind = "unstopped"
      BY Zenon DEF Line
    <3>3. Emits(<<l>>) /\ running' = running /\ o # running
      BY <2>5, Zenon
    <3> HIDE DEF l
    <3>4. QED
      BY <2>4, <3>1, <3>2, <3>3
  <2>6. QED
    <3>1. \/ /\ running # None /\ running' = None
             /\ \E lines : EndLines(lines) /\ Closing(lines) /\ Emits(lines)
          \/ /\ running' = running /\ o # running
             /\ wire' = wire \/ Emits(<<Line("unstopped", None, "")>>)
      BY <1>13, InterruptEnds, Zenon
    <3>2. QED
      BY <2>2, <2>3, <2>5, <3>1, Zenon
<1>14. QED
  BY <1>5, <1>6, <1>7, <1>8, <1>9, <1>11, <1>12, <1>13 DEF Server

\* A user is not calm again.
LEMMA CalmBefore ==
  ASSUME Typed, [Next]_vars, calm'
  PROVE  calm
<1>1. (calm' <=> calm) \/ ~calm' \/ (calm' <=> calm /\ Settled)
  BY Zenon DEF Next, Handle, User, Server, vars, Commit, UserFrame, OnTurnStarted, OnTurnCompleted,
         OnTurnError, OnStatusActive, OnStatusIdle, OnThreadClosed, StartAccepted, StartRefused,
         StartNotFound, SteerAccepted, SteerStale, StopAnswered, ReplyFrame, Preflight, Resumed,
         AutoFires, Send, Stop, SetEnabled, ServerFrame, End, Fail, Retry, Close, Accept, Decline,
         Steer, Interrupt
<1>2. QED
  BY <1>1, Zenon

\* A user who has waited before each turn is told, and sees, what runs.
CalmInv == calm => Kept /\ View

\* No step of a calm user's thread breaks that.
LEMMA CalmStep ==
  ASSUME Typed, CalmInv, [Next]_vars
  PROVE  CalmInv'
<1>1. SUFFICES ASSUME calm' PROVE Kept' /\ View'
  BY DEF CalmInv
<1>2. calm
  BY <1>1, CalmBefore
<1>3. Kept /\ View
  BY <1>2 DEF CalmInv
<1>4. CASE Commit
  BY <1>3, <1>4, UserView
<1>5. CASE Handle
  BY <1>3, <1>5, NoticesView, RepliesView DEF Handle
<1>6. CASE \E k \in Calls : Preflight(k) \/ Resumed(k)
  BY <1>3, <1>6, CallsView
<1>7. CASE \E k \in Autos : AutoFires(k)
  BY <1>1, <1>3, <1>7, AsksView DEF Calls
<1>8. CASE User
  BY <1>1, <1>3, <1>8, AsksView, UserView DEF User, Calls
<1>9. CASE Server
  BY <1>1, <1>3, <1>9, ServerView
<1>10. CASE UNCHANGED vars
  <2>1. UNCHANGED <<turn, shown, refs, call, orders, running, wire>>
    BY <1>10 DEF vars, uiVars, serverVars
  <2>2. Kept'
    <3>1. InHand => InHand'
      BY <2>1 DEF InHand
    <3>2. QED
      BY <1>3, <2>1, <3>1, StaysKept
  <2>3. View'
    BY <1>3, <2>1 DEF View, Begins, Ended, Sees, Busy
  <2>4. QED
    BY <2>2, <2>3
<1>11. QED
  BY <1>4, <1>5, <1>6, <1>7, <1>8, <1>9, <1>10 DEF Next

\* It holds at first.
LEMMA InitCalm == ASSUME Init PROVE Typed /\ CalmInv
<1>1. TypeOK
  BY InitTyped
<1>2. wire = <<>> /\ running = None /\ turn = Idle /\ shown = Idle /\ refs.known = Unset
      /\ \A k \in Calls : call[k].at = "idle"
  BY DEF Init
<1>3. DOMAIN wire = {} /\ WireOK
  BY <1>2 DEF WireOK
<1>4. Kept
  BY <1>2, <1>3 DEF Kept, Told, OneCall, Waits, Under
<1>5. turn.active = None /\ turn.processing = FALSE /\ shown.active = None
  BY <1>2 DEF Idle
<1>6. Sees(None)
  BY <1>2, <1>5 DEF Sees, KnownAt
<1>7. View
  BY <1>2, <1>5, <1>6 DEF View
<1>8. QED
  BY <1>1, <1>3, <1>4, <1>7 DEF Typed, CalmInv

\* A user who has waited before each turn and waits again sees what the app-server
\* does, whatever was sent, steered and stopped before: the turn a stop would name is
\* the one that runs, and the thread shows as processing it, or as idle.
THEOREM TurnsAgree == Spec => []Agrees
<1> DEFINE Inv == Typed /\ CalmInv
<1>1. Init => Inv
  BY InitCalm
<1>2. Inv /\ [Next]_vars => Inv'
  BY TypeStep, CalmStep
<1>3. Inv => Agrees
  <2> SUFFICES ASSUME Inv, calm, Answered
               PROVE  /\ KnownTurn(refs) = running
                      /\ turn = [processing |-> running # None, active |-> running]
    BY DEF Agrees
  <2>1. View /\ TypeOK /\ turn \in ViewSet
    BY DEF CalmInv, Typed, TypeOK, ViewSet
  <2>2. DOMAIN wire = {} /\ orders = {} /\ \A k \in Calls : ~Under(k)
    BY DEF Answered
  <2>3. ~Begins(0) /\ ~Ended(0) /\ ~Busy
    BY <2>2 DEF Begins, Ended, Busy, Under
  <2>4. Sees(running) /\ (turn.processing <=> running # None)
    BY <2>1, <2>2, <2>3 DEF View
  <2>5. KnownTurn(refs) = running
    BY <2>1, <2>4, Looks DEF Sees
  <2>6. turn = [processing |-> running # None, active |-> running]
    BY <2>1, <2>4 DEF Sees, ViewSet
  <2>7. QED
    BY <2>5, <2>6
<1>4. QED
  BY <1>1, <1>2, <1>3, PTL DEF Spec

-----------------------------------------------------------------------------
(* What a step does to the stream and the calls. *)

\* Replies that begin no turn.
Asides == {"refused", "notFound", "steered", "stale"}

\* A line is taken, and a reply's call goes on.
Takes(i) ==
  /\ Arrives(i, wire[i].kind) /\ running' = running /\ orders \subseteq orders'
  /\ wire[i].kind \notin Replies => call' = call
  /\ wire[i].kind \in Replies =>
       /\ UNCHANGED <<refs, record>>
       /\ \A m \in Calls : m # wire[i].turn => call'[m] = call[m]
       /\ call'[wire[i].turn].steers = call[wire[i].turn].steers
       /\ \/ call'[wire[i].turn].at = "done"
          \/ call'[wire[i].turn].at = "resume" /\ wire[i].kind = "notFound"

\* A turn or the thread ends.
Ends == /\ \E lines : EndLines(lines) /\ (calm' => Closing(lines)) /\ Emits(lines)
        /\ running' = None /\ UNCHANGED <<uiVars, call>>

\* Something is said of the turn that runs, or of no turn.
Says == /\ \E l : IsLine(l) /\ Emits(<<l>>)
                  /\ l.kind \in {"error", "unstopped"} /\ (l.kind = "error" => l.turn = running)
        /\ UNCHANGED <<uiVars, call, running>> /\ (InHand => InHand')

\* A call is answered, but not with a turn.
Answers(k) ==
  /\ \E l : IsLine(l) /\ Emits(<<l>>) /\ l.kind \in Asides /\ l.turn = k
            /\ (l.kind = "steered" => call[k].at = "steer")
  /\ call[k].at \in {"start", "steer"} /\ At(k, "answer")
  /\ UNCHANGED <<uiVars, orders, running>>

\* Nothing arrives: at most a call that waits for no answer goes on, and the view is
\* committed or looked up.
Waiting(m) == call[m].at \in {"idle", "preflight", "resume"}
LooksOnly ==
  /\ shown' = shown \/ (shown' = turn /\ turn' = turn /\ refs' = refs)
  /\ turn'.active \in {turn.active, None}
  /\ refs' = refs \/ refs' = LookUp(refs) \/ refs' = NoteInterrupt(LookUp(refs))
Stays ==
  /\ UNCHANGED <<wire, running, record>> /\ LooksOnly /\ (InHand => InHand')
  /\ \A m \in Calls :
       \/ call'[m] = call[m]
       \/ Waiting(m) /\ call'[m].at # "steer" /\ call'[m].steers = call[m].steers
       \/ /\ call[m].at = "idle" /\ call'[m].at = "steer"
          /\ call'[m].steers = KnownTurn(refs) /\ KnownTurn(refs) # None

\* Every handler takes a line.
LEMMA Handled ==
  ASSUME Typed, NEW i,
         \/ OnTurnStarted(i) \/ OnTurnCompleted(i) \/ OnTurnError(i)
         \/ OnStatusActive(i) \/ OnStatusIdle(i) \/ OnThreadClosed(i) \/ StopAnswered(i)
         \/ StartAccepted(i) \/ StartRefused(i) \/ StartNotFound(i)
         \/ SteerAccepted(i) \/ SteerStale(i)
  PROVE  Takes(i)
<1>1. WireOK /\ TypeOK /\ call \in [Calls -> CallSet]
  BY DEF Typed, TypeOK, CallSet
<1> DEFINE k == wire[i].turn
<1>2. ASSUME NEW kind, Arrives(i, kind), kind \notin Replies, UNCHANGED <<call, running>>,
             orders \subseteq orders'
      PROVE  Takes(i)
  <2>1. wire[i].kind = kind
    BY <1>2 DEF Arrives
  <2>2. QED
    BY <1>2, <2>1 DEF Takes
<1>3. ASSUME NEW kind \in Replies, Arrives(i, kind), ReplyFrame,
             \/ Done(k)
             \/ kind = "notFound" /\ call' = [call EXCEPT ![k].at = "resume", ![k].recovered = TRUE]
      PROVE  Takes(i)
  <2>1. wire[i].kind = kind /\ k \in Calls
    BY <1>1, <1>3, Taken DEF IsLine, OfTurns, Turns
  <2>2. /\ call'[k].steers = call[k].steers
        /\ \A m \in Calls : m # k => call'[m] = call[m]
        /\ call'[k].at = "done" \/ (call'[k].at = "resume" /\ kind = "notFound")
    BY <1>1, <1>3, <2>1 DEF Done, At, CallSet
  <2>3. UNCHANGED <<orders, running, refs, record>>
    BY <1>3 DEF ReplyFrame
  <2>4. QED
    BY <1>3, <2>1, <2>2, <2>3 DEF Takes
<1>4. CASE OnTurnStarted(i)
  BY <1>2, <1>4 DEF OnTurnStarted, Replies
<1>5. CASE OnTurnCompleted(i)
  BY <1>2, <1>5 DEF OnTurnCompleted, Replies
<1>6. CASE OnTurnError(i)
  BY <1>2, <1>6 DEF OnTurnError, Replies
<1>7. CASE OnStatusActive(i)
  BY <1>2, <1>7 DEF OnStatusActive, Replies
<1>8. CASE OnStatusIdle(i)
  BY <1>2, <1>8 DEF OnStatusIdle, Replies
<1>9. CASE OnThreadClosed(i)
  BY <1>2, <1>9 DEF OnThreadClosed, Replies
<1>10. CASE StopAnswered(i)
  BY <1>2, <1>10 DEF StopAnswered, Replies
<1>11. CASE StartAccepted(i)
  BY <1>3, <1>11 DEF StartAccepted, Replies
<1>12. CASE StartRefused(i)
  BY <1>3, <1>12 DEF StartRefused, Replies
<1>13. CASE SteerAccepted(i)
  BY <1>3, <1>13 DEF SteerAccepted, Replies
<1>14. CASE SteerStale(i)
  BY <1>3, <1>14 DEF SteerStale, Replies
<1>15. CASE StartNotFound(i)
  <2>1. Arrives(i, "notFound") /\ ReplyFrame
    BY <1>15 DEF StartNotFound
  <2>2. k \in Calls
    BY <1>1, <2>1, Taken DEF IsLine, OfTurns, Replies, Turns
  <2>3. call[k].recovered \in BOOLEAN
    BY <1>1, <2>2 DEF CallSet
  <2>4. Done(k) \/ call' = [call EXCEPT ![k].at = "resume", ![k].recovered = TRUE]
    BY <1>15, <2>3 DEF StartNotFound
  <2>5. QED
    BY <1>3, <2>1, <2>4 DEF Replies
<1>16. QED
  BY <1>4, <1>5, <1>6, <1>7, <1>8, <1>9, <1>10, <1>11, <1>12, <1>13, <1>14, <1>15

\* Every step is one of these.
LEMMA StepIs ==
  ASSUME Typed, [Next]_vars
  PROVE  \/ Handle
         \/ Stays
         \/ Ends \/ Says
         \/ \E k \in Calls : Answers(k) \/ Accept(k)
<1>1. WireOK /\ TypeOK /\ call \in [Calls -> CallSet] /\ running \in MaybeTurns
  BY DEF Typed, TypeOK, CallSet, MaybeTurns
<1>2. /\ turn.active \in {turn.active, None} /\ Idle.active = None
      /\ [turn EXCEPT !.processing = TRUE].active = turn.active
  BY <1>1 DEF TypeOK, Idle
<1> DEFINE Goes(m) ==
       \/ call'[m] = call[m]
       \/ Waiting(m) /\ call'[m].at # "steer" /\ call'[m].steers = call[m].steers
       \/ /\ call[m].at = "idle" /\ call'[m].at = "steer"
          /\ call'[m].steers = KnownTurn(refs) /\ KnownTurn(refs) # None
<1>3. ASSUME NEW k \in Calls, NEW label \in {"start", "preflight", "done"}, At(k, label), Waiting(k)
      PROVE  \A m \in Calls : Goes(m)
  BY <1>1, <1>3 DEF At, CallSet
<1>4. CASE \E k \in Calls : Preflight(k) \/ Resumed(k)
  <2>1. PICK k \in Calls : Preflight(k) \/ Resumed(k)
    BY <1>4
  <2>2. PICK label \in {"start", "preflight", "done"} : At(k, label)
    BY <2>1 DEF Preflight, Resumed, Done
  <2>3. Waiting(k) /\ UNCHANGED <<wire, orders, running, record>>
    BY <2>1 DEF Preflight, Resumed, Waiting, serverVars, ReplyFrame
  <2>4. LooksOnly
    BY <1>2, <2>1 DEF Preflight, Resumed, LooksOnly, ReplyFrame
  <2>5. QED
    BY <1>3, <2>2, <2>3, <2>4 DEF Stays, InHand
<1>5. CASE \E k \in Autos : AutoFires(k)
  <2>1. PICK k \in Autos : AutoFires(k)
    BY <1>5
  <2>2. k \in Calls /\ UNCHANGED <<wire, orders, running, record>>
    BY <2>1 DEF AutoFires, serverVars, Calls
  <2>3. call' = call \/ (Waiting(k) /\ At(k, "preflight"))
    BY <2>1 DEF AutoFires, Waiting
  <2>4. LooksOnly
    BY <1>2, <2>1 DEF AutoFires, LooksOnly
  <2>5. QED
    BY <1>3, <2>2, <2>3, <2>4 DEF Stays, InHand
<1>6. CASE \E k \in Sends : Send(k)
  <2>1. PICK k \in Sends : Send(k)
    BY <1>6
  <2>2. k \in Calls /\ UNCHANGED <<wire, orders, running, record>> /\ call[k].at = "idle"
    BY <2>1 DEF Send, serverVars, Calls
  <2>3. CASE At(k, "preflight")
    <3>1. \A m \in Calls : Goes(m)
      BY <1>3, <2>2, <2>3 DEF Waiting
    <3>2. LooksOnly
      BY <1>2, <2>1 DEF Send, LooksOnly
    <3>3. QED
      BY <2>2, <3>1, <3>2 DEF Stays, InHand
  <2>4. CASE /\ KnownTurn(refs) # None
             /\ call' = [call EXCEPT ![k].at = "steer", ![k].steers = KnownTurn(refs)]
    <3>1. \A m \in Calls : Goes(m)
      BY <1>1, <2>2, <2>4 DEF CallSet
    <3>2. LooksOnly
      BY <1>2, <2>1 DEF Send, LooksOnly
    <3>3. QED
      BY <2>2, <3>1, <3>2 DEF Stays, InHand
  <2>5. QED
    BY <2>1, <2>3, <2>4 DEF Send
<1>7. CASE Commit \/ Stop \/ SetEnabled \/ UNCHANGED vars
  <2>1. LooksOnly
    BY <1>2, <1>7 DEF Commit, Stop, SetEnabled, vars, uiVars, LooksOnly
  <2>2. InHand => InHand'
    BY <1>7 DEF Commit, Stop, SetEnabled, vars, serverVars, InHand
  <2>3. QED
    BY <1>7, <2>1, <2>2 DEF Commit, Stop, SetEnabled, vars, uiVars, serverVars, Stays
<1>8. CASE Server
  <2>1. UNCHANGED uiVars
    BY <1>8 DEF Server, End, Fail, Retry, Close, Accept, Decline, Steer, Interrupt, ServerFrame
  <2>2. CASE End
    <3>1. running' = None /\ call' = call
      BY <2>2 DEF End
    <3>2. QED
      BY <2>1, <2>2, <3>1, EndEnds DEF Ends
  <2>3. CASE Fail
    <3>1. running' = None /\ call' = call
      BY <2>3 DEF Fail
    <3>2. QED
      BY <2>1, <2>3, <3>1, FailEnds DEF Ends
  <2>4. CASE Close
    <3>1. running' = None /\ call' = call
      BY <2>4 DEF Close
    <3>2. QED
      BY <2>1, <2>4, <3>1, CloseEnds DEF Ends
  <2>5. CASE Retry
    <3> DEFINE l == Line("error", running, "willRetry")
    <3>1. running # None /\ Emits(<<l>>) /\ UNCHANGED <<call, orders, running>>
      BY <2>5 DEF Retry
    <3>2. IsLine(l)
      BY <1>1, <3>1, LineIs DEF OfTurns, MaybeTurns
    <3>3. l.kind = "error" /\ l.turn = running
      BY DEF Line
    <3> HIDE DEF l
    <3>4. QED
      BY <2>1, <3>1, <3>2, <3>3 DEF Says, InHand
  <2>6. ASSUME NEW k \in Calls, NEW kind \in Asides, Emits(<<Line(kind, k, "")>>),
               call[k].at \in {"start", "steer"}, At(k, "answer"), UNCHANGED <<orders, running>>,
               kind = "steered" => call[k].at = "steer"
        PROVE  Answers(k)
    <3> DEFINE l == Line(kind, k, "")
    <3>1. IsLine(l)
      BY LineIs DEF OfTurns, Replies, Turns, Asides
    <3>2. l.kind = kind /\ l.turn = k
      BY Zenon DEF Line
    <3>3. Emits(<<l>>) /\ (kind = "steered" => call[k].at = "steer")
          /\ call[k].at \in {"start", "steer"} /\ At(k, "answer") /\ UNCHANGED <<orders, running>>
      BY <2>6, Zenon
    <3> HIDE DEF l
    <3>4. QED
      BY <2>1, <3>1, <3>2, <3>3 DEF Answers
  <2>7. ASSUME NEW k \in Calls, Decline(k) PROVE Answers(k)
    <3>1. PICK kind \in {"refused", "notFound"} : Emits(<<Line(kind, k, "")>>)
      BY <2>7 DEF Decline
    <3>2. /\ call[k].at \in {"start", "steer"} /\ At(k, "answer") /\ UNCHANGED <<orders, running>>
          /\ kind \in Asides /\ kind # "steered"
      BY <2>7 DEF Decline, Asides
    <3>3. QED
      BY <2>6, <3>1, <3>2, Zenon
  <2>8. ASSUME NEW k \in Calls, Steer(k) PROVE Answers(k)
    <3> DEFINE kind == IF running = call[k].steers THEN "steered" ELSE "stale"
    <3>1. Emits(<<Line(kind, k, "")>>)
      BY <2>8 DEF Steer
    <3>2. /\ call[k].at = "steer" /\ call[k].at \in {"start", "steer"} /\ At(k, "answer")
          /\ UNCHANGED <<orders, running>> /\ kind \in Asides
      BY <2>8 DEF Steer, Asides
    <3> HIDE DEF kind
    <3>3. QED
      BY <2>6, <3>1, <3>2, Zenon
  <2>9. ASSUME NEW o, Interrupt(o) PROVE Ends \/ Says \/ Stays
    <3>1. call' = call /\ orders' = orders \ {o}
      BY <2>9 DEF Interrupt
    <3>2. CASE /\ running # None /\ running' = None
               /\ \E lines : EndLines(lines) /\ Closing(lines) /\ Emits(lines)
      BY <2>1, <3>1, <3>2 DEF Ends
    <3>3. ASSUME running' = running, o # running PROVE InHand => InHand'
      BY <3>1, <3>3 DEF InHand
    <3>4. CASE running' = running /\ o # running /\ wire' = wire
      BY <1>2, <2>1, <3>1, <3>3, <3>4 DEF Stays, LooksOnly, uiVars
    <3>5. CASE running' = running /\ o # running /\ Emits(<<Line("unstopped", None, "")>>)
      <4> DEFINE l == Line("unstopped", None, "")
      <4>1. IsLine(l)
        BY BareLineIs
      <4>2. l.kind = "unstopped"
        BY Zenon DEF Line
      <4>3. Emits(<<l>>) /\ running' = running /\ o # running
        BY <3>5, Zenon
      <4> HIDE DEF l
      <4>4. QED
        BY <2>1, <3>1, <3>3, <4>1, <4>2, <4>3 DEF Says
    <3>6. QED
      <4>1. \/ /\ running # None /\ running' = None
               /\ \E lines : EndLines(lines) /\ Closing(lines) /\ Emits(lines)
            \/ /\ running' = running /\ o # running
               /\ wire' = wire \/ Emits(<<Line("unstopped", None, "")>>)
        BY <2>9, InterruptEnds, Zenon
      <4>2. QED
        BY <3>2, <3>4, <3>5, <4>1, Zenon
  <2>10. QED
    BY <1>8, <2>2, <2>3, <2>4, <2>5, <2>7, <2>8, <2>9 DEF Server
<1>9. QED
  BY <1>4, <1>5, <1>6, <1>7, <1>8 DEF Next, User

-----------------------------------------------------------------------------
(* What a line does to the view and the record. *)

\* The turn that the thread's status, or its end, is taken to end.
LastTurn == IF KnownTurn(refs) # None THEN KnownTurn(refs) ELSE refs.execution

\* What is known is left, looked up, or reset.
Looked ==
  \/ \A s \in MaybeTurns : KnownAt(refs', s) = KnownAt(refs, s)
  \/ /\ KnownAt(refs', shown.active) = KnownTurn(refs)
     /\ \A s \in MaybeTurns : KnownAt(refs', s) \in {s, KnownTurn(refs)}
  \/ refs'.known = None /\ refs'.adopted = shown.active

\* The record of turn t is opened, and the turn seen, unless it is to be stopped.
Opens(t) ==
  /\ record'.turn = t /\ refs'.execution = t /\ refs'.finalized = refs.finalized
  /\ \/ record'.status # "active" /\ t \in orders'
     \/ /\ record' = [turn |-> t, status |-> "active"]
        /\ turn'.active = t /\ refs'.known = t /\ refs'.adopted = shown.active

\* A record that stays open stays as it is, and only what is not its turn is finalized.
KeepsOpen(l) ==
  /\ record' = record
  /\ refs'.finalized = refs.finalized \/ refs'.finalized # record.turn
  /\ Looked
  /\ \/ turn'.active \in {turn.active, None}
     \/ l.kind \in {"accepted", "steered"} /\ turn'.active = Subject(l)
  /\ l.kind \in EndKinds =>
       \/ refs.continues /\ refs'.continues
       \/ LastTurn \in {None, refs.finalized} \/ LastTurn # record.turn
  /\ refs.continues => refs'.continues \/ Breaks(l) \/ l.kind = "closed"

Writes(l) ==
  /\ shown' = shown
  /\ l.kind = "started" => Opens(l.turn)
  /\ l.kind # "started" =>
       /\ record'.turn = record.turn /\ refs'.execution = refs.execution
       /\ record' = record \/ Breaks(l) \/ Clears(l)
       /\ record'.status = "active" => KeepsOpen(l)

\* Lines of the server's notifications.
LEMMA NoticesWrite ==
  ASSUME Typed, NEW i,
         \/ OnTurnStarted(i) \/ OnTurnCompleted(i) \/ OnTurnError(i)
         \/ OnStatusActive(i) \/ OnStatusIdle(i) \/ OnThreadClosed(i) \/ StopAnswered(i)
  PROVE  Writes(wire[i])
<1>1. /\ WireOK /\ TypeOK /\ refs \in RefSet /\ turn \in ViewSet /\ record \in RecordSet
      /\ KnownTurn(refs) \in MaybeTurns /\ refs.execution \in MaybeTurns /\ shown.active \in MaybeTurns
      /\ LastTurn \in MaybeTurns /\ Idle.active = None
      /\ [turn EXCEPT !.processing = TRUE].active = turn.active
  <2>1. /\ WireOK /\ TypeOK /\ refs \in RefSet /\ turn \in ViewSet /\ record \in RecordSet
        /\ shown.active \in MaybeTurns
    BY DEF Typed, TypeOK, RefSet, ViewSet, RecordSet, MaybeTurns
  <2>2. KnownTurn(refs) \in MaybeTurns
    BY <2>1, Looks
  <2>3. refs.execution \in MaybeTurns
    BY <2>1 DEF RefSet, MaybeTurns
  <2>4. QED
    BY <2>1, <2>2, <2>3 DEF LastTurn, Idle, ViewSet
<1> DEFINE l == wire[i]
           t == wire[i].turn
<1>2. ASSUME NEW kind, Arrives(i, kind)
      PROVE  /\ l.kind = kind /\ (kind \in OfTurns => t \in Turns)
             /\ kind \in {"completed", "idle"} => l.how \in Ways
  BY <1>1, <1>2, Taken DEF IsLine
<1>3. ASSUME refs' = LookUp(refs)
      PROVE  Looked /\ refs'.finalized = refs.finalized /\ refs'.execution = refs.execution
             /\ refs'.continues = refs.continues
  BY <1>1, <1>3, Looks DEF Looked, SameBut
<1>4. ASSUME NEW f, NEW continues, EndedRefs(refs', f, continues)
      PROVE  /\ Looked /\ refs'.execution = refs.execution /\ refs'.continues = continues
             /\ refs'.finalized = IF f = None THEN refs.finalized ELSE f
  BY <1>4 DEF Looked, EndedRefs
<1>5. CASE OnTurnStarted(i)
  <2>1. Arrives(i, "started") /\ shown' = shown
    BY <1>5 DEF OnTurnStarted
  <2>2. l.kind = "started" /\ t \in Turns
    BY <1>2, <2>1 DEF OfTurns
  <2> DEFINE seen == [refs EXCEPT !.execution = t, !.continues = FALSE]
             begun == StartExecution(record, t, refs.continues)
  <2>3. begun = [turn |-> t, status |-> "active"] /\ begun \in RecordSet
    BY <1>1, <2>2, StartIs DEF RecordSet
  <2>4. seen \in RefSet /\ seen.execution = t /\ seen.finalized = refs.finalized
    BY <1>1, <2>2 DEF RefSet
  <2>5. \/ /\ refs' = [seen EXCEPT !.pendingStop = FALSE]
           /\ record' = CompleteExecution(begun, t, "interrupted") /\ orders' = orders \cup {t}
        \/ /\ refs' = [seen EXCEPT !.adopted = shown.active, !.ahead = TRUE, !.known = t]
           /\ record' = begun /\ turn' = [processing |-> TRUE, active |-> t]
    BY <1>5 DEF OnTurnStarted
  <2> HIDE DEF seen, begun
  <2>6. CASE /\ refs' = [seen EXCEPT !.pendingStop = FALSE]
             /\ record' = CompleteExecution(begun, t, "interrupted") /\ orders' = orders \cup {t}
    <3>1. refs'.execution = t /\ refs'.finalized = refs.finalized
      BY <2>4, <2>6 DEF RefSet
    <3>2. begun.turn = t
      BY <2>3
    <3>3. record'.turn = t /\ record'.status # "active"
      BY <2>3, <2>6, <3>2, CompleteIs DEF Ways
    <3>4. QED
      BY <2>1, <2>2, <2>6, <3>1, <3>3 DEF Writes, Opens
  <2>7. CASE /\ refs' = [seen EXCEPT !.adopted = shown.active, !.ahead = TRUE, !.known = t]
             /\ record' = begun /\ turn' = [processing |-> TRUE, active |-> t]
    <3>1. /\ refs'.execution = t /\ refs'.finalized = refs.finalized
          /\ refs'.known = t /\ refs'.adopted = shown.active
      BY <2>4, <2>7 DEF RefSet
    <3>2. record'.turn = t /\ record' = [turn |-> t, status |-> "active"] /\ turn'.active = t
      BY <2>3, <2>7
    <3>3. QED
      BY <2>1, <2>2, <3>1, <3>2 DEF Writes, Opens
  <2>8. QED
    BY <2>5, <2>6, <2>7
\* The view is looked up, and the record left.
<1>6. ASSUME shown' = shown, record' = record, turn'.active = turn.active,
             Looked, refs'.finalized = refs.finalized, refs'.execution = refs.execution,
             refs.continues => refs'.continues,
             l.kind # "started", l.kind \notin EndKinds
      PROVE  Writes(l)
  BY <1>6 DEF Writes, KeepsOpen
\* A turn ends.
<1>7. ASSUME shown' = shown, turn' = Idle, NEW f \in MaybeTurns, NEW how \in Ways,
             record' = Finalize(f, how), Looked, refs'.execution = refs.execution,
             refs'.finalized = IF f = None THEN refs.finalized ELSE f,
             Breaks(l) \/ Clears(l), l.kind # "started",
             l.kind \in EndKinds => f = LastTurn,
             refs.continues => refs'.continues \/ Breaks(l) \/ l.kind = "closed"
      PROVE  Writes(l)
  <2>1. /\ record'.turn = record.turn
        /\ record'.status = "active" =>
             record' = record /\ (f = None \/ f = refs.finalized \/ f # record.turn)
    BY <1>1, <1>7, FinalizeIs
  <2>3. turn'.active = None
    BY <1>1, <1>7
  <2>4. ASSUME record'.status = "active" PROVE KeepsOpen(l)
    BY <1>7, <2>1, <2>3, <2>4 DEF KeepsOpen
  <2>5. QED
    BY <1>7, <2>1, <2>4 DEF Writes
<1>8. CASE OnTurnCompleted(i)
  <2>1. Arrives(i, "completed") /\ shown' = shown
    BY <1>8 DEF OnTurnCompleted
  <2>2. l.kind = "completed" /\ t \in MaybeTurns /\ l.how \in Ways /\ Breaks(l) /\ l.kind \notin EndKinds
    BY <1>2, <2>1 DEF OfTurns, MaybeTurns, Breaks, EndKinds
  <2>3. CASE KnownTurn(refs) \notin {None, t}
    BY <1>3, <1>6, <1>8, <2>1, <2>2, <2>3 DEF OnTurnCompleted
  <2>4. CASE KnownTurn(refs) \in {None, t}
    <3>1. /\ record' = Finalize(t, l.how) /\ turn' = Idle
          /\ refs' = Reset([Finalized(LookUp(refs), t) EXCEPT !.continues = FALSE])
      BY <1>8, <2>4 DEF OnTurnCompleted
    <3>2. EndedRefs(refs', t, FALSE)
      BY <1>1, <2>2, <3>1, EndsAre
    <3>3. /\ Looked /\ refs'.execution = refs.execution
          /\ refs'.finalized = IF t = None THEN refs.finalized ELSE t
      BY <1>4, <3>2
    <3> HIDE DEF t, l
    <3>4. Writes(l)
      BY <1>7, <2>1, <2>2, <3>1, <3>3
    <3>5. QED
      BY <3>4 DEF l
  <2>5. QED
    BY <2>3, <2>4
<1>9. CASE OnTurnError(i)
  <2>1. Arrives(i, "error") /\ shown' = shown
    BY <1>9 DEF OnTurnError
  <2>2. l.kind = "error" /\ t \in MaybeTurns /\ l.kind \notin EndKinds
    BY <1>2, <2>1 DEF OfTurns, MaybeTurns, EndKinds
  <2>3. CASE /\ refs' = [refs EXCEPT !.continues = TRUE] /\ turn' = turn /\ record' = record
    <3>1. /\ refs'.known = refs.known /\ refs'.ahead = refs.ahead /\ refs'.adopted = refs.adopted
          /\ refs'.continues = TRUE /\ refs'.execution = refs.execution /\ refs'.finalized = refs.finalized
      BY <1>1, <2>3 DEF RefSet
    <3>2. Looked
      BY <3>1, SameKnown DEF Looked
    <3>3. QED
      BY <1>6, <2>1, <2>2, <2>3, <3>1, <3>2
  <2>4. CASE refs' = LookUp(refs) /\ turn' = turn /\ record' = record
    BY <1>3, <1>6, <2>1, <2>2, <2>4
  <2>5. CASE /\ l.how # "willRetry" /\ record' = Finalize(t, "failed") /\ turn' = Idle
             /\ refs' = Reset([Finalized(LookUp(refs), t) EXCEPT !.continues = FALSE])
    <3>1. EndedRefs(refs', t, FALSE)
      BY <1>1, <2>2, <2>5, EndsAre
    <3>2. Breaks(l) /\ "failed" \in Ways
      BY <2>2, <2>5 DEF Breaks, Ways
    <3>3. /\ Looked /\ refs'.execution = refs.execution
          /\ refs'.finalized = IF t = None THEN refs.finalized ELSE t
      BY <1>4, <3>1
    <3> HIDE DEF t, l
    <3>4. Writes(l)
      BY <1>7, <2>1, <2>2, <2>5, <3>2, <3>3
    <3>5. QED
      BY <3>4 DEF l
  <2>6. QED
    BY <1>9, <2>3, <2>4, <2>5 DEF OnTurnError
<1>10. CASE OnStatusActive(i)
  <2>1. Arrives(i, "active") /\ shown' = shown /\ record' = record /\ refs' = LookUp(refs)
        /\ turn' \in {turn, [turn EXCEPT !.processing = TRUE]}
    BY <1>10 DEF OnStatusActive
  <2>2. l.kind = "active" /\ l.kind \notin EndKinds /\ turn'.active = turn.active
    BY <1>1, <1>2, <2>1 DEF EndKinds
  <2>3. QED
    BY <1>3, <1>6, <2>1, <2>2
<1>11. CASE OnStatusIdle(i)
  <2>1. Arrives(i, "idle") /\ shown' = shown /\ turn' = Idle
    BY <1>11 DEF OnStatusIdle, NoLongerProcessing
  <2>2. l.kind = "idle" /\ l.how \in Ways /\ Clears(l) /\ l.kind \in EndKinds
    BY <1>2, <2>1 DEF EndKinds, Clears
  <2>3. CASE refs.continues
    <3>1. record' = record /\ refs' = Reset(LookUp(refs))
      BY <1>11, <2>3 DEF OnStatusIdle
    <3>2. EndedRefs(refs', None, refs.continues)
      BY <1>1, <3>1, EndsAre DEF MaybeTurns
    <3>3. Looked /\ refs'.execution = refs.execution /\ refs'.continues /\ refs'.finalized = refs.finalized
      BY <1>4, <2>3, <3>2
    <3>4. QED
      BY <1>1, <2>1, <2>2, <2>3, <3>1, <3>3 DEF Writes, KeepsOpen
  <2>4. CASE ~refs.continues
    <3>1. record' = Finalize(LastTurn, l.how) /\ refs' = Reset(Finalized(LookUp(refs), LastTurn))
      BY <1>11, <2>4 DEF OnStatusIdle, LastTurn
    <3>2. EndedRefs(refs', LastTurn, refs.continues)
      BY <1>1, <3>1, EndsAre
    <3>3. /\ Looked /\ refs'.execution = refs.execution
          /\ refs'.finalized = IF LastTurn = None THEN refs.finalized ELSE LastTurn
      BY <1>4, <3>2
    <3> HIDE DEF l
    <3>4. Writes(l)
      BY <1>1, <1>7, <2>1, <2>2, <2>4, <3>1, <3>3
    <3>5. QED
      BY <3>4 DEF l
  <2>5. QED
    BY <2>3, <2>4
<1>12. CASE OnThreadClosed(i)
  <2>1. Arrives(i, "closed") /\ shown' = shown /\ turn' = Idle
    BY <1>12 DEF OnThreadClosed
  <2>2. l.kind = "closed" /\ Clears(l) /\ "failed" \in Ways
    BY <1>2, <2>1 DEF Clears, Ways
  <2>3. /\ record' = Finalize(LastTurn, "failed")
        /\ refs' = Reset([Finalized(LookUp(refs), LastTurn) EXCEPT !.continues = FALSE])
    BY <1>12 DEF OnThreadClosed, LastTurn
  <2>4. EndedRefs(refs', LastTurn, FALSE)
    BY <1>1, <2>3, EndsAre
  <2>5. /\ Looked /\ refs'.execution = refs.execution
        /\ refs'.finalized = IF LastTurn = None THEN refs.finalized ELSE LastTurn
    BY <1>4, <2>4
  <2> HIDE DEF l
  <2>6. Writes(l)
    BY <1>1, <1>7, <2>1, <2>2, <2>3, <2>5
  <2>7. QED
    BY <2>6 DEF l
<1>13. CASE StopAnswered(i)
  <2>1. shown' = shown /\ refs' = refs
    BY <1>13 DEF StopAnswered
  <2>2. PICK kind \in {"stopped", "unstopped"} : Arrives(i, kind)
    BY <1>13 DEF StopAnswered
  <2>3. l.kind = kind /\ l.kind \notin EndKinds
    BY <1>2, <2>2 DEF EndKinds
  <2>4. Looked
    BY <2>1 DEF Looked
  <2>5. CASE record' = record /\ turn' = turn
    BY <1>6, <2>1, <2>3, <2>4, <2>5
  <2>6. CASE /\ kind = "stopped" /\ turn' = Idle
             /\ record' = CompleteExecution(record, stop, "interrupted")
    <3>1. record'.turn = record.turn /\ (record'.status = "active" => record' = record)
      BY <1>1, <2>6, CompleteIs DEF Ways
    <3>2. Clears(l) /\ l.kind # "started" /\ turn'.active = None
      BY <1>1, <2>3, <2>6 DEF Clears
    <3>3. record'.status = "active" => KeepsOpen(l)
      BY <2>1, <2>3, <2>4, <3>1, <3>2 DEF KeepsOpen
    <3>4. QED
      BY <2>1, <3>1, <3>2, <3>3 DEF Writes
  <2>7. QED
    BY <1>13, <2>3, <2>5, <2>6 DEF StopAnswered
<1>14. QED
  BY <1>5, <1>8, <1>9, <1>10, <1>11, <1>12, <1>13

\* Lines of the replies to calls.
LEMMA RepliesWrite ==
  ASSUME Typed, NEW i,
         \/ StartAccepted(i) \/ StartRefused(i) \/ StartNotFound(i)
         \/ SteerAccepted(i) \/ SteerStale(i)
  PROVE  Writes(wire[i])
<1>1. TypeOK /\ turn \in ViewSet /\ Idle.active = None
  BY DEF Typed, TypeOK, ViewSet, Idle
<1>2. UNCHANGED <<shown, refs, record>>
  BY DEF StartAccepted, StartRefused, StartNotFound, SteerAccepted, SteerStale, ReplyFrame
<1>3. Looked
  BY <1>2 DEF Looked
<1>4. PICK kind \in Replies : Arrives(i, kind)
  BY DEF StartAccepted, StartRefused, StartNotFound, SteerAccepted, SteerStale, Replies
<1>5. wire[i].kind = kind
  BY <1>4 DEF Arrives
<1>6. \/ turn'.active \in {turn.active, None}
      \/ kind \in {"accepted", "steered"} /\ turn'.active = Subject(wire[i])
  <2>1. CASE StartAccepted(i)
    <3>1. Arrives(i, "accepted") /\ turn' = [turn EXCEPT !.active = wire[i].turn]
      BY <2>1 DEF StartAccepted
    <3>2. kind = "accepted" /\ turn'.active = wire[i].turn
      BY <1>1, <1>5, <3>1 DEF Arrives, ViewSet
    <3>3. QED
      BY <1>5, <3>2 DEF Subject
  <2>2. CASE SteerAccepted(i)
    <3>1. Arrives(i, "steered") /\ turn' = [turn EXCEPT !.active = call[wire[i].turn].steers]
      BY <2>2 DEF SteerAccepted
    <3>2. kind = "steered" /\ turn'.active = call[wire[i].turn].steers
      BY <1>1, <1>5, <3>1 DEF Arrives, ViewSet
    <3>3. QED
      BY <1>5, <3>2 DEF Subject
  <2>3. CASE StartRefused(i) \/ StartNotFound(i) \/ SteerStale(i)
    BY <1>1, <2>3 DEF StartRefused, StartNotFound, SteerStale
  <2>4. QED
    BY <2>1, <2>2, <2>3
<1>7. kind \notin EndKinds /\ kind # "started"
  BY DEF Replies, EndKinds
<1>8. QED
  BY <1>2, <1>3, <1>5, <1>6, <1>7 DEF Writes, KeepsOpen

-----------------------------------------------------------------------------
(* Which turns the frontend knows of. *)

Mentioned == {turn.active, shown.active, refs.known, refs.execution}

\* A turn that the app-server has been asked for, and has not refused.
Born(t) ==
  /\ call[t].at \in {"answer", "done"}
  /\ \A i \in DOMAIN wire : wire[i].kind \in Asides => wire[i].turn # t

Names(t) ==
  \/ t \in Mentioned \cup {refs.finalized, running}
  \/ \E k \in Calls : call[k].steers = t
  \/ \E i \in DOMAIN wire : wire[i].kind \notin Asides /\ wire[i].turn = t

AllBorn == \A t \in Turns : Names(t) => Born(t)

\* What a look leaves known was known or shown.
LEMMA LookMentions ==
  ASSUME TypeOK, shown' = shown \/ shown' = turn, turn'.active \in {turn.active, None},
         \/ refs' = refs \/ refs' = LookUp(refs) \/ refs' = NoteInterrupt(LookUp(refs)),
         NEW t \in Turns
  PROVE  /\ t \in Mentioned' => t \in Mentioned
         /\ t = refs'.finalized => t = refs.finalized
<1>1. /\ LookUp(refs) \in RefSet /\ SameBut(LookUp(refs), refs)
      /\ LookUp(refs).known \in {refs.known, shown.active}
  BY Looks
<1>2. /\ refs'.known \in {refs.known, shown.active} /\ refs'.execution = refs.execution
      /\ refs'.finalized = refs.finalized
  BY <1>1 DEF NoteInterrupt, RefSet, SameBut
<1>3. shown'.active \in {turn.active, shown.active}
  OBVIOUS
<1>4. None \notin Turns
  BY TurnsAssumption DEF Turns
<1>5. QED
  BY <1>2, <1>3, <1>4 DEF Mentioned

\* Refs that are reset mention no more, and finalize a turn they knew.
LEMMA EndMentions ==
  ASSUME TypeOK, NEW f, NEW continues, EndedRefs(refs', f, continues), turn'.active \in {turn.active, None},
         shown' = shown, NEW t \in Turns
  PROVE  /\ t \in Mentioned' => t \in Mentioned
         /\ t = refs'.finalized => t = refs.finalized \/ t = f
<1>1. /\ refs'.known = None /\ refs'.execution = refs.execution
      /\ refs'.finalized = IF f = None THEN refs.finalized ELSE f
  BY DEF EndedRefs
<1>2. None \notin Turns
  BY TurnsAssumption DEF Turns
<1>3. QED
  BY <1>1, <1>2 DEF Mentioned

\* A turn that is mentioned was, or is the subject of the line that was taken.
LEMMA HandledMentions ==
  ASSUME Typed, NEW i,
         \/ OnTurnStarted(i) \/ OnTurnCompleted(i) \/ OnTurnError(i)
         \/ OnStatusActive(i) \/ OnStatusIdle(i) \/ OnThreadClosed(i) \/ StopAnswered(i)
         \/ StartAccepted(i) \/ StartRefused(i) \/ StartNotFound(i)
         \/ SteerAccepted(i) \/ SteerStale(i),
         NEW t \in Turns
  PROVE  /\ t \in Mentioned' => t \in Mentioned \/ (~Refuses(wire[i]) /\ t = Subject(wire[i]))
         /\ t = refs'.finalized =>
              t = refs.finalized \/ t \in Mentioned \/ (~Refuses(wire[i]) /\ t = Subject(wire[i]))
<1>1. /\ WireOK /\ TypeOK /\ None \notin Turns /\ refs \in RefSet /\ turn \in ViewSet
      /\ KnownTurn(refs) \in MaybeTurns /\ refs.execution \in MaybeTurns
      /\ KnownTurn(refs) \in {refs.known, shown.active}
      /\ Idle.active = None
      /\ [turn EXCEPT !.processing = TRUE].active = turn.active
  <2>1. WireOK /\ TypeOK /\ None \notin Turns /\ refs \in RefSet /\ turn \in ViewSet
    BY TurnsAssumption DEF Typed, TypeOK, RefSet, ViewSet, Turns
  <2>2. KnownTurn(refs) \in MaybeTurns /\ KnownTurn(refs) = KnownAt(refs, shown.active)
    BY <2>1, Looks
  <2>3. refs.execution \in MaybeTurns
    BY <2>1 DEF RefSet, MaybeTurns
  <2>4. QED
    BY <2>1, <2>2, <2>3 DEF KnownAt, Idle, ViewSet
<1> DEFINE e == IF KnownTurn(refs) # None THEN KnownTurn(refs) ELSE refs.execution
           l == wire[i]
           Goal == /\ t \in Mentioned' => t \in Mentioned \/ (~Refuses(l) /\ t = Subject(l))
                   /\ t = refs'.finalized =>
                        t = refs.finalized \/ t \in Mentioned \/ (~Refuses(l) /\ t = Subject(l))
<1>2. e \in MaybeTurns /\ (t = e => t \in Mentioned)
  BY <1>1 DEF Mentioned
<1>3. ASSUME NEW kind, Arrives(i, kind)
      PROVE  /\ l.kind = kind /\ IsLine(l)
             /\ kind # "steered" => Subject(l) = l.turn
             /\ kind = "steered" => Subject(l) = call[l.turn].steers
             /\ kind \notin {"refused", "notFound", "stale"} => ~Refuses(l)
  <2>1. l.kind = kind /\ IsLine(l)
    BY <1>1, <1>3, Taken
  <2>2. QED
    BY <2>1 DEF Subject, Refuses
<1> HIDE DEF e
<1>4. CASE OnTurnStarted(i)
  <2>1. /\ Arrives(i, "started") /\ shown' = shown
        /\ \/ /\ turn' = turn
              /\ refs' = [[refs EXCEPT !.execution = l.turn, !.continues = FALSE]
                            EXCEPT !.pendingStop = FALSE]
           \/ /\ turn' = [processing |-> TRUE, active |-> l.turn]
              /\ refs' = [[refs EXCEPT !.execution = l.turn, !.continues = FALSE]
                            EXCEPT !.adopted = shown.active, !.ahead = TRUE, !.known = l.turn]
    BY <1>4 DEF OnTurnStarted
  <2>2. Subject(l) = l.turn /\ ~Refuses(l)
    BY <1>3, <2>1
  <2> HIDE DEF l
  <2>3. /\ refs'.execution = l.turn /\ refs'.known \in {refs.known, l.turn}
        /\ refs'.finalized = refs.finalized /\ turn'.active \in {turn.active, l.turn}
    <3> DEFINE seen == [refs EXCEPT !.execution = l.turn, !.continues = FALSE]
    <3>1. /\ DOMAIN seen = DOMAIN refs /\ seen.execution = l.turn /\ seen.known = refs.known
          /\ seen.finalized = refs.finalized
      BY <1>1 DEF RefSet
    <3>2. DOMAIN refs = {"known", "adopted", "ahead", "continues", "pendingStop", "execution", "finalized"}
      BY <1>1 DEF RefSet
    <3>3. \/ turn' = turn /\ refs' = [seen EXCEPT !.pendingStop = FALSE]
          \/ /\ turn' = [processing |-> TRUE, active |-> l.turn]
             /\ refs' = [seen EXCEPT !.adopted = shown.active, !.ahead = TRUE, !.known = l.turn]
      BY <2>1
    <3> HIDE DEF seen
    <3>4. CASE turn' = turn /\ refs' = [seen EXCEPT !.pendingStop = FALSE]
      BY <3>1, <3>2, <3>4
    <3>5. CASE /\ turn' = [processing |-> TRUE, active |-> l.turn]
               /\ refs' = [seen EXCEPT !.adopted = shown.active, !.ahead = TRUE, !.known = l.turn]
      BY <3>1, <3>2, <3>5
    <3>6. QED
      BY <3>3, <3>4, <3>5
  <2>4. Goal
    BY <2>1, <2>2, <2>3 DEF Mentioned
  <2>5. QED
    BY <2>4 DEF l
<1>5. CASE OnTurnCompleted(i)
  <2>1. Arrives(i, "completed") /\ shown' = shown /\ turn' \in {turn, Idle}
    BY <1>5 DEF OnTurnCompleted
  <2>2. l.turn \in MaybeTurns /\ Subject(l) = l.turn /\ ~Refuses(l)
    BY <1>3, <2>1 DEF IsLine, OfTurns, MaybeTurns
  <2>3. refs' = LookUp(refs)
        \/ refs' = Reset([Finalized(LookUp(refs), l.turn) EXCEPT !.continues = FALSE])
    BY <1>5 DEF OnTurnCompleted
  <2> HIDE DEF l
  <2>4. refs' = LookUp(refs) \/ EndedRefs(refs', l.turn, FALSE)
    BY <1>1, <2>2, <2>3, EndsAre
  <2>5. turn'.active \in {turn.active, None}
    BY <1>1, <2>1
  <2>6. Goal
    BY <1>1, <2>1, <2>2, <2>4, <2>5, LookMentions, EndMentions
  <2>7. QED
    BY <2>6 DEF l
<1>6. CASE OnTurnError(i)
  <2>1. Arrives(i, "error") /\ shown' = shown /\ turn' \in {turn, Idle}
    BY <1>6 DEF OnTurnError
  <2>2. l.turn \in MaybeTurns /\ Subject(l) = l.turn /\ ~Refuses(l)
    BY <1>3, <2>1 DEF IsLine, OfTurns, MaybeTurns
  <2>3. \/ refs' = LookUp(refs) \/ refs' = [refs EXCEPT !.continues = TRUE]
        \/ refs' = Reset([Finalized(LookUp(refs), l.turn) EXCEPT !.continues = FALSE])
    BY <1>6 DEF OnTurnError
  <2> HIDE DEF l
  <2>4. refs' = LookUp(refs) \/ EndedRefs(refs', l.turn, FALSE) \/ refs' = [refs EXCEPT !.continues = TRUE]
    BY <1>1, <2>2, <2>3, EndsAre
  <2>5. turn'.active \in {turn.active, None}
    BY <1>1, <2>1
  <2>6. CASE refs' = LookUp(refs) \/ EndedRefs(refs', l.turn, FALSE)
    <3>1. Goal
      BY <1>1, <2>1, <2>2, <2>5, <2>6, LookMentions, EndMentions
    <3>2. QED
      BY <3>1 DEF l
  <2>7. CASE refs' = [refs EXCEPT !.continues = TRUE]
    <3>1. refs'.known = refs.known /\ refs'.execution = refs.execution /\ refs'.finalized = refs.finalized
      BY <1>1, <2>7 DEF RefSet
    <3>2. Goal
      BY <1>1, <2>1, <2>5, <3>1 DEF Mentioned
    <3>3. QED
      BY <3>2 DEF l
  <2>8. QED
    BY <2>4, <2>6, <2>7
<1>7. CASE OnStatusActive(i)
  <2>1. shown' = shown /\ turn'.active = turn.active /\ refs' = LookUp(refs)
    BY <1>1, <1>7 DEF OnStatusActive
  <2>2. QED
    BY <1>1, <2>1, LookMentions
<1>8. CASE OnStatusIdle(i)
  <2>1. shown' = shown /\ turn'.active = None
    BY <1>1, <1>8 DEF OnStatusIdle, NoLongerProcessing
  <2>2. refs' = Reset(LookUp(refs)) \/ refs' = Reset(Finalized(LookUp(refs), e))
    BY <1>8 DEF OnStatusIdle, e
  <2>3. EndedRefs(refs', None, refs.continues) \/ EndedRefs(refs', e, refs.continues)
    BY <1>1, <1>2, <2>2, EndsAre
  <2>4. QED
    BY <1>1, <1>2, <2>1, <2>3, EndMentions
<1>9. CASE OnThreadClosed(i)
  <2>1. shown' = shown /\ turn'.active = None
    BY <1>1, <1>9 DEF OnThreadClosed
  <2>2. refs' = Reset([Finalized(LookUp(refs), e) EXCEPT !.continues = FALSE])
    BY <1>9 DEF OnThreadClosed, e
  <2>3. EndedRefs(refs', e, FALSE)
    BY <1>1, <1>2, <2>2, EndsAre
  <2>4. QED
    BY <1>1, <1>2, <2>1, <2>3, EndMentions
<1>10. CASE StopAnswered(i)
  <2>1. shown' = shown /\ turn' \in {turn, Idle} /\ refs' = refs
    BY <1>10 DEF StopAnswered
  <2>2. QED
    BY <1>1, <2>1, LookMentions
<1>11. ASSUME ReplyFrame, turn' = turn \/ turn' = Idle PROVE Goal
  <2>1. shown' = shown /\ refs' = refs
    BY <1>11 DEF ReplyFrame
  <2>2. QED
    BY <1>1, <1>11, <2>1 DEF Mentioned
<1>12. ASSUME NEW kind \in {"accepted", "steered"}, Arrives(i, kind), ReplyFrame,
              turn' = [turn EXCEPT !.active = Subject(l)]
       PROVE  Goal
  <2>1. shown' = shown /\ refs' = refs
    BY <1>12 DEF ReplyFrame
  <2>2. turn'.active = Subject(l)
    BY <1>1, <1>12 DEF ViewSet
  <2>3. ~Refuses(l)
    BY <1>3, <1>12
  <2>4. QED
    BY <2>1, <2>2, <2>3 DEF Mentioned
<1>13. CASE StartAccepted(i)
  BY <1>3, <1>12, <1>13 DEF StartAccepted
<1>14. CASE SteerAccepted(i)
  BY <1>3, <1>12, <1>14 DEF SteerAccepted
<1>15. CASE StartRefused(i)
  BY <1>11, <1>15 DEF StartRefused
<1>16. CASE SteerStale(i)
  BY <1>11, <1>16 DEF SteerStale
<1>17. CASE StartNotFound(i)
  BY <1>11, <1>17 DEF StartNotFound
<1>18. QED
  BY <1>4, <1>5, <1>6, <1>7, <1>8, <1>9, <1>10, <1>13, <1>14, <1>15, <1>16, <1>17

\* A step takes a line, and then mentions turns that were mentioned or are its subject,
\* or else only those.
Brings(i, t) == ~Refuses(wire[i]) /\ t = Subject(wire[i])

Heard(i) ==
  /\ Takes(i) /\ Writes(wire[i])
  /\ \A t \in Turns :
       /\ t \in Mentioned' => t \in Mentioned \/ Brings(i, t)
       /\ t = refs'.finalized => t = refs.finalized \/ t \in Mentioned \/ Brings(i, t)

Unheard ==
  /\ Stays \/ Ends \/ Says \/ \E k \in Calls : Answers(k) \/ Accept(k)
  /\ \A t \in Turns : /\ t \in Mentioned' => t \in Mentioned
                      /\ t = refs'.finalized => t = refs.finalized

\* A line that is taken brings its subject; nothing else brings a turn.
LEMMA StepMentions ==
  ASSUME Typed, [Next]_vars
  PROVE  (\E i \in DOMAIN wire : Heard(i)) \/ Unheard
<1>1. CASE Handle
  <2>1. PICK i \in DOMAIN wire :
         \/ OnTurnStarted(i) \/ OnTurnCompleted(i) \/ OnTurnError(i)
         \/ OnStatusActive(i) \/ OnStatusIdle(i) \/ OnThreadClosed(i) \/ StopAnswered(i)
         \/ StartAccepted(i) \/ StartRefused(i) \/ StartNotFound(i)
         \/ SteerAccepted(i) \/ SteerStale(i)
    BY <1>1, Zenon DEF Handle
  <2>2. Takes(i)
    BY <2>1, Handled
  <2>3. ASSUME NEW t \in Turns
        PROVE  /\ t \in Mentioned' => t \in Mentioned \/ Brings(i, t)
               /\ t = refs'.finalized => t = refs.finalized \/ t \in Mentioned \/ Brings(i, t)
    BY <2>1, HandledMentions DEF Brings
  <2>4. Writes(wire[i])
    BY <2>1, NoticesWrite, RepliesWrite
  <2>5. QED
    BY <2>2, <2>3, <2>4 DEF Heard
<1>2. CASE Stays
  <2>1. TypeOK
    BY DEF Typed
  <2>2. QED
    BY <1>2, <2>1, LookMentions DEF Stays, LooksOnly, Unheard
<1>3. CASE Ends \/ Says \/ \E k \in Calls : Answers(k) \/ Accept(k)
  <2>1. UNCHANGED uiVars
    BY <1>3 DEF Ends, Says, Answers, Accept, ServerFrame
  <2>2. Mentioned' = Mentioned /\ refs' = refs
    BY <2>1 DEF Mentioned, uiVars
  <2>3. QED
    BY <1>3, <2>2 DEF Unheard
<1>4. QED
  BY <1>1, <1>2, <1>3, StepIs

\* A turn that is born stays so.
LEMMA BornStays ==
  ASSUME Typed, [Next]_vars, NEW t \in Turns, Born(t)
  PROVE  Born(t)'
<1>1. WireOK /\ call \in [Calls -> CallSet] /\ t \in Calls
  BY DEF Typed, TypeOK, CallSet, Turns
<1>2. call[t].at \in {"answer", "done"} /\ ~Waiting(t)
  BY DEF Born, Waiting
<1>3. \A i \in DOMAIN wire : wire[i].kind \in Asides => wire[i].turn # t
  BY DEF Born
<1>4. ASSUME NEW i \in DOMAIN wire, Takes(i) PROVE Born(t)'
  <2>1. Arrives(i, wire[i].kind)
    BY <1>4 DEF Takes
  <2>2. \A j \in DOMAIN wire' : \E m \in DOMAIN wire : wire'[j] = wire[m]
    BY <1>1, <2>1, TakenLater
  <2>3. call'[t].at \in {"answer", "done"}
    <3>1. CASE wire[i].kind \in Replies /\ wire[i].turn = t
      <4>1. wire[i].kind # "notFound"
        BY <1>3, <3>1 DEF Asides
      <4>2. QED
        BY <1>4, <3>1, <4>1 DEF Takes
    <3>2. CASE ~(wire[i].kind \in Replies /\ wire[i].turn = t)
      BY <1>1, <1>2, <1>4, <3>2 DEF Takes
    <3>3. QED
      BY <3>1, <3>2
  <2>4. QED
    BY <1>3, <2>2, <2>3 DEF Born
<1>5. CASE Stays
  BY <1>1, <1>2, <1>3, <1>5 DEF Stays, Born
<1>6. CASE Ends
  <2>1. PICK lines : EndLines(lines) /\ Emits(lines)
    BY <1>6 DEF Ends
  <2>2. lines \in Seq(Lines) /\ \A j \in DOMAIN lines : IsLine(lines[j])
    BY <2>1 DEF EndLines
  <2>3. \A j \in DOMAIN wire' : j \notin DOMAIN wire =>
          j - Len(wire) \in DOMAIN lines /\ wire'[j] = lines[j - Len(wire)]
    BY <1>1, <2>1, <2>2, Added
  <2>4. \A j \in DOMAIN wire : wire'[j] = wire[j]
    BY <1>1, <2>1, <2>2, Added
  <2>5. \A j \in DOMAIN lines : lines[j].kind \notin Asides
    BY <2>1 DEF EndLines, Asides
  <2>6. \A j \in DOMAIN wire' : wire'[j].kind \in Asides => j \in DOMAIN wire
    BY <2>3, <2>5
  <2>7. QED
    BY <1>2, <1>3, <1>6, <2>4, <2>6 DEF Born, Ends
<1>7. CASE Says
  <2>1. PICK l : IsLine(l) /\ Emits(<<l>>) /\ l.kind \in {"error", "unstopped"}
    BY <1>7 DEF Says
  <2>2. /\ \A j \in DOMAIN wire : wire'[j] = wire[j]
        /\ wire'[Len(wire) + 1] = l
        /\ \A j \in DOMAIN wire' : j \in DOMAIN wire \/ j = Len(wire) + 1
    BY <1>1, <2>1, AddedOne
  <2>3. \A j \in DOMAIN wire' : wire'[j].kind \in Asides => j \in DOMAIN wire
    BY <2>1, <2>2 DEF Asides
  <2>4. QED
    BY <1>2, <1>3, <1>7, <2>2, <2>3 DEF Born, Says
<1>8. ASSUME NEW k \in Calls, Answers(k) PROVE Born(t)'
  <2>1. PICK l : IsLine(l) /\ Emits(<<l>>) /\ l.kind \in Asides /\ l.turn = k
    BY <1>8 DEF Answers
  <2>2. /\ \A j \in DOMAIN wire : wire'[j] = wire[j]
        /\ wire'[Len(wire) + 1] = l
        /\ \A j \in DOMAIN wire' : j \in DOMAIN wire \/ j = Len(wire) + 1
    BY <1>1, <2>1, AddedOne
  <2>3. k # t
    BY <1>2, <1>8 DEF Answers
  <2>4. call'[t] = call[t]
    BY <1>1, <1>8, <2>3 DEF Answers, At
  <2>5. \A j \in DOMAIN wire' : wire'[j].kind \in Asides => wire'[j].turn # t
    BY <1>3, <2>1, <2>2, <2>3
  <2>6. QED
    BY <1>2, <2>4, <2>5 DEF Born
<1>9. ASSUME NEW k \in Calls, Accept(k) PROVE Born(t)'
  <2>1. /\ \A j \in DOMAIN wire : wire'[j] = wire[j]
        /\ wire'[Len(wire) + 1].kind = "accepted"
        /\ wire'[Len(wire) + 2].kind = "started"
        /\ wire'[Len(wire) + 3].kind = "active"
        /\ \A j \in DOMAIN wire' :
              j \in DOMAIN wire \/ j \in {Len(wire) + 1, Len(wire) + 2, Len(wire) + 3}
    BY <1>1, <1>9, AddedStart DEF Turns
  <2>2. call[k].at = "start" /\ At(k, "answer")
    BY <1>9 DEF Accept
  <2>3. k # t
    BY <1>2, <2>2
  <2>4. call'[t] = call[t]
    BY <1>1, <2>2, <2>3 DEF At
  <2>5. \A j \in DOMAIN wire' : wire'[j].kind \in Asides => j \in DOMAIN wire
    BY <2>1 DEF Asides
  <2>6. QED
    BY <1>2, <1>3, <2>1, <2>4, <2>5 DEF Born
<1>10. QED
  BY <1>4, <1>5, <1>6, <1>7, <1>8, <1>9, StepMentions DEF Heard, Unheard

\* A turn that is accepted is new to everyone.
LEMMA AcceptedIsNew ==
  ASSUME Typed, Kept, AllBorn, NEW k \in Calls, Accept(k)
  PROVE  ~Names(k) /\ \A i \in DOMAIN wire : wire[i].turn # k
<1>1. WireOK /\ OneCall
  BY DEF Typed, Kept
<1>2. call[k].at = "start"
  BY DEF Accept
<1>3. ~Names(k)
  BY <1>2 DEF AllBorn, Born, Turns
<1>4. ASSUME NEW i \in DOMAIN wire, wire[i].turn = k PROVE FALSE
  <2>1. CASE wire[i].kind \in Asides
    BY <1>1, <1>2, <1>4, <2>1 DEF OneCall, Asides, Replies
  <2>2. CASE wire[i].kind \notin Asides
    BY <1>3, <1>4, <2>2 DEF Names
  <2>3. QED
    BY <2>1, <2>2
<1>5. QED
  BY <1>3, <1>4

\* A turn becomes known by being accepted.
LEMMA NamesStep ==
  ASSUME Typed, [Next]_vars, NEW t \in Turns, Names(t)'
  PROVE  Names(t) \/ (t \in Calls /\ Accept(t))
<1>1. /\ WireOK /\ TypeOK /\ call \in [Calls -> CallSet] /\ None \notin Turns
      /\ KnownTurn(refs) \in Mentioned
  <2>1. WireOK /\ TypeOK /\ call \in [Calls -> CallSet] /\ None \notin Turns
    BY TurnsAssumption DEF Typed, TypeOK, CallSet, Turns
  <2>2. KnownTurn(refs) = KnownAt(refs, shown.active)
    BY <2>1, Looks
  <2>3. QED
    BY <2>1, <2>2 DEF KnownAt, Mentioned
<1>2. SUFFICES ASSUME ~Names(t) PROVE t \in Calls /\ Accept(t)
  OBVIOUS
<1>3. /\ t \notin Mentioned /\ t # refs.finalized /\ t # running
      /\ \A k \in Calls : call[k].steers # t
      /\ \A i \in DOMAIN wire : wire[i].kind \notin Asides => wire[i].turn # t
  BY <1>2 DEF Names
<1>4. \/ t \in Mentioned' \/ t = refs'.finalized \/ t = running'
      \/ \E k \in Calls : call'[k].steers = t
      \/ \E i \in DOMAIN wire' : wire'[i].kind \notin Asides /\ wire'[i].turn = t
  BY DEF Names
<1>5. ASSUME NEW i \in DOMAIN wire, Takes(i),
             t \in Mentioned' => t \in Mentioned \/ Brings(i, t),
             t = refs'.finalized => t = refs.finalized \/ t \in Mentioned \/ Brings(i, t)
      PROVE  FALSE
  <2>1. ~Brings(i, t)
    <3>1. CASE wire[i].kind = "steered"
      <4>1. wire[i].turn \in Calls
        BY <1>1, <3>1 DEF WireOK, IsLine, OfTurns, Replies, Turns
      <4>2. QED
        BY <1>3, <3>1, <4>1 DEF Brings, Subject
    <3>2. CASE wire[i].kind # "steered"
      BY <1>3, <3>2 DEF Brings, Subject, Refuses, Asides
    <3>3. QED
      BY <3>1, <3>2
  <2>2. \A j \in DOMAIN wire' : \E m \in DOMAIN wire : wire'[j] = wire[m]
    BY <1>1, <1>5, TakenLater DEF Takes
  <2>3. \A k \in Calls : call'[k].steers = call[k].steers
    BY <1>5 DEF Takes
  <2>4. running' = running
    BY <1>5 DEF Takes
  <2>5. QED
    BY <1>3, <1>4, <1>5, <2>1, <2>2, <2>3, <2>4
<1>6. ASSUME t \in Mentioned' => t \in Mentioned, t = refs'.finalized => t = refs.finalized
      PROVE  \/ t = running' \/ \E k \in Calls : call'[k].steers = t
             \/ \E i \in DOMAIN wire' : wire'[i].kind \notin Asides /\ wire'[i].turn = t
  BY <1>3, <1>4, <1>6
<1> DEFINE Others == \/ t = running' \/ \E k \in Calls : call'[k].steers = t
                     \/ \E i \in DOMAIN wire' : wire'[i].kind \notin Asides /\ wire'[i].turn = t
<1>7. ASSUME Stays, Others PROVE FALSE
  <2>1. wire' = wire /\ running' = running
    BY <1>7 DEF Stays
  <2>2. \A k \in Calls : call'[k].steers # t
    BY <1>1, <1>3, <1>7 DEF Stays
  <2>3. QED
    BY <1>3, <1>7, <2>1, <2>2
<1>8. ASSUME Ends, Others PROVE FALSE
  <2>1. PICK lines : EndLines(lines) /\ Emits(lines)
    BY <1>8 DEF Ends
  <2>2. lines \in Seq(Lines) /\ \A j \in DOMAIN lines : IsLine(lines[j])
    BY <2>1 DEF EndLines
  <2>3. /\ \A j \in DOMAIN wire' : j \notin DOMAIN wire =>
             j - Len(wire) \in DOMAIN lines /\ wire'[j] = lines[j - Len(wire)]
        /\ \A j \in DOMAIN wire : wire'[j] = wire[j]
    BY <1>1, <2>1, <2>2, Added
  <2>4. \A j \in DOMAIN lines : lines[j].turn # t
    <3>1. ASSUME NEW j \in DOMAIN lines PROVE lines[j].turn \in {running, None}
      BY <2>1, <2>2 DEF EndLines, IsLine
    <3>2. QED
      BY <1>1, <1>3, <3>1
  <2>5. \A j \in DOMAIN wire' : wire'[j].kind \notin Asides => wire'[j].turn # t
    BY <1>3, <2>3, <2>4
  <2>6. running' # t /\ call' = call
    BY <1>1, <1>8 DEF Ends
  <2>7. QED
    BY <1>3, <1>8, <2>5, <2>6
<1>9. ASSUME Says, Others PROVE FALSE
  <2>1. PICK l : IsLine(l) /\ Emits(<<l>>) /\ l.kind \in {"error", "unstopped"}
                 /\ (l.kind = "error" => l.turn = running)
    BY <1>9 DEF Says
  <2>2. /\ \A j \in DOMAIN wire : wire'[j] = wire[j]
        /\ wire'[Len(wire) + 1] = l
        /\ \A j \in DOMAIN wire' : j \in DOMAIN wire \/ j = Len(wire) + 1
    BY <1>1, <2>1, AddedOne
  <2>3. l.turn # t
    BY <1>1, <1>3, <2>1 DEF IsLine, OfTurns, Replies
  <2>4. \A j \in DOMAIN wire' : wire'[j].kind \notin Asides => wire'[j].turn # t
    BY <1>3, <2>2, <2>3
  <2>5. QED
    BY <1>3, <1>9, <2>4 DEF Says
<1>10. ASSUME NEW k \in Calls, Answers(k), Others PROVE FALSE
  <2>1. PICK l : IsLine(l) /\ Emits(<<l>>) /\ l.kind \in Asides
    BY <1>10 DEF Answers
  <2>2. /\ \A j \in DOMAIN wire : wire'[j] = wire[j]
        /\ wire'[Len(wire) + 1] = l
        /\ \A j \in DOMAIN wire' : j \in DOMAIN wire \/ j = Len(wire) + 1
    BY <1>1, <2>1, AddedOne
  <2>3. \A j \in DOMAIN wire' : wire'[j].kind \notin Asides => wire'[j].turn # t
    BY <1>3, <2>1, <2>2
  <2>4. \A m \in Calls : call'[m].steers = call[m].steers
    BY <1>1, <1>10 DEF Answers, At, CallSet
  <2>5. running' = running
    BY <1>10 DEF Answers
  <2>6. QED
    BY <1>3, <1>10, <2>3, <2>4, <2>5
<1>11. ASSUME NEW k \in Calls, Accept(k), Others PROVE t = k
  <2>1. /\ \A j \in DOMAIN wire : wire'[j] = wire[j]
        /\ wire'[Len(wire) + 1].turn = k /\ wire'[Len(wire) + 2].turn = k
        /\ wire'[Len(wire) + 3].turn = k
        /\ \A j \in DOMAIN wire' :
              j \in DOMAIN wire \/ j \in {Len(wire) + 1, Len(wire) + 2, Len(wire) + 3}
    BY <1>1, <1>11, AddedStart DEF Turns
  <2>2. \A m \in Calls : call'[m].steers = call[m].steers
    BY <1>1, <1>11 DEF Accept, At, CallSet
  <2>3. running' = k
    BY <1>11 DEF Accept
  <2>4. CASE \E j \in DOMAIN wire' : wire'[j].kind \notin Asides /\ wire'[j].turn = t
    BY <1>3, <2>1, <2>4
  <2>5. QED
    BY <1>3, <1>11, <2>2, <2>3, <2>4
<1>12. QED
  <2>1. CASE \E i \in DOMAIN wire : Heard(i)
    BY <1>5, <2>1 DEF Heard
  <2>2. CASE Unheard
    <3>1. Others
      BY <1>6, <2>2 DEF Unheard
    <3>2. QED
      BY <1>7, <1>8, <1>9, <1>10, <1>11, <2>2, <3>1 DEF Unheard
  <2>3. QED
    BY <2>1, <2>2, StepMentions

\* Every turn the frontend knows of has been asked for and not been refused.
LEMMA AllBornStep ==
  ASSUME Typed, Kept, AllBorn, [Next]_vars
  PROVE  AllBorn'
<1>1. SUFFICES ASSUME NEW t \in Turns, Names(t)' PROVE Born(t)'
  BY DEF AllBorn
<1>2. CASE Names(t)
  BY <1>2, BornStays DEF AllBorn
<1>3. CASE t \in Calls /\ Accept(t)
  <2>1. \A i \in DOMAIN wire : wire[i].turn # t
    BY <1>3, AcceptedIsNew
  <2>2. WireOK /\ call \in [Calls -> CallSet]
    BY DEF Typed, TypeOK, CallSet
  <2>3. /\ \A j \in DOMAIN wire : wire'[j] = wire[j]
        /\ wire'[Len(wire) + 1].kind = "accepted"
        /\ wire'[Len(wire) + 2].kind = "started"
        /\ wire'[Len(wire) + 3].kind = "active"
        /\ \A j \in DOMAIN wire' :
              j \in DOMAIN wire \/ j \in {Len(wire) + 1, Len(wire) + 2, Len(wire) + 3}
    BY <1>3, <2>2, AddedStart
  <2>4. call'[t].at = "answer"
    <3>1. At(t, "answer")
      BY <1>3, Zenon DEF Accept
    <3>2. QED
      BY <1>3, <2>2, <3>1 DEF At, CallSet
  <2>5. \A j \in DOMAIN wire' : wire'[j].kind \in Asides => j \in DOMAIN wire
    BY <2>3 DEF Asides
  <2>6. QED
    BY <2>1, <2>3, <2>4, <2>5 DEF Born
<1>4. QED
  BY <1>1, <1>2, <1>3, NamesStep

-----------------------------------------------------------------------------
(* How the record follows the turns. *)

\* The one turn/started on its way is of the call under way, which nobody knows of
\* until its reply has been read.
StartsAt(i) ==
  LET k == wire[i].turn IN
  /\ \A j \in DOMAIN wire : wire[j].kind \notin Asides /\ (wire[j].kind = "started" => j = i)
  /\ \A m \in Calls : Under(m) => m = k
  /\ refs.finalized # k
  /\ i > 1 => /\ i - 1 \in DOMAIN wire /\ wire[i - 1].kind = "accepted" /\ wire[i - 1].turn = k
              /\ k \notin Mentioned
              /\ \A j \in DOMAIN wire : j < i - 1 => wire[j].turn # k

Starts == \A i \in DOMAIN wire : wire[i].kind = "started" => StartsAt(i)

\* A turn is announced right behind the reply that accepts it, or has been.
Accepts ==
  \A i \in DOMAIN wire : wire[i].kind = "accepted" =>
    \/ i + 1 \in DOMAIN wire /\ wire[i + 1].kind = "started" /\ wire[i + 1].turn = wire[i].turn
    \/ i = 1 /\ record.turn = wire[i].turn

Open == record.status = "active"

\* The record is of the last turn announced, and open of one that is not finalized.
Recorded ==
  /\ record.turn = refs.execution
  /\ Open => record.turn \notin {None, refs.finalized}

\* While it is open no other turn is steered, and none is seen but one whose
\* announcement is the next to be heard.
Steers ==
  Open => \A k \in Calls :
    call[k].at = "steer" \/ (\E i \in DOMAIN wire : wire[i].kind = "steered" /\ wire[i].turn = k)
      => call[k].steers = record.turn

HeadStarts == 1 \in DOMAIN wire /\ wire[1].kind = "started"
OfRecord == {None, record.turn}

Follows ==
  Open /\ ~HeadStarts =>
    /\ turn.active \in OfRecord
    /\ \A s \in OfRecord \cup {shown.active} : KnownAt(refs, s) \in OfRecord

\* A turn that runs is recorded, about to be announced or to be interrupted; when none
\* runs none is, but one to be continued, or its end is about to be heard.
Written ==
  /\ running # None => Begins(0) \/ running \in orders \/ record = [turn |-> running, status |-> "active"]
  /\ running = None => Ended(0) \/ (Open => refs.continues)

\* A call comes under way when nothing is on its way.
LEMMA NotAsked ==
  ASSUME Typed, OneCall, [Next]_vars, calm', NEW m \in Calls, Under(m)', ~Under(m)
  PROVE  DOMAIN wire = {}
<1>1. WireOK /\ call \in [Calls -> CallSet]
  BY DEF Typed, TypeOK, CallSet
<1>2. call[m].at \in {"idle", "done"} /\ call'[m].at \notin {"idle", "done"}
  BY DEF Under
<1>3. CASE call[m].at = "done"
  <2>1. ASSUME NEW i \in DOMAIN wire, Heard(i) PROVE FALSE
    <3>1. wire[i].kind \in Replies => wire[i].turn # m
      BY <1>3 DEF OneCall
    <3>2. call'[m] = call[m]
      BY <2>1, <3>1 DEF Heard, Takes
    <3>3. QED
      BY <1>2, <1>3, <3>2
  <2>2. ASSUME Unheard PROVE FALSE
    <3>1. CASE Stays
      BY <1>2, <1>3, <3>1 DEF Stays, Waiting
    <3>2. CASE Ends \/ Says
      BY <1>2, <1>3, <3>2 DEF Ends, Says
    <3>3. ASSUME NEW k \in Calls, Answers(k) \/ Accept(k) PROVE FALSE
      <4>1. call[k].at # "done" /\ At(k, "answer")
        BY <3>3 DEF Answers, Accept
      <4>2. call'[m] = call[m]
        BY <1>1, <1>3, <4>1 DEF At
      <4>3. QED
        BY <1>2, <1>3, <4>2
    <3>4. QED
      BY <2>2, <3>1, <3>2, <3>3 DEF Unheard
  <2>3. QED
    BY <2>1, <2>2, StepMentions
<1>4. CASE call[m].at = "idle"
  <2>1. Makes(m)
    <3>1. \A i \in DOMAIN wire : wire[i].kind \in Replies => call[wire[i].turn].at # "idle"
      BY DEF OneCall
    <3>2. QED
      BY <1>2, <1>4, <3>1, OnlyMade
  <2>2. Settled
    BY <1>2, <1>4, <2>1 DEF Makes, Send, AutoFires
  <2>3. QED
    BY <2>2 DEF Settled
<1>5. QED
  BY <1>2, <1>3, <1>4

\* Lines that are added behind a turn/started, and announce no turn, leave it alone.
LEMMA StartsBehind ==
  ASSUME Typed, Kept, [Next]_vars, calm', NEW i \in DOMAIN wire, wire[i].kind = "started", StartsAt(i),
         \A j \in DOMAIN wire : j \in DOMAIN wire' /\ wire'[j] = wire[j],
         \A j \in DOMAIN wire' : j \notin DOMAIN wire =>
           wire'[j].kind \notin Asides /\ wire'[j].kind # "started",
         wire[i].turn \in Mentioned' => wire[i].turn \in Mentioned,
         wire[i].turn = refs'.finalized => wire[i].turn = refs.finalized
  PROVE  StartsAt(i)'
<1> DEFINE k == wire[i].turn
<1>1. WireOK /\ OneCall /\ DOMAIN wire = 1 .. Len(wire) /\ Len(wire) \in Nat /\ wire'[i] = wire[i]
  BY DEF Typed, Kept, WireOK
<1>2. \A j \in DOMAIN wire' : wire'[j].kind \notin Asides /\ (wire'[j].kind = "started" => j = i)
  BY DEF StartsAt
<1>3. \A m \in Calls : Under(m)' => m = k
  <2>1. ASSUME NEW m \in Calls, Under(m)' PROVE m = k
    <3>1. Under(m)
      BY <1>1, <2>1, NotAsked
    <3>2. QED
      BY <3>1 DEF StartsAt
  <2>2. QED
    BY <2>1
<1>4. refs'.finalized # k
  BY DEF StartsAt
<1>5. ASSUME i > 1
      PROVE  /\ i - 1 \in DOMAIN wire' /\ wire'[i - 1].kind = "accepted" /\ wire'[i - 1].turn = k
             /\ k \notin Mentioned'
             /\ \A j \in DOMAIN wire' : j < i - 1 => wire'[j].turn # k
  <2>1. /\ i - 1 \in DOMAIN wire /\ wire[i - 1].kind = "accepted" /\ wire[i - 1].turn = k
        /\ k \notin Mentioned /\ \A j \in DOMAIN wire : j < i - 1 => wire[j].turn # k
    BY <1>5 DEF StartsAt
  <2>2. WireOK'
    BY TypeStep DEF Typed
  <2>3. \A j \in DOMAIN wire' : j < i - 1 => j \in DOMAIN wire
    <3>1. \A j \in DOMAIN wire' : j \in Int /\ j >= 1
      BY <2>2 DEF WireOK
    <3>2. QED
      BY <1>1, <3>1
  <2>4. QED
    BY <2>1, <2>3
<1>6. QED
  BY <1>1, <1>2, <1>3, <1>4, <1>5 DEF StartsAt

\* A turn is announced behind the reply that accepts it, to people who do not know it.
LEMMA StartsStep ==
  ASSUME Typed, Kept, AllBorn, Starts, [Next]_vars, calm'
  PROVE  Starts'
<1>1. /\ WireOK /\ OneCall /\ DOMAIN wire = 1 .. Len(wire) /\ Len(wire) \in Nat
      /\ call \in [Calls -> CallSet]
  BY DEF Typed, Kept, WireOK, TypeOK, CallSet
<1>2. \A i \in DOMAIN wire : wire[i].kind = "started" => wire[i].turn \in Turns /\ wire[i].turn \in Calls
  BY <1>1 DEF WireOK, IsLine, OfTurns, Turns
<1>3. ASSUME NEW b \in DOMAIN wire, Heard(b) PROVE Starts'
  <2>1. Arrives(b, wire[b].kind)
    BY <1>3 DEF Heard, Takes
  <2>2. /\ DOMAIN wire' = 1 .. Len(wire) - 1
        /\ \A j \in DOMAIN wire' :
             /\ j < b => j \in DOMAIN wire /\ wire'[j] = wire[j]
             /\ j >= b => j + 1 \in DOMAIN wire /\ wire'[j] = wire[j + 1]
        /\ b = 1 \/ (b = 2 /\ wire[2].kind = "started")
    BY <1>1, <2>1, Taken
  <2>3. SUFFICES ASSUME NEW n \in DOMAIN wire', wire'[n].kind = "started" PROVE StartsAt(n)'
    BY DEF Starts
  <2>4. PICK i \in DOMAIN wire : i # b /\ wire'[n] = wire[i] /\ (n < b => i = n) /\ (n >= b => i = n + 1)
    BY <1>1, <2>2
  <2> DEFINE k == wire[i].turn
  <2>5. StartsAt(i) /\ k \in Turns /\ wire[i].kind = "started"
    BY <1>2, <2>3, <2>4 DEF Starts
  <2>6. b = 1 /\ i = n + 1 /\ i > 1 /\ wire'[n].turn = k
    BY <1>1, <2>2, <2>4, <2>5 DEF StartsAt
  <2>7. /\ wire[i - 1].kind = "accepted" /\ wire[i - 1].turn = k /\ k \notin Mentioned /\ refs.finalized # k
        /\ \A j \in DOMAIN wire : j < i - 1 => wire[j].turn # k
        /\ \A j \in DOMAIN wire : wire[j].kind \notin Asides /\ (wire[j].kind = "started" => j = i)
    BY <2>5, <2>6 DEF StartsAt
  <2>8. \A j \in DOMAIN wire' : wire'[j] = wire[j + 1] /\ j + 1 \in DOMAIN wire
    BY <2>2, <2>6
  <2>9. \A j \in DOMAIN wire' : wire'[j].kind \notin Asides /\ (wire'[j].kind = "started" => j = n)
    BY <1>1, <2>2, <2>6, <2>7, <2>8
  <2>10. \A m \in Calls : Under(m)' => m = k
    <3>1. ASSUME NEW m \in Calls, Under(m)' PROVE m = k
      <4>1. Under(m)
        BY <1>1, <3>1, NotAsked
      <4>2. QED
        BY <2>5, <4>1 DEF StartsAt
    <3>2. QED
      BY <3>1
  <2>11. n > 1 => ~Brings(1, k)
    <3>1. ASSUME n > 1 PROVE ~Brings(1, k)
      <4>1. 1 \in DOMAIN wire /\ 1 < i - 1
        BY <1>1, <2>2, <2>6, <3>1
      <4>2. wire[1].turn # k /\ wire[1].kind # "steered"
        BY <2>7, <4>1 DEF Asides
      <4>3. QED
        BY <4>2 DEF Brings, Subject
    <3>2. QED
      BY <3>1
  <2>12. refs'.finalized # k
    <3>1. CASE n > 1
      BY <1>3, <2>5, <2>6, <2>7, <2>11, <3>1 DEF Heard
    <3>2. CASE ~(n > 1)
      <4>1. n = 1 /\ wire[b].kind = "accepted"
        BY <1>1, <2>2, <2>6, <2>7, <3>2
      <4>2. refs' = refs
        BY <1>3, <4>1 DEF Heard, Takes, Replies
      <4>3. QED
        BY <2>7, <4>2
    <3>3. QED
      BY <3>1, <3>2
  <2>13. ASSUME n > 1
         PROVE  /\ n - 1 \in DOMAIN wire' /\ wire'[n - 1].kind = "accepted" /\ wire'[n - 1].turn = k
                /\ k \notin Mentioned'
                /\ \A j \in DOMAIN wire' : j < n - 1 => wire'[j].turn # k
    <3>1. n - 1 \in DOMAIN wire' /\ (n - 1) + 1 = i - 1
      BY <2>2, <2>6, <2>13
    <3>2. wire'[n - 1] = wire[i - 1]
      BY <2>8, <3>1
    <3>3. k \notin Mentioned'
      BY <1>3, <2>5, <2>6, <2>7, <2>11, <2>13 DEF Heard
    <3>4. \A j \in DOMAIN wire' : j < n - 1 => wire'[j].turn # k
      BY <1>1, <2>2, <2>6, <2>7, <2>8
    <3>5. QED
      BY <2>7, <3>1, <3>2, <3>3, <3>4
  <2>14. QED
    BY <2>6, <2>9, <2>10, <2>12, <2>13 DEF StartsAt
<1>4. ASSUME Unheard,
             \A j \in DOMAIN wire : j \in DOMAIN wire' /\ wire'[j] = wire[j],
             \A j \in DOMAIN wire' : j \notin DOMAIN wire =>
               wire'[j].kind \notin Asides /\ wire'[j].kind # "started"
      PROVE  Starts'
  <2>1. SUFFICES ASSUME NEW i \in DOMAIN wire', wire'[i].kind = "started" PROVE StartsAt(i)'
    BY DEF Starts
  <2>2. i \in DOMAIN wire /\ wire[i].kind = "started" /\ wire[i].turn \in Turns
    BY <1>2, <1>4, <2>1
  <2>3. StartsAt(i)
    BY <2>2 DEF Starts
  <2>4. /\ wire[i].turn \in Mentioned' => wire[i].turn \in Mentioned
        /\ wire[i].turn = refs'.finalized => wire[i].turn = refs.finalized
    BY <1>4, <2>2 DEF Unheard
  <2>5. QED
    BY <1>4, <2>2, <2>3, <2>4, StartsBehind
<1>5. ASSUME Unheard, Stays PROVE Starts'
  BY <1>4, <1>5 DEF Stays
<1>6. ASSUME Unheard, Ends PROVE Starts'
  <2>1. PICK lines : EndLines(lines) /\ Emits(lines)
    BY <1>6 DEF Ends
  <2>2. lines \in Seq(Lines) /\ \A j \in DOMAIN lines : IsLine(lines[j])
    BY <2>1 DEF EndLines
  <2>3. /\ \A j \in DOMAIN wire' : j \notin DOMAIN wire =>
             j - Len(wire) \in DOMAIN lines /\ wire'[j] = lines[j - Len(wire)]
        /\ \A j \in DOMAIN wire : j \in DOMAIN wire' /\ wire'[j] = wire[j]
    BY <1>1, <2>1, <2>2, Added
  <2>4. \A j \in DOMAIN lines : lines[j].kind \notin Asides /\ lines[j].kind # "started"
    BY <2>1 DEF EndLines, Asides
  <2>5. QED
    BY <1>4, <1>6, <2>3, <2>4
<1>7. ASSUME Unheard, Says PROVE Starts'
  <2>1. PICK l : IsLine(l) /\ Emits(<<l>>) /\ l.kind \in {"error", "unstopped"}
    BY <1>7 DEF Says
  <2>2. /\ \A j \in DOMAIN wire : j \in DOMAIN wire' /\ wire'[j] = wire[j]
        /\ wire'[Len(wire) + 1] = l
        /\ \A j \in DOMAIN wire' : j \in DOMAIN wire \/ j = Len(wire) + 1
    BY <1>1, <2>1, AddedOne
  <2>3. \A j \in DOMAIN wire' : j \notin DOMAIN wire =>
               wire'[j].kind \notin Asides /\ wire'[j].kind # "started"
    BY <2>1, <2>2 DEF Asides
  <2>4. QED
    BY <1>4, <1>7, <2>2, <2>3
\* A call that is still to be answered has not been announced.
<1>8. ASSUME NEW k \in Calls, call[k].at \in {"start", "steer"}, NEW i \in DOMAIN wire
      PROVE  wire[i].kind # "started" /\ wire[i].kind \notin Replies
  <2>1. Under(k)
    BY <1>8 DEF Under
  <2>2. ASSUME wire[i].kind = "started" PROVE FALSE
    <3>1. StartsAt(i) /\ wire[i].turn = k
      BY <2>1, <2>2 DEF Starts, StartsAt
    <3>2. Names(k) /\ k \in Turns
      BY <2>2, <3>1 DEF Names, Asides, Turns
    <3>3. Born(k)
      BY <3>2 DEF AllBorn
    <3>4. QED
      BY <1>8, <3>3 DEF Born
  <2>3. ASSUME wire[i].kind \in Replies PROVE FALSE
    <3>1. wire[i].turn \in Calls /\ call[wire[i].turn].at = "answer"
      BY <1>1, <2>3 DEF OneCall, WireOK, IsLine, OfTurns, Turns
    <3>2. Under(wire[i].turn)
      BY <3>1 DEF Under
    <3>3. wire[i].turn = k
      BY <1>1, <2>1, <3>1, <3>2 DEF OneCall
    <3>4. QED
      BY <1>8, <3>1, <3>3
  <2>4. QED
    BY <2>2, <2>3
<1>9. ASSUME NEW k \in Calls, Answers(k) PROVE Starts'
  <2>1. PICK l : IsLine(l) /\ Emits(<<l>>) /\ l.kind \in Asides
    BY <1>9 DEF Answers
  <2>2. /\ \A j \in DOMAIN wire : j \in DOMAIN wire' /\ wire'[j] = wire[j]
        /\ wire'[Len(wire) + 1] = l
        /\ \A j \in DOMAIN wire' : j \in DOMAIN wire \/ j = Len(wire) + 1
    BY <1>1, <2>1, AddedOne
  <2>3. \A j \in DOMAIN wire : wire[j].kind # "started"
    BY <1>8, <1>9 DEF Answers
  <2>4. \A j \in DOMAIN wire' : wire'[j].kind # "started"
    BY <2>1, <2>2, <2>3 DEF Asides
  <2>5. QED
    BY <2>4 DEF Starts
<1>10. ASSUME NEW k \in Calls, Accept(k), Unheard PROVE Starts'
  <2>1. /\ DOMAIN wire' = 1 .. Len(wire) + 3
        /\ \A j \in DOMAIN wire : j \in DOMAIN wire' /\ wire'[j] = wire[j]
        /\ wire'[Len(wire) + 1].kind = "accepted" /\ wire'[Len(wire) + 1].turn = k
        /\ wire'[Len(wire) + 2].kind = "started" /\ wire'[Len(wire) + 2].turn = k
        /\ wire'[Len(wire) + 3].kind = "active"
        /\ \A j \in DOMAIN wire' :
              j \in DOMAIN wire \/ j \in {Len(wire) + 1, Len(wire) + 2, Len(wire) + 3}
    BY <1>1, <1>10, AddedStart DEF Turns
  <2>2. /\ ~Names(k) /\ \A j \in DOMAIN wire : wire[j].turn # k
    BY <1>10, AcceptedIsNew
  <2>3. call[k].at = "start"
    BY <1>10 DEF Accept
  <2>4. \A j \in DOMAIN wire : wire[j].kind # "started" /\ wire[j].kind \notin Asides
    BY <1>8, <2>3 DEF Asides, Replies
  <2>5. PICK i \in DOMAIN wire' : i = Len(wire) + 2
    BY <1>1, <2>1
  <2>6. \A j \in DOMAIN wire' : wire'[j].kind \notin Asides /\ (wire'[j].kind = "started" => j = i)
    BY <2>1, <2>4, <2>5 DEF Asides
  <2>7. \A m \in Calls : Under(m)' => m = k
    <3>1. ASSUME NEW m \in Calls, Under(m)' PROVE m = k
      <4>1. At(k, "answer") /\ Under(k)
        BY <1>10, <2>3, Zenon DEF Accept, Under
      <4>2. m # k => call'[m] = call[m]
        BY <1>1, <4>1 DEF At
      <4>3. QED
        BY <1>1, <3>1, <4>1, <4>2 DEF OneCall, Under
    <3>2. QED
      BY <3>1
  <2>8. k \notin Mentioned' /\ refs'.finalized # k
    <3>1. k \notin Mentioned /\ refs.finalized # k /\ k \in Turns
      BY <2>2 DEF Names, Turns
    <3>2. QED
      BY <1>10, <3>1 DEF Unheard
  <2>9. \A j \in DOMAIN wire' : j < i - 1 => wire'[j].turn # k
    <3>1. \A j \in DOMAIN wire' : j < i - 1 => j \in DOMAIN wire
      BY <1>1, <2>1, <2>5
    <3>2. QED
      BY <2>1, <2>2, <3>1
  <2>10. StartsAt(i)'
    <3>1. i - 1 \in DOMAIN wire' /\ i - 1 = Len(wire) + 1
      BY <1>1, <2>1, <2>5
    <3>2. wire'[i].turn = k /\ wire'[i - 1].kind = "accepted" /\ wire'[i - 1].turn = k
      BY <2>1, <2>5, <3>1
    <3>3. QED
      BY <2>6, <2>7, <2>8, <2>9, <3>1, <3>2 DEF StartsAt
  <2>11. \A j \in DOMAIN wire' : wire'[j].kind = "started" => j = i
    BY <2>6
  <2>12. QED
    BY <2>10, <2>11 DEF Starts
<1>11. QED
  BY <1>3, <1>5, <1>6, <1>7, <1>9, <1>10, StepMentions DEF Unheard

\* Refs that are looked up, or left.
LEMMA LookLeaves ==
  ASSUME TypeOK, \/ refs' = refs \/ refs' = LookUp(refs) \/ refs' = NoteInterrupt(LookUp(refs))
  PROVE  /\ Looked /\ refs'.continues = refs.continues
         /\ refs'.execution = refs.execution /\ refs'.finalized = refs.finalized
<1> DEFINE l == LookUp(refs)
<1>1. /\ l \in RefSet /\ SameBut(l, refs) /\ KnownAt(l, shown.active) = KnownTurn(refs)
      /\ \A s \in MaybeTurns : KnownAt(l, s) \in {s, KnownTurn(refs)}
  BY Looks
<1> HIDE DEF l
<1>2. CASE refs' = refs
  BY <1>2 DEF Looked
<1>3. CASE refs' = l
  BY <1>1, <1>3 DEF Looked, SameBut
<1>4. CASE refs' = NoteInterrupt(l)
  <2>1. /\ refs'.known = l.known /\ refs'.ahead = l.ahead /\ refs'.adopted = l.adopted
        /\ refs'.continues = l.continues /\ refs'.execution = l.execution /\ refs'.finalized = l.finalized
    BY <1>1, <1>4 DEF NoteInterrupt, RefSet
  <2>2. \A s : KnownAt(refs', s) = KnownAt(l, s)
    BY <2>1, SameKnown
  <2>3. QED
    BY <1>1, <2>1, <2>2 DEF Looked, SameBut
<1>5. QED
  BY <1>2, <1>3, <1>4 DEF l

\* What a step that takes no line leaves alone.
LEMMA UnheardKeeps ==
  ASSUME Typed, Unheard
  PROVE  /\ record' = record /\ refs'.continues = refs.continues
         /\ refs'.execution = refs.execution /\ refs'.finalized = refs.finalized
<1>1. TypeOK
  BY DEF Typed
<1>2. CASE Stays
  BY <1>1, <1>2, LookLeaves DEF Stays, LooksOnly
<1>3. CASE Ends \/ Says \/ \E k \in Calls : Answers(k) \/ Accept(k)
  <2>1. UNCHANGED uiVars
    BY <1>3 DEF Ends, Says, Answers, Accept, ServerFrame
  <2>2. QED
    BY <2>1 DEF uiVars
<1>4. QED
  BY <1>2, <1>3 DEF Unheard

\* Lines that are added.
LEMMA UnheardAdds ==
  ASSUME Typed, Unheard
  PROVE  /\ \A j \in DOMAIN wire : j \in DOMAIN wire' /\ wire'[j] = wire[j]
         /\ \A j \in DOMAIN wire' : j \notin DOMAIN wire =>
              \/ wire'[j].kind \notin {"accepted", "started", "steered"}
              \/ \E k \in Calls : Accept(k) /\ wire'[j].kind # "steered"
              \/ wire'[j].turn \in Calls /\ Answers(wire'[j].turn)
                 /\ (wire'[j].kind = "steered" => call[wire'[j].turn].at = "steer")
                 /\ wire'[j].kind \in Asides
<1>1. WireOK
  BY DEF Typed
<1>2. CASE Stays
  BY <1>2 DEF Stays
<1>3. CASE Ends
  <2>1. PICK lines : EndLines(lines) /\ Emits(lines)
    BY <1>3 DEF Ends
  <2>2. lines \in Seq(Lines) /\ \A j \in DOMAIN lines : IsLine(lines[j])
    BY <2>1 DEF EndLines
  <2>3. /\ \A j \in DOMAIN wire' : j \notin DOMAIN wire =>
             j - Len(wire) \in DOMAIN lines /\ wire'[j] = lines[j - Len(wire)]
        /\ \A j \in DOMAIN wire : j \in DOMAIN wire' /\ wire'[j] = wire[j]
    BY <1>1, <2>1, <2>2, Added
  <2>4. \A j \in DOMAIN lines : lines[j].kind \notin {"accepted", "started", "steered"}
    BY <2>1 DEF EndLines
  <2>5. QED
    BY <2>3, <2>4
<1>4. CASE Says
  <2>1. PICK l : IsLine(l) /\ Emits(<<l>>) /\ l.kind \in {"error", "unstopped"}
    BY <1>4 DEF Says
  <2>2. /\ \A j \in DOMAIN wire : j \in DOMAIN wire' /\ wire'[j] = wire[j]
        /\ wire'[Len(wire) + 1] = l
        /\ \A j \in DOMAIN wire' : j \in DOMAIN wire \/ j = Len(wire) + 1
    BY <1>1, <2>1, AddedOne
  <2>3. QED
    BY <2>1, <2>2
<1>5. ASSUME NEW k \in Calls, Answers(k)
      PROVE  /\ \A j \in DOMAIN wire : j \in DOMAIN wire' /\ wire'[j] = wire[j]
             /\ \A j \in DOMAIN wire' : j \notin DOMAIN wire =>
                  /\ wire'[j].turn = k /\ (wire'[j].kind = "steered" => call[k].at = "steer")
                  /\ wire'[j].kind \in Asides
  <2>1. PICK l : IsLine(l) /\ Emits(<<l>>) /\ l.kind \in Asides /\ l.turn = k
                 /\ (l.kind = "steered" => call[k].at = "steer")
    BY <1>5 DEF Answers
  <2>2. /\ \A j \in DOMAIN wire : j \in DOMAIN wire' /\ wire'[j] = wire[j]
        /\ wire'[Len(wire) + 1] = l
        /\ \A j \in DOMAIN wire' : j \in DOMAIN wire \/ j = Len(wire) + 1
    BY <1>1, <2>1, AddedOne
  <2>3. QED
    BY <2>1, <2>2
<1>6. ASSUME NEW k \in Calls, Accept(k)
      PROVE  /\ \A j \in DOMAIN wire : j \in DOMAIN wire' /\ wire'[j] = wire[j]
             /\ \A j \in DOMAIN wire' : j \notin DOMAIN wire => wire'[j].kind # "steered"
  BY <1>1, <1>6, AddedStart DEF Turns
<1>7. QED
  BY <1>2, <1>3, <1>4, <1>5, <1>6 DEF Unheard

\* A turn that is accepted is announced right behind, or has been and is on record.
LEMMA AcceptsStep ==
  ASSUME Typed, Accepts, [Next]_vars
  PROVE  Accepts'
<1>1. WireOK /\ DOMAIN wire = 1 .. Len(wire) /\ Len(wire) \in Nat
  BY DEF Typed, WireOK
<1>2. ASSUME NEW b \in DOMAIN wire, Heard(b) PROVE Accepts'
  <2>1. Arrives(b, wire[b].kind) /\ Writes(wire[b])
    BY <1>2 DEF Heard, Takes
  <2>2. /\ DOMAIN wire' = 1 .. Len(wire) - 1
        /\ \A j \in DOMAIN wire' :
             /\ j < b => j \in DOMAIN wire /\ wire'[j] = wire[j]
             /\ j >= b => j + 1 \in DOMAIN wire /\ wire'[j] = wire[j + 1]
        /\ \/ b = 1
           \/ /\ b = 2 /\ wire[1].kind = "accepted"
              /\ wire[2].kind = "started" /\ wire[2].turn = wire[1].turn
    BY <1>1, <2>1, Taken
  <2>3. SUFFICES ASSUME NEW n \in DOMAIN wire', wire'[n].kind = "accepted"
                 PROVE  \/ n + 1 \in DOMAIN wire' /\ wire'[n + 1].kind = "started"
                           /\ wire'[n + 1].turn = wire'[n].turn
                        \/ n = 1 /\ record'.turn = wire'[n].turn
    BY DEF Accepts
  <2>4. CASE n < b
    <3>1. n = 1 /\ b = 2 /\ wire'[1] = wire[1]
      BY <1>1, <2>2, <2>4
    <3>2. record'.turn = wire[1].turn
      BY <2>1, <2>2, <3>1 DEF Writes, Opens
    <3>3. QED
      BY <3>1, <3>2
  <2>5. CASE n >= b
    <3>1. n + 1 \in DOMAIN wire /\ wire'[n] = wire[n + 1] /\ n + 1 # 1
      BY <1>1, <2>2, <2>5
    <3>2. (n + 1) + 1 \in DOMAIN wire /\ wire[(n + 1) + 1].kind = "started"
          /\ wire[(n + 1) + 1].turn = wire[n + 1].turn
      BY <2>3, <3>1 DEF Accepts
    <3>3. n + 1 \in DOMAIN wire' /\ n + 1 >= b
      BY <1>1, <2>2, <2>5, <3>2
    <3>4. wire'[n + 1] = wire[(n + 1) + 1]
      BY <2>2, <3>3
    <3>5. QED
      BY <3>1, <3>2, <3>3, <3>4
  <2>6. QED
    BY <2>2, <2>4, <2>5
<1>3. ASSUME Unheard PROVE Accepts'
  <2>1. record' = record
    BY <1>3, UnheardKeeps
  <2>2. \A j \in DOMAIN wire : j \in DOMAIN wire' /\ wire'[j] = wire[j]
    BY <1>3, UnheardAdds
  <2>3. SUFFICES ASSUME NEW n \in DOMAIN wire', wire'[n].kind = "accepted"
                 PROVE  \/ n + 1 \in DOMAIN wire' /\ wire'[n + 1].kind = "started"
                           /\ wire'[n + 1].turn = wire'[n].turn
                        \/ n = 1 /\ record'.turn = wire'[n].turn
    BY DEF Accepts
  <2>4. CASE n \in DOMAIN wire
    BY <2>1, <2>2, <2>3, <2>4 DEF Accepts
  <2>5. CASE n \notin DOMAIN wire
    <3>1. PICK k \in Calls : Accept(k)
      BY <1>3, <2>3, <2>5, UnheardAdds DEF Asides
    <3>2. /\ wire'[Len(wire) + 1].kind = "accepted" /\ wire'[Len(wire) + 1].turn = k
          /\ wire'[Len(wire) + 2].kind = "started" /\ wire'[Len(wire) + 2].turn = k
          /\ wire'[Len(wire) + 3].kind = "active"
          /\ DOMAIN wire' = 1 .. Len(wire) + 3
          /\ \A j \in DOMAIN wire' :
                j \in DOMAIN wire \/ j \in {Len(wire) + 1, Len(wire) + 2, Len(wire) + 3}
      BY <1>1, <3>1, AddedStart DEF Turns
    <3>3. n = Len(wire) + 1
      BY <2>3, <2>5, <3>2
    <3>4. n + 1 = Len(wire) + 2 /\ n + 1 \in DOMAIN wire'
      BY <1>1, <3>2, <3>3
    <3>5. QED
      BY <3>2, <3>3, <3>4
  <2>6. QED
    BY <2>4, <2>5
<1>4. QED
  BY <1>2, <1>3, StepMentions

\* The record is of the last turn announced.
LEMMA RecordedStep ==
  ASSUME Typed, Starts, Recorded, [Next]_vars
  PROVE  Recorded'
<1>1. ASSUME NEW i \in DOMAIN wire, Heard(i) PROVE Recorded'
  <2>1. Writes(wire[i])
    BY <1>1 DEF Heard
  <2>2. CASE wire[i].kind = "started"
    <3>1. StartsAt(i) /\ wire[i].turn \in Turns /\ None \notin Turns
      BY <2>2, TurnsAssumption DEF Starts, Typed, WireOK, IsLine, OfTurns, Turns
    <3>2. refs.finalized # wire[i].turn
      BY <3>1 DEF StartsAt
    <3>3. record'.turn = wire[i].turn /\ refs'.execution = wire[i].turn /\ refs'.finalized = refs.finalized
      BY <2>1, <2>2 DEF Writes, Opens
    <3>4. QED
      BY <3>1, <3>2, <3>3 DEF Recorded
  <2>3. CASE wire[i].kind # "started"
    BY <2>1, <2>3 DEF Writes, KeepsOpen, Recorded, Open
  <2>4. QED
    BY <2>2, <2>3
<1>2. ASSUME Unheard PROVE Recorded'
  BY <1>2, UnheardKeeps DEF Recorded, Open
<1>3. QED
  BY <1>1, <1>2, StepMentions


\* While a record is open its turn is the one that is steered.
LEMMA SteersStep ==
  ASSUME Typed, Kept, AllBorn, Starts, Follows, Steers, [Next]_vars, calm'
  PROVE  Steers'
<1>1. /\ WireOK /\ OneCall /\ call \in [Calls -> CallSet] /\ TypeOK
      /\ KnownTurn(refs) = KnownAt(refs, shown.active)
  BY Looks DEF Typed, Kept, TypeOK, CallSet
<1>2. SUFFICES ASSUME Open', NEW k \in Calls,
                      \/ call'[k].at = "steer"
                      \/ \E i \in DOMAIN wire' : wire'[i].kind = "steered" /\ wire'[i].turn = k
               PROVE  call'[k].steers = record'.turn
  BY DEF Steers
<1> DEFINE Steered == \E i \in DOMAIN wire : wire[i].kind = "steered" /\ wire[i].turn = k
<1>3. ASSUME NEW b \in DOMAIN wire, Heard(b) PROVE call'[k].steers = record'.turn
  <2>1. Takes(b) /\ Writes(wire[b])
    BY <1>3 DEF Heard
  <2>2. Arrives(b, wire[b].kind)
    BY <2>1 DEF Takes
  <2>3. \A j \in DOMAIN wire' : \E m \in DOMAIN wire : wire'[j] = wire[m]
    BY <1>1, <2>2, TakenLater
  <2>4. call'[k].at = "steer" => call[k].at = "steer"
    BY <2>1 DEF Takes
  <2>5. call'[k].steers = call[k].steers
    BY <2>1 DEF Takes
  <2>6. call[k].at = "steer" \/ Steered
    BY <1>2, <2>3, <2>4
  <2>7. CASE wire[b].kind = "started"
    <3>1. StartsAt(b) /\ wire[b].turn \in Turns
      BY <1>1, <2>7 DEF Starts, WireOK, IsLine, OfTurns
    <3>2. ~Steered
      BY <3>1 DEF StartsAt, Asides
    <3>3. call[k].at = "steer" /\ wire[b].turn = k
      BY <2>6, <3>1, <3>2 DEF StartsAt, Under
    <3>4. Names(k) /\ k \in Turns
      BY <2>7, <3>1, <3>3 DEF Names, Asides
    <3>5. QED
      BY <3>3, <3>4 DEF AllBorn, Born
  <2>8. CASE wire[b].kind # "started"
    <3>1. Open /\ record'.turn = record.turn
      BY <1>2, <2>1, <2>8 DEF Writes, KeepsOpen, Open
    <3>2. QED
      BY <2>5, <2>6, <3>1 DEF Steers
  <2>9. QED
    BY <2>7, <2>8
<1>4. ASSUME Unheard PROVE call'[k].steers = record'.turn
  <2>1. record' = record /\ Open
    BY <1>2, <1>4, UnheardKeeps DEF Open
  <2>2. ASSUME call[k].at = "steer" \/ Steered, call'[k].steers = call[k].steers
        PROVE  call'[k].steers = record'.turn
    BY <2>1, <2>2 DEF Steers
  <2>3. ASSUME call'[k].at = "steer" PROVE call'[k].steers = record'.turn
    <3>1. CASE Stays
      <4>1. CASE call'[k] = call[k]
        BY <2>2, <2>3, <4>1
      <4>2. CASE call[k].at = "idle" /\ call'[k].steers = KnownTurn(refs) /\ KnownTurn(refs) # None
        <5>1. DOMAIN wire = {}
          BY <1>1, <2>3, <4>2, NotAsked DEF Under
        <5>2. KnownAt(refs, shown.active) \in {None, record.turn}
          BY <2>1, <5>1 DEF Follows, HeadStarts, OfRecord
        <5>3. QED
          BY <1>1, <2>1, <4>2, <5>2
      <4>3. QED
        BY <2>3, <3>1, <4>1, <4>2 DEF Stays
    <3>2. CASE Ends \/ Says
      BY <2>2, <2>3, <3>2 DEF Ends, Says
    <3>3. ASSUME NEW m \in Calls, Answers(m) \/ Accept(m) PROVE call'[k].steers = record'.turn
      <4>1. At(m, "answer")
        BY <3>3, Zenon DEF Answers, Accept
      <4>2. call'[k] = call[k]
        BY <1>1, <2>3, <4>1 DEF At, CallSet
      <4>3. QED
        BY <2>2, <2>3, <4>2
    <3>4. QED
      BY <1>4, <3>1, <3>2, <3>3 DEF Unheard
  <2>4. ASSUME NEW i \in DOMAIN wire', wire'[i].kind = "steered", wire'[i].turn = k
        PROVE  call'[k].steers = record'.turn
    <3>1. CASE i \in DOMAIN wire
      <4>1. Steered
        BY <1>4, <2>4, <3>1, UnheardAdds
      <4>2. call[k].at = "answer"
        BY <1>1, <4>1 DEF OneCall, Replies
      <4>3. call'[k].steers = call[k].steers
        <5>1. CASE Stays
          BY <4>2, <5>1 DEF Stays, Waiting
        <5>2. CASE Ends \/ Says
          BY <5>2 DEF Ends, Says
        <5>3. ASSUME NEW m \in Calls, Answers(m) \/ Accept(m) PROVE call'[k].steers = call[k].steers
          <6>1. At(m, "answer")
            BY <5>3, Zenon DEF Answers, Accept
          <6>2. QED
            BY <1>1, <6>1 DEF At, CallSet
        <5>4. QED
          BY <1>4, <5>1, <5>2, <5>3 DEF Unheard
      <4>4. QED
        BY <2>2, <4>1, <4>3
    <3>2. CASE i \notin DOMAIN wire
      <4>1. Answers(k) /\ call[k].at = "steer"
        BY <1>4, <2>4, <3>2, UnheardAdds
      <4>2. At(k, "answer")
        BY <4>1 DEF Answers
      <4>3. call'[k].steers = call[k].steers
        BY <1>1, <4>2 DEF At, CallSet
      <4>4. QED
        BY <2>2, <4>1, <4>3
    <3>3. QED
      BY <3>1, <3>2
  <2>5. QED
    BY <1>2, <2>3, <2>4
<1>5. QED
  BY <1>3, <1>4, StepMentions

\* While a record is open no turn but its own is seen.
LEMMA FollowsStep ==
  ASSUME Typed, Accepts, Steers, Follows, [Next]_vars
  PROVE  Follows'
<1>1. /\ WireOK /\ TypeOK /\ shown.active \in MaybeTurns /\ None \in MaybeTurns /\ record.turn \in MaybeTurns
      /\ KnownTurn(refs) = KnownAt(refs, shown.active)
      /\ Unset \notin MaybeTurns /\ turn.active \in MaybeTurns
  BY Looks, TurnsAssumption DEF Typed, TypeOK, MaybeTurns, Turns
<1>2. SUFFICES ASSUME Open', ~HeadStarts'
               PROVE  /\ turn'.active \in OfRecord'
                      /\ \A s \in OfRecord' \cup {shown'.active} : KnownAt(refs', s) \in OfRecord'
  BY DEF Follows
<1>3. ASSUME NEW t \in MaybeTurns, refs'.known = t, refs'.adopted = shown.active, shown' = shown,
             t \in OfRecord'
      PROVE  \A s \in OfRecord' \cup {shown'.active} : KnownAt(refs', s) \in OfRecord'
  BY <1>1, <1>3 DEF KnownAt
<1>4. ASSUME Open, ~HeadStarts, Looked, record' = record, shown' = shown \/ (shown' = turn /\ refs' = refs)
      PROVE  \A s \in OfRecord' \cup {shown'.active} : KnownAt(refs', s) \in OfRecord'
  <2>1. /\ turn.active \in OfRecord
        /\ \A s \in OfRecord \cup {shown.active} : KnownAt(refs, s) \in OfRecord
    BY <1>4 DEF Follows
  <2>2. OfRecord' = OfRecord /\ OfRecord \subseteq MaybeTurns /\ KnownTurn(refs) \in OfRecord
    BY <1>1, <1>4, <2>1 DEF OfRecord
  <2>3. CASE shown' = turn /\ refs' = refs
    BY <2>1, <2>2, <2>3
  <2>4. CASE shown' = shown
    <3>1. CASE \A s \in MaybeTurns : KnownAt(refs', s) = KnownAt(refs, s)
      BY <1>1, <2>1, <2>2, <2>4, <3>1
    <3>2. CASE /\ KnownAt(refs', shown.active) = KnownTurn(refs)
               /\ \A s \in MaybeTurns : KnownAt(refs', s) \in {s, KnownTurn(refs)}
      BY <1>1, <2>1, <2>2, <2>4, <3>2
    <3>3. CASE refs'.known = None /\ refs'.adopted = shown.active
      BY <1>1, <1>3, <2>2, <2>4, <3>3 DEF OfRecord
    <3>4. QED
      BY <1>4, <3>1, <3>2, <3>3 DEF Looked
  <2>5. QED
    BY <1>4, <2>3, <2>4
<1>5. ASSUME NEW b \in DOMAIN wire, Heard(b)
      PROVE  /\ turn'.active \in OfRecord'
             /\ \A s \in OfRecord' \cup {shown'.active} : KnownAt(refs', s) \in OfRecord'
  <2>1. Takes(b) /\ Writes(wire[b])
    BY <1>5 DEF Heard
  <2>2. Arrives(b, wire[b].kind)
    BY <2>1 DEF Takes
  <2>3. CASE wire[b].kind = "started"
    <3>1. /\ record'.turn = wire[b].turn /\ turn'.active = wire[b].turn /\ refs'.known = wire[b].turn
          /\ refs'.adopted = shown.active /\ shown' = shown
      BY <1>2, <2>1, <2>3 DEF Writes, Opens, Open
    <3>2. wire[b].turn \in MaybeTurns
      BY <1>1, <2>3 DEF WireOK, IsLine, OfTurns, MaybeTurns
    <3>3. QED
      BY <1>3, <3>1, <3>2 DEF OfRecord
  <2>4. CASE wire[b].kind # "started"
    <3>1. KeepsOpen(wire[b]) /\ shown' = shown
      BY <1>2, <2>1, <2>4 DEF Writes, Open
    <3>2. record' = record /\ Open /\ Looked
      BY <1>2, <3>1 DEF KeepsOpen, Open
    <3>3. b = 1
      BY <1>1, <2>2, <2>4, Taken
    <3>4. ~HeadStarts
      BY <2>4, <3>3 DEF HeadStarts
    <3>5. \A s \in OfRecord' \cup {shown'.active} : KnownAt(refs', s) \in OfRecord'
      BY <1>4, <3>1, <3>2, <3>4
    <3>6. turn.active \in OfRecord /\ OfRecord' = OfRecord
      BY <3>2, <3>4 DEF Follows, OfRecord
    <3>7. CASE turn'.active \in {turn.active, None}
      BY <3>5, <3>6, <3>7 DEF OfRecord
    <3>8. CASE wire[b].kind = "accepted" /\ turn'.active = Subject(wire[b])
      <4>1. turn'.active = wire[1].turn
        BY <3>3, <3>8 DEF Subject
      <4>2. record.turn = wire[1].turn
        <5>1. SUFFICES ASSUME 1 + 1 \in DOMAIN wire, wire[1 + 1].kind = "started" PROVE FALSE
          BY <3>3, <3>8 DEF Accepts
        <5>2. 1 \in DOMAIN wire' /\ wire'[1] = wire[1 + 1]
          BY <1>1, <2>2, <3>3, <5>1, Taken
        <5>3. QED
          BY <1>2, <5>1, <5>2 DEF HeadStarts
      <4>3. QED
        BY <3>5, <3>6, <4>1, <4>2 DEF OfRecord
    <3>9. CASE wire[b].kind = "steered" /\ turn'.active = Subject(wire[b])
      <4>1. wire[b].turn \in Calls /\ turn'.active = call[wire[b].turn].steers
        BY <1>1, <3>9 DEF Subject, WireOK, IsLine, OfTurns, Replies, Turns
      <4>2. call[wire[b].turn].steers = record.turn
        BY <3>2, <3>9, <4>1 DEF Steers
      <4>3. QED
        BY <3>5, <3>6, <4>1, <4>2 DEF OfRecord
    <3>10. QED
      BY <3>1, <3>7, <3>8, <3>9 DEF KeepsOpen
  <2>5. QED
    BY <2>3, <2>4
<1>6. ASSUME Unheard
      PROVE  /\ turn'.active \in OfRecord'
             /\ \A s \in OfRecord' \cup {shown'.active} : KnownAt(refs', s) \in OfRecord'
  <2>1. record' = record /\ Open
    BY <1>2, <1>6, UnheardKeeps DEF Open
  <2>2. ~HeadStarts
    BY <1>2, <1>6, UnheardAdds DEF HeadStarts
  <2>3. /\ Looked /\ turn'.active \in {turn.active, None}
        /\ shown' = shown \/ (shown' = turn /\ refs' = refs)
    <3>1. CASE Stays
      BY <1>1, <3>1, LookLeaves DEF Stays, LooksOnly
    <3>2. CASE Ends \/ Says \/ \E k \in Calls : Answers(k) \/ Accept(k)
      <4>1. UNCHANGED uiVars
        BY <3>2 DEF Ends, Says, Answers, Accept, ServerFrame
      <4>2. QED
        BY <1>1, <4>1, LookLeaves DEF uiVars
    <3>3. QED
      BY <1>6, <3>1, <3>2 DEF Unheard
  <2>4. turn.active \in OfRecord /\ OfRecord' = OfRecord
    BY <2>1, <2>2 DEF Follows, OfRecord
  <2>5. \A s \in OfRecord' \cup {shown'.active} : KnownAt(refs', s) \in OfRecord'
    BY <1>4, <2>1, <2>2, <2>3
  <2>6. QED
    BY <2>3, <2>4, <2>5 DEF OfRecord
<1>7. QED
  BY <1>2, <1>5, <1>6, StepMentions

\* What runs is on record, and what does not is not open, or is about to be so.
LEMMA WrittenStep ==
  ASSUME Typed, Kept, Recorded, Follows, Written, [Next]_vars, calm'
  PROVE  Written'
<1>1. /\ WireOK /\ TypeOK /\ Told /\ None \notin Turns /\ running \in MaybeTurns
      /\ KnownTurn(refs) = KnownAt(refs, shown.active)
  BY Looks, TurnsAssumption DEF Typed, Kept, TypeOK, MaybeTurns, Turns
<1>2. ASSUME NEW b \in DOMAIN wire, Heard(b) PROVE Written'
  <2> DEFINE l == wire[b]
  <2>1. /\ Writes(l) /\ Arrives(b, l.kind) /\ running' = running /\ orders \subseteq orders'
    BY <1>2 DEF Heard, Takes
  <2>2. /\ Ended(0) => Ended(0)' \/ l.kind \in EndKinds
        /\ Begins(0) => Begins(0)' \/ (l.kind = "started" /\ l.turn = running)
        /\ Ended(b) => Ended(0)'
        /\ Begins(b) => Begins(0)'
    BY <1>1, <2>1, TakenOne
  <2>3. /\ Speaks(l) => Subject(l) # None /\ (Subject(l) = running \/ Ended(b))
        /\ Breaks(l) => Ended(b)
        /\ Clears(l) => running = None \/ Begins(b)
    BY <1>1 DEF Told
  <2>4. ASSUME running # None
        PROVE  Begins(0)' \/ running \in orders' \/ record' = [turn |-> running, status |-> "active"]
    <3>1. Ended(b) => Begins(0)'
      BY <1>1, <2>2, <2>4, EndedBegins
    <3>2. CASE l.kind = "started"
      <4>1. l.turn = running \/ Begins(0)'
        BY <2>3, <3>1, <3>2 DEF Speaks, Subject
      <4>2. l.turn \in orders' \/ record' = [turn |-> l.turn, status |-> "active"]
        BY <2>1, <3>2 DEF Writes, Opens
      <4>3. QED
        BY <4>1, <4>2
    <3>3. CASE l.kind # "started"
      <4>1. record' = record \/ Breaks(l) \/ Clears(l)
        BY <2>1, <3>3 DEF Writes
      <4>2. Breaks(l) \/ Clears(l) => Begins(0)'
        BY <2>2, <2>3, <2>4, <3>1
      <4>3. QED
        BY <2>1, <2>2, <2>4, <3>3, <4>1, <4>2 DEF Written
    <3>4. QED
      BY <3>2, <3>3
  <2>5. ASSUME running = None, Open' PROVE Ended(0)' \/ refs'.continues
    <3>1. CASE l.kind = "started"
      BY <2>2, <2>3, <2>5, <3>1 DEF Speaks, Subject
    <3>2. CASE l.kind # "started"
      <4>1. KeepsOpen(l) /\ record' = record /\ Open
        BY <2>1, <2>5, <3>2 DEF Writes, KeepsOpen, Open
      <4>2. CASE l.kind \in EndKinds
        <5>1. b = 1
          BY <1>1, <2>1, <3>2, Taken
        <5>2. ~HeadStarts
          BY <3>2, <5>1 DEF HeadStarts
        <5>3. KnownTurn(refs) \in {None, record.turn}
          BY <1>1, <4>1, <5>2 DEF Follows, OfRecord
        <5>4. record.turn = refs.execution /\ record.turn \notin {None, refs.finalized}
          BY <4>1 DEF Recorded
        <5>5. LastTurn = record.turn
          BY <5>3, <5>4 DEF LastTurn
        <5>6. QED
          BY <4>1, <4>2, <5>4, <5>5 DEF KeepsOpen
      <4>3. CASE l.kind \notin EndKinds
        <5>1. Ended(0) => Ended(0)'
          BY <2>2, <4>3
        <5>2. refs.continues => refs'.continues \/ Ended(0)'
          BY <2>2, <2>3, <4>1, <4>3 DEF KeepsOpen, EndKinds
        <5>3. QED
          BY <2>5, <4>1, <5>1, <5>2 DEF Written
      <4>4. QED
        BY <4>2, <4>3
    <3>3. QED
      BY <3>1, <3>2
  <2>6. QED
    BY <2>1, <2>4, <2>5 DEF Written
<1>3. ASSUME Unheard PROVE Written'
  <2>1. record' = record /\ refs'.continues = refs.continues
    BY <1>3, UnheardKeeps
  <2>2. \A j \in DOMAIN wire : j \in DOMAIN wire' /\ wire'[j] = wire[j]
    BY <1>3, UnheardAdds
  <2>3. /\ Ended(0) => Ended(0)'
        /\ running' = running /\ Begins(0) => Begins(0)'
    BY <2>2, StillThere
  <2>4. ASSUME running' = running, InHand => InHand' PROVE Written'
    BY <2>1, <2>3, <2>4 DEF Written, InHand, Open
  <2>5. CASE Stays
    BY <2>4, <2>5 DEF Stays
  <2>6. CASE Says
    BY <2>4, <2>6 DEF Says
  <2>7. CASE Ends
    <3>1. PICK lines : EndLines(lines) /\ Closing(lines) /\ Emits(lines)
      BY <2>7 DEF Ends
    <3>2. running' = None /\ call' = call
      BY <2>7 DEF Ends
    <3>3. Ended(0)'
      BY <3>1, <3>2, EndKeeps
    <3>4. QED
      BY <3>2, <3>3 DEF Written
  <2>8. ASSUME NEW k \in Calls, Answers(k) PROVE Written'
    <3>1. UNCHANGED <<orders, running>>
      BY <2>8 DEF Answers
    <3>2. InHand => InHand'
      BY <3>1 DEF InHand
    <3>3. QED
      BY <2>4, <3>1, <3>2
  <2>9. ASSUME NEW k \in Calls, Accept(k) PROVE Written'
    <3>1. Begins(0)'
      BY <2>9, AcceptKeeps
    <3>2. running' # None
      BY <1>1, <2>9 DEF Accept, Turns
    <3>3. QED
      BY <3>1, <3>2 DEF Written
  <2>10. QED
    BY <1>3, <2>5, <2>6, <2>7, <2>8, <2>9 DEF Unheard
<1>4. QED
  BY <1>2, <1>3, StepMentions

\* A user who has waited before each turn has the turns recorded.
RecordInv == calm => AllBorn /\ Starts /\ Accepts /\ Recorded /\ Steers /\ Follows /\ Written

\* Every step keeps it.
LEMMA RecordStep ==
  ASSUME Typed, CalmInv, RecordInv, [Next]_vars
  PROVE  RecordInv'
<1>1. SUFFICES ASSUME calm'
               PROVE  (AllBorn /\ Starts /\ Accepts /\ Recorded /\ Steers /\ Follows /\ Written)'
  BY DEF RecordInv
<1>2. calm
  BY <1>1, CalmBefore
<1>3. Kept /\ AllBorn /\ Starts /\ Accepts /\ Recorded /\ Steers /\ Follows /\ Written
  BY <1>2 DEF CalmInv, RecordInv
<1>4. AllBorn' /\ Starts'
  BY <1>1, <1>3, AllBornStep, StartsStep
<1>5. Accepts' /\ Recorded'
  BY <1>3, AcceptsStep, RecordedStep
<1>6. Steers' /\ Follows'
  BY <1>1, <1>3, SteersStep, FollowsStep
<1>7. Written'
  BY <1>1, <1>3, WrittenStep
<1>8. QED
  BY <1>4, <1>5, <1>6, <1>7

\* A user who has waited before each turn, and waits again, has the turn that runs on
\* record, and no record open when none runs, however the last one ended, unless a
\* further turn is to continue it.
THEOREM RecordIsKept == Spec => []RecordFollows
<1> DEFINE Inv == Typed /\ CalmInv /\ RecordInv
<1>1. Init => Inv
  <2> SUFFICES ASSUME Init PROVE Inv
    OBVIOUS
  <2>1. Typed /\ CalmInv /\ TypeOK
    BY InitCalm, InitTyped
  <2>2. /\ wire = <<>> /\ running = None /\ turn = Idle /\ shown = Idle
        /\ refs = [known |-> Unset, adopted |-> Unset, ahead |-> FALSE, continues |-> FALSE,
                   pendingStop |-> FALSE, execution |-> None, finalized |-> None]
        /\ record = [turn |-> None, status |-> "none"]
        /\ call = [k \in Calls |-> [at |-> "idle", steers |-> None, recovered |-> FALSE]]
    BY DEF Init
  <2>3. DOMAIN wire = {} /\ ~Open /\ record.turn = None /\ refs.execution = None
    BY <2>2 DEF Open
  <2>4. Starts /\ Accepts /\ Recorded /\ Steers /\ Follows /\ Written
    BY <2>2, <2>3 DEF Starts, Accepts, Recorded, Steers, Follows, Written
  <2>5. AllBorn
    <3>1. \A t \in Turns : t # None /\ t # Unset
      BY TurnsAssumption DEF Turns
    <3>2. Mentioned \cup {refs.finalized, running} \subseteq {None, Unset}
      BY <2>2 DEF Mentioned, Idle
    <3>3. \A k \in Calls : call[k].steers = None
      BY <2>2
    <3>4. \A t \in Turns : ~Names(t)
      BY <2>3, <3>1, <3>2, <3>3 DEF Names
    <3>5. QED
      BY <3>4 DEF AllBorn
  <2>6. QED
    BY <2>1, <2>4, <2>5 DEF RecordInv
<1>2. Inv /\ [Next]_vars => Inv'
  BY TypeStep, CalmStep, RecordStep
<1>3. Inv => RecordFollows
  <2> SUFFICES ASSUME Inv, calm, Answered
               PROVE  IF running # None THEN record = [turn |-> running, status |-> "active"]
                      ELSE record.status = "active" => refs.continues
    BY DEF RecordFollows
  <2>1. Written
    BY DEF RecordInv
  <2>2. DOMAIN wire = {} /\ orders = {}
    BY DEF Answered
  <2>3. ~Begins(0) /\ ~Ended(0)
    BY <2>2 DEF Begins, Ended
  <2>4. QED
    BY <2>1, <2>2, <2>3 DEF Written, Open
<1>4. QED
  BY <1>1, <1>2, <1>3, PTL DEF Spec

=============================================================================
