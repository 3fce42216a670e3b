-------------------------- MODULE Coordination_proofs --------------------------
(* The two stores by which agents are coordinated.  The ledger of claims, for   *)
(* any threads and resources and any length.  The sidecar file implements the   *)
(* atomic file, whatever the documents are; the store of bindings that is kept  *)
(* in one neither forgets evidence nor counts a binding as matched that is not. *)
EXTENDS TaskCoordination, ExecutionBindings, RecursionLemmas

-----------------------------------------------------------------------------
(* The claims of threads on resources. *)

\* The first of some places is one of them.
LEMMA FirstOf ==
  ASSUME NEW S \in SUBSET Nat, S # {}
  PROVE  First(S) \in S
BY Least DEF First

\* What is left of the ledger without a thread's own claims are claims of the ledger.
LEMMA OwnGivesWay ==
  ASSUME TypeOK, NEW o
  PROVE  WithoutOwn(o) \in Seq({claims[k] : k \in DOMAIN claims})
<1> DEFINE n == Len(claims)
           C == {claims[k] : k \in DOMAIN claims}
           Q == Seq(C)
           Gone(i) == claims[i].owner = o /\ Live(claims[i])
           G == [i \in 1 .. n |-> [q \in Q |-> IF Gone(i) THEN q ELSE Append(q, claims[i])]]
           E(h) == h = [i \in 0 .. n |->
                          IF i = 0 THEN <<>>
                          ELSE IF Gone(i) THEN h[i - 1] ELSE Append(h[i - 1], claims[i])]
<1>1. n \in Nat /\ <<>> \in Q /\ G \in [1 .. n -> [Q -> Q]] /\ DOMAIN claims = 1 .. n
  BY DEF TypeOK
<1>2. PICK f \in [0 .. n -> Q] : Iterated(f, <<>>, n, G)
  <2> HIDE DEF n, Q, G
  <2> QED BY <1>1, Iterates
<1>3. E(f)
  <2>1. \A i \in 0 .. n : i # 0 => i \in 1 .. n /\ i - 1 \in 0 .. n
    BY <1>1
  <2>2. ASSUME NEW i \in 1 .. n
        PROVE  f[i] = IF Gone(i) THEN f[i - 1] ELSE Append(f[i - 1], claims[i])
    <3>1. f[i - 1] \in Q /\ f[i] = G[i][f[i - 1]]
      <4> HIDE DEF n, Q, G
      <4> QED BY <1>2, <2>1 DEF Iterated
    <3> HIDE DEF Q, n, Gone
    <3>2. QED
      BY <3>1
  <2>3. \A i \in 0 .. n :
          f[i] = IF i = 0 THEN <<>>
                 ELSE IF Gone(i) THEN f[i - 1] ELSE Append(f[i - 1], claims[i])
    <3> HIDE DEF n, Q, G, Gone
    <3> QED BY <1>2, <2>1, <2>2 DEF Iterated
  <2>4. f = [i \in 0 .. n |-> f[i]]
    BY <1>2
  <2> HIDE DEF n, Q, G, Gone
  <2>5. QED
    BY <2>3, <2>4
<1> DEFINE g == CHOOSE h : E(h)
<1>4. E(g)
  <2> HIDE DEF E
  <2> QED BY <1>3
<1>5. WithoutOwn(o) = g[n]
  BY DEF WithoutOwn
<1>6. /\ g[0] = <<>>
      /\ \A i \in 1 .. n : g[i] = g[i - 1] \/ g[i] = Append(g[i - 1], claims[i])
  <2> HIDE DEF g, n, Gone
  <2>1. \A i \in 0 .. n :
          g[i] = IF i = 0 THEN <<>>
                 ELSE IF Gone(i) THEN g[i - 1] ELSE Append(g[i - 1], claims[i])
    BY <1>4
  <2>2. 0 \in 0 .. n /\ \A i \in 1 .. n : i \in 0 .. n /\ i # 0
    BY <1>1
  <2>3. QED
    BY <2>1, <2>2
<1>7. \A i \in 0 .. n : g[i] \in Q
  <2> DEFINE S == {i \in Nat : g[i] \in Q}
  <2> HIDE DEF g
  <2>1. 0 \in S
    BY <1>1, <1>6
  <2>2. ASSUME NEW k \in 0 .. n - 1, k \in S PROVE k + 1 \in S
    <3>1. k + 1 \in 1 .. n /\ (k + 1) - 1 = k /\ g[k] \in Q /\ k + 1 \in Nat
      BY <1>1, <2>2
    <3>2. claims[k + 1] \in C
      BY <1>1, <3>1
    <3>3. g[k + 1] = g[k] \/ g[k + 1] = Append(g[k], claims[k + 1])
      BY <1>6, <3>1
    <3>4. \A q \in Q, e \in C : Append(q, e) \in Q
      <4> HIDE DEF C
      <4> QED OBVIOUS
    <3> HIDE DEF n, Q, C
    <3>5. QED
      BY <3>1, <3>2, <3>3, <3>4
  <2>3. QED
    <3> HIDE DEF S, n
    <3>1. \A k \in 0 .. n : k \in S
      BY <1>1, <2>1, <2>2, UpTo
    <3>2. QED
      BY <3>1 DEF S
<1>8. QED
  <2> HIDE DEF g, n, Q
  <2>1. n \in 0 .. n
    BY <1>1
  <2>2. QED
    BY <1>5, <1>7, <2>1 DEF Q

\* What is granted is a claim of the thread, new or one it holds.
LEMMA Granted ==
  ASSUME TypeOK, NEW o \in Owners, NEW r \in Resources, NEW access \in AccessLevel
  PROVE  /\ Grant(o, r, access) \in Claim /\ Grant(o, r, access).owner = o
         /\ \/ Own(o, r) = {} /\ Grant(o, r, access) = New(o, r, access, FALSE)
            \/ Grant(o, r, access).again
            \/ \E i \in Held : Grant(o, r, access) = claims[i]
<1>1. claims \in Seq(Claim) /\ DOMAIN claims \subseteq Nat
      /\ \A i \in DOMAIN claims : claims[i] \in Claim
  BY DEF TypeOK
<1>2. /\ New(o, r, access, FALSE) \in Claim /\ New(o, r, access, FALSE).owner = o
      /\ New(o, r, access, TRUE) \in Claim /\ New(o, r, access, TRUE).owner = o
      /\ New(o, r, access, TRUE).again
  BY DEF New, Claim
<1>3. CASE Own(o, r) = {}
  BY <1>2, <1>3 DEF Grant
<1>4. CASE Own(o, r) # {}
  <2>1. First(Own(o, r)) \in Own(o, r)
    BY <1>1, <1>4, FirstOf DEF Own
  <2>2. QED
    BY <1>1, <1>2, <1>4, <2>1 DEF Grant, Own, Held
<1>5. QED
  BY <1>3, <1>4

\* The types after a grant and a release.
LEMMA ClaimTypes == TypeOK /\ [Next]_vars => TypeOK'
<1> SUFFICES ASSUME TypeOK, [Next]_vars PROVE TypeOK'
  OBVIOUS
<1>1. claims \in Seq(Claim) /\ declared \in [Owners -> SUBSET (Resources \X AccessLevel)]
      /\ DOMAIN claims \subseteq Nat /\ \A i \in DOMAIN claims : claims[i] \in Claim
  BY DEF TypeOK
<1>2. ASSUME NEW o \in Owners, NEW r \in Resources, NEW access \in AccessLevel,
             AcquireClaim(o, r, access)
      PROVE  TypeOK'
  <2>1. Grant(o, r, access) \in Claim
    BY Granted
  <2>2. WithoutOwn(o) \in Seq(Claim)
    <3>1. {claims[k] : k \in DOMAIN claims} \subseteq Claim
      BY <1>1
    <3>2. \A S : S \subseteq Claim => Seq(S) \subseteq Seq(Claim)
      OBVIOUS
    <3>3. QED
      BY <3>1, <3>2, OwnGivesWay
  <2>3. claims' \in Seq(Claim)
    BY <1>2, <2>1, <2>2 DEF AcquireClaim
  <2>4. Grant(o, r, access).resource \in Resources /\ Grant(o, r, access).access \in AccessLevel
    BY <2>1 DEF Claim
  <2>5. declared' \in [Owners -> SUBSET (Resources \X AccessLevel)]
    BY <1>1, <1>2, <2>4 DEF AcquireClaim
  <2>6. QED
    BY <2>3, <2>5 DEF TypeOK
<1>3. ASSUME NEW o \in Owners, NEW r \in Resources, NEW access \in AccessLevel,
             ReleaseClaim(o, r, access)
      PROVE  TypeOK'
  <2>1. ASSUME NEW i \in DOMAIN claims PROVE ReleaseAt(i) \in Seq(Claim)
    BY <1>1, <2>1 DEF ReleaseAt, Claim
  <2>2. claims' \in Seq(Claim)
    BY <1>1, <1>3, <2>1, FirstOf DEF ReleaseClaim
  <2>3. declared' \in [Owners -> SUBSET (Resources \X AccessLevel)]
    BY <1>1, <1>3 DEF ReleaseClaim
  <2>4. QED
    BY <2>2, <2>3 DEF TypeOK
<1>4. QED
  BY <1>2, <1>3 DEF Next, vars, TypeOK

\* The ledger holds claims, and what is declared names resources.
THEOREM ClaimsTyped == Spec => []TypeOK
<1>1. Init => TypeOK
  BY DEF Init, TypeOK
<1>2. QED
  BY <1>1, ClaimTypes, PTL DEF Spec

-----------------------------------------------------------------------------
(* Clashes. *)

\* It does not matter which of two claims was first.
LEMMA ClashIsMutual == \A c, d : Live(c) /\ Live(d) /\ Clash(c, d) => Clash(d, c)
BY DEF Clash, Conflicts, Intersect, Incompatible

\* A grant adds a claim that clashes with none, or one made again, or one that
\* the thread held.
LEMMA AcquireClashes ==
  ASSUME TypeOK, ClashOnlyByRedeclaring,
         NEW o \in Owners, NEW r \in Resources, NEW access \in AccessLevel,
         AcquireClaim(o, r, access)
  PROVE  ClashOnlyByRedeclaring'
<1> DEFINE new  == Grant(o, r, access)
           rest == WithoutOwn(o)
           Apart(c, d) == Live(c) /\ Live(d) /\ Clash(c, d) => c.again \/ d.again
<1>1. /\ claims' = Append(rest, new)
      /\ rest \in Seq({claims[k] : k \in DOMAIN claims})
      /\ Own(o, r) # {} \/ ~Blocked(o, r, access)
  BY OwnGivesWay DEF AcquireClaim
<1>2. \A i \in DOMAIN claims' : claims'[i] = new \/ \E k \in DOMAIN claims : claims'[i] = claims[k]
  <2> HIDE DEF new, rest
  <2> QED BY <1>1
<1>3. \A k, m \in DOMAIN claims : Apart(claims[k], claims[m])
  BY DEF ClashOnlyByRedeclaring, Held
<1>4. ASSUME NEW k \in DOMAIN claims PROVE Apart(claims[k], new)
  <2>1. CASE Own(o, r) = {} /\ new = New(o, r, access, FALSE)
    <3>1. ~Blocked(o, r, access)
      BY <1>1, <2>1
    <3>2. new.owner = o /\ new.resource = r /\ new.access = access
      BY <2>1 DEF New
    <3> HIDE DEF new
    <3>3. ~Clash(claims[k], new)
      BY <3>1, <3>2 DEF Blocked, Clash
    <3>4. QED
      BY <3>3
  <2>2. CASE new.again
    BY <2>2
  <2>3. CASE \E i \in Held : new = claims[i]
    BY <1>3, <2>3 DEF Held
  <2>4. \/ Own(o, r) = {} /\ new = New(o, r, access, FALSE)
        \/ new.again
        \/ \E i \in Held : new = claims[i]
    BY Granted
  <2> HIDE DEF Apart, new
  <2>5. QED
    BY <2>1, <2>2, <2>3, <2>4
<1>5. \A k \in DOMAIN claims : Apart(new, claims[k])
  BY <1>4, ClashIsMutual
<1>6. Apart(new, new)
  BY DEF Clash
<1>7. ASSUME NEW i \in DOMAIN claims', NEW j \in DOMAIN claims'
      PROVE  Apart(claims'[i], claims'[j])
  <2> HIDE DEF Apart, new
  <2> QED BY <1>2, <1>3, <1>4, <1>5, <1>6
<1>8. QED
  BY <1>7 DEF ClashOnlyByRedeclaring, Held

\* A release changes no claim but to released.
LEMMA ReleaseClashes ==
  ASSUME TypeOK, ClashOnlyByRedeclaring,
         NEW o \in Owners, NEW r \in Resources, NEW access \in AccessLevel,
         ReleaseClaim(o, r, access)
  PROVE  ClashOnlyByRedeclaring'
<1>1. DOMAIN claims \subseteq Nat /\ \A i \in DOMAIN claims : claims[i] \in Claim
  BY DEF TypeOK
<1>2. claims' = claims \/ \E i \in DOMAIN claims : claims' = ReleaseAt(i)
  BY <1>1, FirstOf DEF ReleaseClaim
<1>3. CASE claims' = claims
  BY <1>3 DEF ClashOnlyByRedeclaring, Held
<1>4. ASSUME NEW i \in DOMAIN claims, claims' = ReleaseAt(i) PROVE ClashOnlyByRedeclaring'
  <2>1. /\ DOMAIN claims' = DOMAIN claims /\ ~Live(claims'[i])
        /\ \A j \in DOMAIN claims : j # i => claims'[j] = claims[j]
    BY <1>1, <1>4 DEF ReleaseAt, Live, Claim
  <2>2. Held' = Held \ {i} /\ \A j \in Held' : claims'[j] = claims[j]
    BY <2>1 DEF Held
  <2>3. QED
    BY <2>2 DEF ClashOnlyByRedeclaring
<1>5. QED
  BY <1>2, <1>3, <1>4

\* Two threads hold claims that exclude each other only when one of them declared its
\* own resource again (acquire_claim looks at nobody else's then).
THEOREM ClashesAreRedeclared == Spec => []ClashOnlyByRedeclaring
<1>1. Init => TypeOK /\ ClashOnlyByRedeclaring
  BY DEF Init, TypeOK, ClashOnlyByRedeclaring, Held
<1>2. TypeOK /\ ClashOnlyByRedeclaring /\ [Next]_vars => (TypeOK /\ ClashOnlyByRedeclaring)'
  <2>1. TypeOK /\ ClashOnlyByRedeclaring /\ UNCHANGED vars => ClashOnlyByRedeclaring'
    BY DEF vars, ClashOnlyByRedeclaring, Held
  <2>2. QED
    BY <2>1, ClaimTypes, AcquireClashes, ReleaseClashes DEF Next
<1>3. QED
  BY <1>1, <1>2, PTL DEF Spec

-----------------------------------------------------------------------------
(* The file. *)

\* What holds between two steps of a write: the temporary file has the document
\* from the moment it is synced, a command writes only where the backup is not the
\* last copy, the last rename finds no file in its way, and the backup that
\* is removed after it is no longer needed.
FileInv ==
  /\ FileTypeOK
  /\ at \in {"look", "clear", "move", "place"} => temp = doc
  /\ at \in {"create", "fill", "look"} => ~Lost
  /\ at \in {"clear", "move"} => path # None
  /\ at = "place" => path = None
  /\ at = "tidy" => path = doc

\* The invariant holds of the files the program finds at its first start.
LEMMA FileInvStarts == FileInit => FileInv
  BY DocumentsAssumption DEF FileInit, FileInv, FileTypeOK, Steps, Lost

\* Reading, with the backup put back if it is the last copy, keeps it.
LEMMA FileInvRead ==
  ASSUME FileInv, Answers \/ (\E new \in Documents : Writes(new)) \/ OpenFails
  PROVE  FileInv'
<1>1. CASE Answers
  BY <1>1, DocumentsAssumption
  DEF Answers, Opens, Restored, Document, Lost, FileInv, FileTypeOK, Steps
<1>2. CASE \E new \in Documents : Writes(new)
  BY <1>2, DocumentsAssumption
  DEF Writes, Opens, Restored, Document, Lost, FileInv, FileTypeOK, Steps
<1>3. CASE OpenFails
  BY <1>3, DocumentsAssumption
  DEF OpenFails, Restored, files, Lost, FileInv, FileTypeOK, Steps
<1> QED BY <1>1, <1>2, <1>3

\* Every step of write_atomically keeps it.
LEMMA FileInvWrite ==
  ASSUME FileInv, Writing PROVE FileInv'
<1> USE DocumentsAssumption DEF FileInv, FileTypeOK, Steps, Lost, Goes, Ends, files
<1>1. CASE Create BY <1>1 DEF Create
<1>2. CASE Fill BY <1>2 DEF Fill
<1>3. CASE Look BY <1>3 DEF Look
<1>4. CASE Clear BY <1>4 DEF Clear
<1>5. CASE Move BY <1>5 DEF Move
<1>6. CASE Place BY <1>6 DEF Place
<1>7. CASE GivesUp BY <1>7 DEF GivesUp
<1>8. CASE PlaceFails BY <1>8 DEF PlaceFails
<1>9. CASE Undo BY <1>9 DEF Undo
<1>10. CASE Tidy BY <1>10 DEF Tidy
<1> QED
  BY <1>1, <1>2, <1>3, <1>4, <1>5, <1>6, <1>7, <1>8, <1>9, <1>10 DEF Writing

LEMMA FileInvStep ==
  ASSUME FileInv, [FileNext]_fileVars PROVE FileInv'
<1>1. CASE Answers \/ (\E new \in Documents : Writes(new)) \/ OpenFails
  BY <1>1, FileInvRead
<1>2. CASE Writing
  BY <1>2, FileInvWrite
<1>3. CASE Crash
  BY <1>3 DEF Crash, Ends, files, FileInv, FileTypeOK, Steps, Lost
<1>4. CASE UNCHANGED fileVars
  BY <1>4 DEF fileVars, files, FileInv, FileTypeOK, Steps, Lost
<1> QED BY <1>1, <1>2, <1>3, <1>4 DEF FileNext

LEMMA FileInvHolds == FileSpec => []FileInv
  BY FileInvStarts, FileInvStep, PTL DEF FileSpec

\* The three files always have one document among them, of the right type, and the
\* temporary file is never the only copy of it: read_document finds the last
\* document that was written in whole, after a crash or a failure at any step.
THEOREM SidecarTyped == FileSpec => []FileTypeOK
  BY FileInvHolds, PTL DEF FileInv

-----------------------------------------------------------------------------
(* Each step of the command is a step of the atomic file. *)

LEMMA ReadsWhole ==
  ASSUME FileInv, Answers \/ (\E new \in Documents : Writes(new)) \/ OpenFails
  PROVE  Promised!Next
<1> USE DocumentsAssumption DEF FileInv, FileTypeOK, Lost, Document, stageOf
<1>1. CASE Answers
  <2>1. Promised!Read
    BY <1>1 DEF Answers, Opens, Restored, Promised!Read
  <2> QED BY <2>1 DEF Promised!Next
<1>2. CASE \E new \in Documents : Writes(new)
  <2>1. Promised!Ask
    BY <1>2 DEF Writes, Opens, Restored, Promised!Ask
  <2> QED BY <2>1 DEF Promised!Next
<1>3. CASE OpenFails
  <2>1. Promised!ReadFails
    BY <1>3 DEF OpenFails, Restored, files, Promised!ReadFails
  <2> QED BY <2>1 DEF Promised!Next
<1> QED BY <1>1, <1>2, <1>3

LEMMA WritesWhole ==
  ASSUME FileInv, Writing
  PROVE  Promised!Next \/ UNCHANGED Promised!vars
<1> USE DocumentsAssumption
    DEF FileInv, FileTypeOK, Lost, Document, stageOf, Goes, Ends, files, Promised!vars
<1>1. CASE Create BY <1>1 DEF Create
<1>2. CASE Fill BY <1>2 DEF Fill
<1>3. CASE Look BY <1>3 DEF Look
<1>4. CASE Clear BY <1>4 DEF Clear
<1>5. CASE Move BY <1>5 DEF Move
<1>6. CASE Place
  <2>1. Promised!Take
    BY <1>6 DEF Place, Promised!Take
  <2> QED BY <2>1 DEF Promised!Next
<1>7. CASE GivesUp
  <2>1. Promised!Refuse
    BY <1>7 DEF GivesUp, Promised!Refuse
  <2> QED BY <2>1 DEF Promised!Next
<1>8. CASE PlaceFails BY <1>8 DEF PlaceFails
<1>9. CASE Undo
  <2>1. Promised!Refuse
    BY <1>9 DEF Undo, Promised!Refuse
  <2> QED BY <2>1 DEF Promised!Next
<1>10. CASE Tidy
  <2>1. Promised!Confirm
    BY <1>10 DEF Tidy, Promised!Confirm
  <2> QED BY <2>1 DEF Promised!Next
<1> QED
  BY <1>1, <1>2, <1>3, <1>4, <1>5, <1>6, <1>7, <1>8, <1>9, <1>10 DEF Writing

LEMMA StepIsPromised ==
  ASSUME FileInv, [FileNext]_fileVars
  PROVE  [Promised!Next]_(Promised!vars)
<1>1. CASE Answers \/ (\E new \in Documents : Writes(new)) \/ OpenFails
  BY <1>1, ReadsWhole
<1>2. CASE Writing
  BY <1>2, WritesWhole
<1>3. CASE Crash
  <2>1. Promised!Crash
    BY <1>3 DEF Crash, Ends, files, Document, stageOf, Promised!Crash
  <2> QED BY <2>1 DEF Promised!Next
<1>4. CASE UNCHANGED fileVars
  BY <1>4 DEF fileVars, files, Document, stageOf, Promised!vars
<1> QED BY <1>1, <1>2, <1>3, <1>4 DEF FileNext

\* The document in the file is replaced as a whole or not at all, and the command
\* is told truly which, whatever calls of the file system fail and wherever the
\* process ends: write_atomically and restore_backup implement an atomic file.
THEOREM SidecarIsAtomic == FileSpec => FileIsAtomic
<1>1. FileInit => Promised!Init
  BY DEF FileInit, Document, stageOf, Promised!Init
<1>2. FileInv /\ [FileNext]_fileVars => [Promised!Next]_(Promised!vars)
  BY StepIsPromised
<1> QED
  BY <1>1, <1>2, FileInvHolds, PTL DEF FileSpec, FileIsAtomic, Promised!Spec

-----------------------------------------------------------------------------
(* What a record comes to. *)

Two(S) == \E a, b \in S : a # b

SaidOf(H, f) == {m.actual[f] : m \in H \cap Observations} \ {None}

\* The record r knows what the requests H said of it: EvidenceIsOrderless.
Knows(r, H) ==
  /\ r.registered \in IF H \cap Registrations = {} THEN {None} ELSE H \cap Registrations
  /\ \A f \in Fields : r.actual[f] \in IF SaidOf(H, f) = {} THEN {None} ELSE SaidOf(H, f)
  /\ "registrationConflict" \in r.reasons <=> Two(H \cap Registrations)
  /\ "actualConflict" \in r.reasons <=> \E f \in Fields : Two(SaidOf(H, f))
  /\ "sender" \in r.reasons <=> \E m \in H \cap Observations : ~m.own

Flags == {"registrationConflict", "actualConflict", "sender"}

\* A contradiction is for good: the record is in conflict, or out of date for good.
Closed(r) ==
  r.reasons \cap Flags # {} =>
    r.status = "conflict" \/ (r.status = "stale" /\ "expired" \in r.reasons)

\* What is matched has been compared as it stands.
Compared(r) ==
  r.status = "matched" =>
    /\ r.registered # None /\ r.registered.current /\ r.registered.expected \in Verified
    /\ r.actual = r.registered.expected /\ \A f \in Fields : r.actual[f] # None
    /\ "expired" \notin r.reasons

Sound(r, H) == r \in Records /\ Knows(r, H) /\ Closed(r) /\ Compared(r)

\* A status is set by a comparison, and nothing else changes but what is out of date.
LEMMA SettlesFairly ==
  ASSUME NEW r \in Records, NEW now \in Nat, Closed(r)
  PROVE  /\ Settled(r, now) \in Records
         /\ Settled(r, now).call = r.call /\ Settled(r, now).registered = r.registered
         /\ Settled(r, now).actual = r.actual
         /\ \A x \in Flags : x \in Settled(r, now).reasons <=> x \in r.reasons
         /\ Closed(Settled(r, now)) /\ Compared(Settled(r, now))
<1> DEFINE rest == r.reasons \ {"planStale"}
           out == [r EXCEPT !.reasons = rest \cup {"expired"}, !.status = "stale"]
           old == [r EXCEPT !.reasons = rest \cup {"planStale"}, !.status = "stale"]
           new == [r EXCEPT !.reasons = rest,
                            !.status = IF r.registered = None THEN "awaitingExpected"
                                       ELSE Audit(r.registered, r.actual)]
<1>1. CASE r.status = "conflict"
  BY <1>1 DEF Settled, Compared
<1>2. CASE r.status # "conflict" /\ Expired(r, now)
  <2>1. Settled(r, now) = out
    BY <1>2 DEF Settled, Recomputed
  <2>2. /\ out \in Records /\ out.call = r.call /\ out.registered = r.registered
        /\ out.actual = r.actual /\ out.reasons = rest \cup {"expired"}
        /\ out.status = "stale"
    BY DEF Records, Reasons, Statuses
  <2>3. QED
    BY <2>1, <2>2 DEF Flags, Closed, Compared
<1>3. CASE r.status # "conflict" /\ ~Expired(r, now) /\ PlanStale(r)
  <2>1. Settled(r, now) = old
    BY <1>3 DEF Settled, Recomputed
  <2>2. r.reasons \cap Flags = {}
    BY <1>3 DEF Closed, Expired
  <2>3. /\ old \in Records /\ old.call = r.call /\ old.registered = r.registered
        /\ old.actual = r.actual /\ old.reasons = rest \cup {"planStale"}
        /\ old.status = "stale"
    BY DEF Records, Reasons, Statuses
  <2>4. QED
    BY <2>1, <2>2, <2>3 DEF Flags, Closed, Compared
<1>4. CASE r.status # "conflict" /\ ~Expired(r, now) /\ ~PlanStale(r)
  <2>1. Settled(r, now) = new
    BY <1>4 DEF Settled, Recomputed
  <2>2. r.reasons \cap Flags = {} /\ "expired" \notin r.reasons
    BY <1>4 DEF Closed, Expired
  <2>3. /\ new \in Records /\ new.call = r.call /\ new.registered = r.registered
        /\ new.actual = r.actual /\ new.reasons = rest
        /\ new.status = IF r.registered = None THEN "awaitingExpected"
                        ELSE Audit(r.registered, r.actual)
    BY DEF Records, Reasons, Statuses, Audit
  <2>4. Compared(new)
    BY <1>4, <2>2, <2>3 DEF Compared, Audit, PlanStale
  <2>5. QED
    BY <2>1, <2>2, <2>3, <2>4 DEF Flags, Closed
<1>5. QED
  BY <1>1, <1>2, <1>3, <1>4

\* A contradiction that is noted closes the record.
LEMMA ConflictCloses ==
  ASSUME NEW r \in Records, NEW x \in Flags
  PROVE  /\ Conflicting(r, x) \in Records
         /\ Conflicting(r, x).call = r.call /\ Conflicting(r, x).registered = r.registered
         /\ Conflicting(r, x).actual = r.actual /\ Conflicting(r, x).status = "conflict"
         /\ Conflicting(r, x).reasons = r.reasons \cup {x}
         /\ Closed(Conflicting(r, x)) /\ Compared(Conflicting(r, x))
BY DEF Conflicting, Records, Reasons, Statuses, Flags, Closed, Compared

\* The two kinds of requests.
LEMMA Requests ==
  /\ \A m \in Registrations :
       m \notin Observations /\ m # None /\ m.call \in Calls /\ m.at \in Nat /\ m.until \in Nat
  /\ \A m \in Observations :
       /\ m \notin Registrations /\ m # None /\ m.call \in Calls /\ m.at \in Nat
       /\ m.own \in BOOLEAN /\ \A f \in Fields : m.actual[f] \in Values
BY BindingsAssumption DEF Values

\* One more registration says nothing of what was seen.
LEMMA HeardOneMore ==
  ASSUME NEW H, NEW m \in Registrations
  PROVE  /\ (H \cup {m}) \cap Registrations = (H \cap Registrations) \cup {m}
         /\ (H \cup {m}) \cap Observations = H \cap Observations
         /\ \A f \in Fields : SaidOf(H \cup {m}, f) = SaidOf(H, f)
<1>1. /\ (H \cup {m}) \cap Registrations = (H \cap Registrations) \cup {m}
      /\ (H \cup {m}) \cap Observations = H \cap Observations
  BY Requests
<1>2. QED
  BY <1>1 DEF SaidOf

\* register keeps what is known, and adds what it is told.
LEMMA RegisteredSound ==
  ASSUME NEW r, NEW H, Sound(r, H), NEW m \in Registrations
  PROVE  Sound(Registered(r, m), H \cup {m}) /\ Registered(r, m).call = r.call
<1> DEFINE first == [r EXCEPT !.registered = m, !.expires = m.until]
           late  == [first EXCEPT !.reasons = @ \cup {"expired"}, !.status = "stale"]
<1>1. /\ r \in Records /\ Closed(r) /\ Compared(r) /\ Knows(r, H)
      /\ m # None /\ m.at \in Nat /\ m.until \in Nat
  BY Requests DEF Sound
<1>2. /\ (H \cup {m}) \cap Registrations = (H \cap Registrations) \cup {m}
      /\ (H \cup {m}) \cap Observations = H \cap Observations
      /\ \A f \in Fields : SaidOf(H \cup {m}, f) = SaidOf(H, f)
  BY HeardOneMore
<1>3. CASE r.registered = m
  <2>1. m \in H
    BY <1>1, <1>3 DEF Knows
  <2>2. H \cup {m} = H
    BY <2>1
  <2>3. Registered(r, m) = r
    BY <1>1, <1>3 DEF Registered
  <2>4. QED
    BY <1>1, <2>2, <2>3, Zenon
<1>4. CASE r.registered \notin {m, None}
  <2>1. Registered(r, m) = Conflicting(r, "registrationConflict")
    BY <1>4 DEF Registered
  <2>2. r.registered \in H \cap Registrations
    BY <1>1, <1>4 DEF Knows
  <2>3. Two((H \cap Registrations) \cup {m})
    BY <1>4, <2>2 DEF Two
  <2> DEFINE c == Conflicting(r, "registrationConflict")
  <2>4. /\ c \in Records /\ c.call = r.call /\ c.registered = r.registered /\ c.actual = r.actual
        /\ c.reasons = r.reasons \cup {"registrationConflict"} /\ Closed(c) /\ Compared(c)
    BY <1>1, ConflictCloses DEF Flags
  <2> HIDE DEF c
  <2>5. Knows(c, H \cup {m})
    BY <1>1, <1>2, <2>2, <2>3, <2>4 DEF Knows
  <2>6. QED
    BY <2>1, <2>4, <2>5 DEF Sound, c
<1>5. ASSUME r.registered = None,
             NEW s, s \in Records, s.call = r.call, s.registered = m, s.actual = r.actual,
             \A x \in Flags : x \in s.reasons <=> x \in r.reasons, Closed(s), Compared(s)
      PROVE  Sound(s, H \cup {m}) /\ s.call = r.call
  <2>1. H \cap Registrations = {}
    BY <1>1, <1>5, BindingsAssumption DEF Knows
  <2>2. ~Two((H \cap Registrations) \cup {m}) /\ ~Two(H \cap Registrations)
    BY <2>1 DEF Two
  <2>3. QED
    BY <1>1, <1>2, <1>5, <2>1, <2>2 DEF Sound, Knows, Flags
<1>6. /\ first \in Records /\ first.call = r.call /\ first.registered = m
      /\ first.actual = r.actual /\ first.reasons = r.reasons /\ first.status = r.status
  BY <1>1 DEF Records
<1>7. CASE r.registered = None /\ r.observed # 0 /\ m.at >= r.expires
  <2>1. Registered(r, m) = late
    BY <1>1, <1>7 DEF Registered
  <2>2. /\ late \in Records /\ late.call = r.call /\ late.registered = m
        /\ late.actual = r.actual /\ late.reasons = r.reasons \cup {"expired"}
        /\ late.status = "stale"
    BY <1>1 DEF Records, Reasons, Statuses
  <2>3. /\ Closed(late) /\ Compared(late)
        /\ \A x \in Flags : x \in late.reasons <=> x \in r.reasons
    BY <2>2 DEF Closed, Compared, Flags
  <2>4. QED
    BY <1>5, <1>7, <2>1, <2>2, <2>3
<1>8. CASE r.registered = None /\ ~(r.observed # 0 /\ m.at >= r.expires)
  <2>1. Registered(r, m) = Settled(first, m.at)
    BY <1>1, <1>8 DEF Registered
  <2>2. Closed(first)
    BY <1>1, <1>6 DEF Closed
  <2> HIDE DEF first
  <2>3. /\ Settled(first, m.at) \in Records /\ Settled(first, m.at).call = r.call
        /\ Settled(first, m.at).registered = m /\ Settled(first, m.at).actual = r.actual
        /\ \A x \in Flags : x \in Settled(first, m.at).reasons <=> x \in r.reasons
        /\ Closed(Settled(first, m.at)) /\ Compared(Settled(first, m.at))
    BY <1>1, <1>6, <2>2, SettlesFairly, SMTT(30)
  <2>4. QED
    BY <1>5, <1>8, <2>1, <2>3
<1>9. QED
  BY <1>3, <1>4, <1>7, <1>8

\* observe too.
LEMMA ObservedSound ==
  ASSUME NEW r, NEW H, Sound(r, H), NEW m \in Observations
  PROVE  Sound(Observed(r, m), H \cup {m}) /\ Observed(r, m).call = r.call
<1> DEFINE sent == IF m.own THEN r ELSE Conflicting(r, "sender")
           merged == [sent EXCEPT !.actual = Merged(r, m),
                                  !.observed = IF m.at > @ THEN m.at ELSE @]
           closed == IF Contradicts(r, m) THEN Conflicting(merged, "actualConflict")
                     ELSE merged
<1>1. /\ r \in Records /\ Closed(r) /\ Knows(r, H)
      /\ m.at \in Nat /\ m.own \in BOOLEAN /\ \A f \in Fields : m.actual[f] \in Values
      /\ r.actual \in [Fields -> Values]
  BY Requests DEF Sound, Records
<1>2. /\ (H \cup {m}) \cap Registrations = H \cap Registrations
      /\ (H \cup {m}) \cap Observations = (H \cap Observations) \cup {m}
      /\ \A f \in Fields : SaidOf(H \cup {m}, f) = SaidOf(H, f) \cup ({m.actual[f]} \ {None})
  <2>1. /\ (H \cup {m}) \cap Registrations = H \cap Registrations
        /\ (H \cup {m}) \cap Observations = (H \cap Observations) \cup {m}
    BY Requests
  <2>2. QED
    BY <2>1 DEF SaidOf
<1>3. /\ sent \in Records /\ sent.call = r.call /\ sent.registered = r.registered
      /\ Closed(sent)
      /\ sent.reasons = IF m.own THEN r.reasons ELSE r.reasons \cup {"sender"}
  BY <1>1, ConflictCloses DEF Flags
<1>4. Merged(r, m) \in [Fields -> Values]
  BY <1>1 DEF Merged
<1>5. /\ merged \in Records /\ merged.call = r.call /\ merged.registered = r.registered
      /\ merged.actual = Merged(r, m) /\ merged.reasons = sent.reasons
      /\ merged.status = sent.status
  <2> HIDE DEF sent
  <2>1. QED
    BY <1>1, <1>3, <1>4 DEF Records
<1>6. Closed(merged)
  BY <1>3, <1>5 DEF Closed
<1> HIDE DEF merged
<1>7. /\ closed \in Records /\ closed.call = r.call /\ closed.registered = r.registered
      /\ closed.actual = Merged(r, m) /\ Closed(closed)
      /\ closed.reasons = IF Contradicts(r, m) THEN merged.reasons \cup {"actualConflict"}
                          ELSE merged.reasons
  BY <1>5, <1>6, ConflictCloses DEF Flags
<1>8. /\ "registrationConflict" \in closed.reasons <=> "registrationConflict" \in r.reasons
      /\ "actualConflict" \in closed.reasons
           <=> "actualConflict" \in r.reasons \/ Contradicts(r, m)
      /\ "sender" \in closed.reasons <=> "sender" \in r.reasons \/ ~m.own
  BY <1>3, <1>5, <1>7
<1>9. Observed(r, m) = Settled(closed, m.at)
  BY DEF Observed, merged
<1> HIDE DEF sent, closed
<1>10. /\ Settled(closed, m.at) \in Records /\ Settled(closed, m.at).call = r.call
       /\ Settled(closed, m.at).registered = r.registered
       /\ Settled(closed, m.at).actual = Merged(r, m)
       /\ \A x \in Flags : x \in Settled(closed, m.at).reasons <=> x \in closed.reasons
       /\ Closed(Settled(closed, m.at)) /\ Compared(Settled(closed, m.at))
  BY <1>1, <1>7, SettlesFairly
<1>11. ASSUME NEW f \in Fields
       PROVE  /\ Merged(r, m)[f] \in IF SaidOf(H \cup {m}, f) = {} THEN {None}
                                     ELSE SaidOf(H \cup {m}, f)
              /\ Two(SaidOf(H \cup {m}, f))
                   <=> \/ Two(SaidOf(H, f))
                       \/ None \notin {r.actual[f], m.actual[f]} /\ r.actual[f] # m.actual[f]
  <2>1. Merged(r, m)[f] = IF r.actual[f] # None THEN r.actual[f] ELSE m.actual[f]
    BY DEF Merged
  <2>2. /\ r.actual[f] \in IF SaidOf(H, f) = {} THEN {None} ELSE SaidOf(H, f)
        /\ None \notin SaidOf(H, f)
    BY <1>1 DEF Knows, SaidOf
  <2>3. SaidOf(H \cup {m}, f) = SaidOf(H, f) \cup ({m.actual[f]} \ {None})
    BY <1>2
  <2>4. CASE r.actual[f] = None
    BY <2>1, <2>2, <2>3, <2>4 DEF Two
  <2>5. CASE r.actual[f] # None
    BY <2>1, <2>2, <2>3, <2>5 DEF Two
  <2>6. QED
    BY <2>4, <2>5
<1>12. "actualConflict" \in closed.reasons <=> \E f \in Fields : Two(SaidOf(H \cup {m}, f))
  BY <1>1, <1>8, <1>11 DEF Knows, Contradicts
<1>13. "sender" \in closed.reasons <=> \E n \in (H \cap Observations) \cup {m} : ~n.own
  BY <1>1, <1>8 DEF Knows
<1>14. Knows(Settled(closed, m.at), H \cup {m})
  BY <1>1, <1>2, <1>8, <1>10, <1>11, <1>12, <1>13 DEF Knows, Flags
<1>15. QED
  BY <1>9, <1>10, <1>14 DEF Sound

\* list keeps what is known.
LEMMA SettledSound ==
  ASSUME NEW r, NEW H, Sound(r, H), NEW now \in Nat
  PROVE  Sound(Settled(r, now), H) /\ Settled(r, now).call = r.call
<1>1. r \in Records /\ Closed(r) /\ Knows(r, H)
  BY DEF Sound
<1>2. QED
  BY <1>1, SettlesFairly DEF Sound, Knows, Flags

LEMMA AdvancedSound ==
  ASSUME NEW r, NEW H, Sound(r, H), NEW now \in Nat
  PROVE  Sound(Advanced(r, now), H) /\ Advanced(r, now).call = r.call
<1>1. /\ r \in Records /\ Advanced(r, now) \in Records
      /\ Advanced(r, now).call = r.call /\ Advanced(r, now).registered = r.registered
      /\ Advanced(r, now).actual = r.actual /\ Advanced(r, now).reasons = r.reasons
      /\ Advanced(r, now).status = r.status
  BY DEF Sound, Advanced, Records
<1>2. QED
  BY <1>1 DEF Sound, Knows, Closed, Compared

\* A call of which nothing was told is as one that is not known.
LEMMA NewSound ==
  ASSUME NEW c \in Calls, NEW now \in Nat
  PROVE  Record(c, now) \in Records /\ Record(c, now).call = c
         /\ Compared(Record(c, now)) /\ Closed(Record(c, now))
         /\ Record(c, now).registered = None /\ Record(c, now).reasons = {}
         /\ Record(c, now).actual = [f \in Fields |-> None]
BY BindingsAssumption DEF Record, Records, Values, Statuses, Closed, Compared

-----------------------------------------------------------------------------
(* The store. *)

Asking == at \in {"create", "fill", "look", "clear", "move", "place"}

\* With the request that is being written.
Hear(c) == IF hearing # None /\ hearing.call = c THEN heard[c] \cup {hearing} ELSE heard[c]

OnePerCall(D) == \A r, s \in D : r.call = s.call => r = s

HeardTyped ==
  /\ clock \in 1 .. MaxTime
  /\ hearing \in Registrations \cup Observations \cup {None}
  /\ heard \in [Calls -> SUBSET (Registrations \cup Observations)]

\* What is stored is sound for what was heard, of what is not stored nothing was said,
\* and what is being written is sound for that and the request it is written for.
StoredSound ==
  /\ OnePerCall(Document.records)
  /\ \A r \in Document.records : Sound(r, heard[r.call])
  /\ \A c \in Calls : Stored(c) = {} => Knows(Record(c, 0), heard[c])

WrittenSound ==
  Asking => OnePerCall(doc.records) /\ \A r \in doc.records : Sound(r, Hear(r.call))

BindingsInv ==
  /\ FileInv /\ HeardTyped /\ StoredSound /\ WrittenSound
  /\ at = "idle" => hearing = None

\* What a step of the file does to the document.
LEMMA FileKeeps ==
  ASSUME FileInv
  PROVE  /\ Answers => Document' = Document /\ at = "idle" /\ at' = "idle" /\ doc' = doc
         /\ \A new : Writes(new) =>
              Document' = Document /\ at = "idle" /\ at' = "create" /\ doc' = new
         /\ OpenFails => Document' = Document /\ at = "idle" /\ at' = "idle" /\ doc' = doc
         /\ Place => Document' = doc /\ at = "place" /\ at' = "tidy" /\ doc' = doc
         /\ Writing /\ ~Place =>
              Document' = Document /\ at # "idle" /\ doc' = doc /\ (Asking' => Asking)
         /\ Crash => Document' = Document /\ at' = "idle" /\ doc' = doc
<1> USE DocumentsAssumption
    DEF FileInv, FileTypeOK, Lost, Document, Goes, Ends, files, Asking
<1>1. Answers => Document' = Document /\ at = "idle" /\ at' = "idle" /\ doc' = doc
  BY DEF Answers, Opens, Restored
<1>2. \A new : Writes(new) =>
        Document' = Document /\ at = "idle" /\ at' = "create" /\ doc' = new
  BY DEF Writes, Opens, Restored
<1>3. OpenFails => Document' = Document /\ at = "idle" /\ at' = "idle" /\ doc' = doc
  BY DEF OpenFails, Restored
<1>4. Place => Document' = doc /\ at = "place" /\ at' = "tidy" /\ doc' = doc
  BY DEF Place
<1>5. Create \/ Fill \/ Look \/ Clear \/ Move =>
        Document' = Document /\ at # "idle" /\ doc' = doc /\ (Asking' => Asking)
  BY DEF Create, Fill, Look, Clear, Move
<1>6. GivesUp \/ PlaceFails \/ Undo \/ Tidy =>
        Document' = Document /\ at # "idle" /\ doc' = doc /\ (Asking' => Asking)
  BY DEF GivesUp, PlaceFails, Undo, Tidy
<1>7. Crash => Document' = Document /\ at' = "idle" /\ doc' = doc
  BY DEF Crash
<1>8. QED
  BY <1>1, <1>2, <1>3, <1>4, <1>5, <1>6, <1>7 DEF Writing

\* A record that is not kept says that nothing was said.
LEMMA NothingSaid ==
  ASSUME NEW c \in Calls, NEW now \in Nat, NEW H
  PROVE  /\ Knows(Record(c, now), H) <=> Knows(Record(c, 0), H)
         /\ Knows(Record(c, now), {})
<1>1. /\ Record(c, now).registered = None /\ Record(c, now).reasons = {}
      /\ Record(c, now).actual = [f \in Fields |-> None]
      /\ Record(c, 0).registered = None /\ Record(c, 0).reasons = {}
      /\ Record(c, 0).actual = [f \in Fields |-> None]
  BY NewSound
<1>2. QED
  BY <1>1 DEF Knows, SaidOf, Two

\* What a command starts from.
LEMMA KnownSound ==
  ASSUME BindingsInv, NEW c \in Calls, NEW now \in Nat
  PROVE  /\ Sound(Known(c, now), heard[c]) /\ Known(c, now).call = c
         /\ \A r \in Document.records : r.call = c => r = Known(c, now)
         /\ Stored(c) = {} => Known(c, now) = Record(c, now)
<1>1. CASE Stored(c) = {}
  BY <1>1, NewSound, NothingSaid DEF BindingsInv, StoredSound, Stored, Known, Sound
<1>2. CASE Stored(c) # {}
  <2>1. Known(c, now) \in Stored(c)
    BY <1>2 DEF Known
  <2>2. QED
    BY <1>2, <2>1 DEF BindingsInv, StoredSound, Stored, OnePerCall
<1>3. QED
  BY <1>1, <1>2

\* A record that makes the document is one of the records it was made of.
LEMMA PrunedKeeps ==
  ASSUME NEW D PROVE Pruned(D).records \subseteq D /\ Pruned(D) = [records |-> Pruned(D).records]
BY DEF Pruned

\* Both requests serve a record that is sound for the request as well.
LEMMA ServeKeeps ==
  ASSUME KeepsBindings, BindingsInv, NEW m \in Registrations \cup Observations, NEW new,
         Sound(new, heard[m.call] \cup {m}), new.call = m.call, Serve(m, new)
  PROVE  BindingsInv' /\ FileNext
<1> DEFINE c   == m.call
           old == Known(c, m.at)
           D   == (Document.records \ {old}) \cup {Advanced(new, m.at)}
<1>1. c \in Calls /\ m.at \in Nat /\ m # None
  BY Requests
<1>2. /\ Sound(old, heard[c]) /\ old.call = c
      /\ \A r \in Document.records : r.call = c => r = old
      /\ Stored(c) = {} => old = Record(c, m.at)
  BY <1>1, KnownSound
<1>3. /\ FileInv /\ HeardTyped /\ StoredSound
      /\ heard \in [Calls -> SUBSET (Registrations \cup Observations)]
      /\ \A r \in Document.records : Sound(r, heard[r.call]) /\ r.call \in Calls
  BY DEF BindingsInv, HeardTyped, StoredSound, Sound, Records
<1>4. CASE new = old /\ Answers
  <2>1. /\ heard' = [heard EXCEPT ![c] = @ \cup {m}] /\ UNCHANGED <<hearing, clock>>
        /\ Document' = Document /\ at = "idle" /\ at' = "idle" /\ doc' = doc
    BY <1>3, <1>4, FileKeeps DEF Serve, Writes
  <2>2. FileInv'
    BY <1>3, <1>4, FileInvStep DEF FileNext
  <2>3. HeardTyped'
    BY <1>1, <1>3, <2>1 DEF HeardTyped
  <2>4. \A r \in Document'.records : Sound(r, heard'[r.call])
    BY <1>1, <1>2, <1>3, <1>4, <2>1
  <2>5. \A d \in Calls : Stored(d) = {} => Knows(Record(d, 0), heard'[d])
    <3>1. Stored(c) = {} => Knows(Record(c, 0), heard[c] \cup {m})
      BY <1>1, <1>2, <1>4, NothingSaid DEF Sound
    <3>2. QED
      BY <1>1, <1>3, <2>1, <3>1 DEF StoredSound
  <2>6. StoredSound'
    BY <1>3, <2>1, <2>4, <2>5 DEF StoredSound, Stored
  <2>7. QED
    BY <1>4, <2>1, <2>2, <2>3, <2>6 DEF BindingsInv, WrittenSound, Asking, FileNext
<1>5. CASE Writes(Pruned(D)) /\ hearing' = m /\ UNCHANGED <<heard, clock>>
  <2>1. Document' = Document /\ at' = "create" /\ doc' = Pruned(D)
    BY <1>3, <1>5, FileKeeps
  <2>2. Sound(Advanced(new, m.at), heard[c] \cup {m}) /\ Advanced(new, m.at).call = c
    BY <1>1, AdvancedSound
  <2>3. \A r \in D : \/ r.call = c /\ r = Advanced(new, m.at)
                     \/ r.call # c /\ r \in Document.records
    BY <1>2, <2>2
  <2>4. OnePerCall(D)
    BY <1>3, <2>3 DEF OnePerCall, StoredSound
  <2>5. \A r \in D : Sound(r, Hear(r.call)')
    BY <1>1, <1>3, <1>5, <2>2, <2>3 DEF Hear
  <2> HIDE DEF D
  <2>6. Pruned(D).records \subseteq D /\ Pruned(D) = [records |-> Pruned(D).records]
    BY PrunedKeeps
  <2>7. Pruned(D) \in Documents
    BY <2>5, <2>6 DEF KeepsBindings, Sound
  <2>8. FileNext /\ FileInv'
    BY <1>3, <1>5, <2>7, FileInvStep DEF FileNext
  <2>9. HeardTyped'
    BY <1>3, <1>5 DEF HeardTyped
  <2>10. StoredSound'
    BY <1>3, <1>5, <2>1 DEF StoredSound, Stored
  <2>11. WrittenSound'
    BY <2>1, <2>4, <2>5, <2>6 DEF WrittenSound, OnePerCall
  <2>12. QED
    BY <2>1, <2>8, <2>9, <2>10, <2>11 DEF BindingsInv
<1>6. QED
  BY <1>4, <1>5 DEF Serve

LEMMA ListKeeps ==
  ASSUME KeepsBindings, BindingsInv, List PROVE BindingsInv' /\ FileNext
<1> DEFINE D == {Relisted(r) : r \in Document.records}
<1>1. /\ FileInv /\ HeardTyped /\ StoredSound /\ clock \in Nat
      /\ UNCHANGED <<clock, hearing, heard>>
      /\ \A r \in Document.records : Sound(r, heard[r.call])
  BY DEF BindingsInv, HeardTyped, StoredSound, List
<1>2. CASE Answers
  <2>1. Document' = Document /\ at = "idle" /\ at' = "idle" /\ doc' = doc
    BY <1>1, <1>2, FileKeeps
  <2>2. FileInv' /\ FileNext
    BY <1>1, <1>2, FileInvStep DEF FileNext
  <2>3. QED
    BY <1>1, <2>1, <2>2 DEF BindingsInv, HeardTyped, StoredSound, Stored, WrittenSound, Asking
<1>3. CASE Writes(Pruned(D))
  <2>1. Document' = Document /\ at = "idle" /\ at' = "create" /\ doc' = Pruned(D)
    BY <1>1, <1>3, FileKeeps
  <2>2. ASSUME NEW r \in Document.records
        PROVE  Sound(Relisted(r), heard[r.call]) /\ Relisted(r).call = r.call
    <3>1. Sound(Settled(r, clock), heard[r.call]) /\ Settled(r, clock).call = r.call
      BY <1>1, SettledSound
    <3>2. /\ Sound(Advanced(Settled(r, clock), clock), heard[r.call])
          /\ Advanced(Settled(r, clock), clock).call = r.call
      BY <1>1, <3>1, AdvancedSound
    <3>3. QED
      BY <1>1, <3>2 DEF Relisted
  <2>3. OnePerCall(D)
    BY <1>1, <2>2 DEF OnePerCall, StoredSound
  <2>4. hearing' = None
    BY <1>1, <2>1 DEF BindingsInv
  <2>5. \A r \in D : Sound(r, Hear(r.call)')
    BY <1>1, <2>2, <2>4 DEF Hear
  <2> HIDE DEF D
  <2>6. Pruned(D).records \subseteq D /\ Pruned(D) = [records |-> Pruned(D).records]
    BY PrunedKeeps
  <2>7. Pruned(D) \in Documents
    BY <2>5, <2>6 DEF KeepsBindings, Sound
  <2>8. FileNext /\ FileInv'
    BY <1>1, <1>3, <2>7, FileInvStep DEF FileNext
  <2>9. HeardTyped' /\ StoredSound'
    BY <1>1, <2>1 DEF HeardTyped, StoredSound, Stored
  <2>10. WrittenSound'
    BY <2>1, <2>3, <2>5, <2>6 DEF WrittenSound, OnePerCall
  <2>11. QED
    BY <2>1, <2>8, <2>9, <2>10 DEF BindingsInv
<1>4. QED
  BY <1>2, <1>3 DEF List

LEMMA StoresKeeps ==
  ASSUME BindingsInv, Stores PROVE BindingsInv' /\ FileNext
<1>1. /\ FileInv /\ HeardTyped /\ WrittenSound /\ Asking
      /\ Place /\ UNCHANGED <<clock, hearing>> /\ heard' = [c \in Calls |-> HeardOf(c)]
      /\ Document' = doc /\ at' = "tidy" /\ doc' = doc
  BY FileKeeps DEF BindingsInv, Stores, Asking
<1>2. FileNext /\ FileInv'
  BY <1>1, FileInvStep DEF FileNext, Writing
<1>3. \A c \in Calls : /\ HeardOf(c) = IF \A r \in doc.records : r.call # c THEN {} ELSE Hear(c)
                       /\ Hear(c) \subseteq Registrations \cup Observations
  BY <1>1 DEF HeardOf, Hear, HeardTyped
<1>4. HeardTyped'
  BY <1>1, <1>3 DEF HeardTyped
<1>5. \A r \in doc.records : Sound(r, Hear(r.call)) /\ r.call \in Calls
  BY <1>1 DEF WrittenSound, Sound, Records
<1>6. \A r \in doc.records : Sound(r, heard'[r.call])
  BY <1>1, <1>3, <1>5
<1>7. \A c \in Calls : (\A r \in doc.records : r.call # c) => Knows(Record(c, 0), heard'[c])
  BY <1>1, <1>3, NothingSaid
<1>8. StoredSound'
  BY <1>1, <1>6, <1>7 DEF StoredSound, WrittenSound, Stored
<1>9. QED
  BY <1>1, <1>2, <1>4, <1>8 DEF BindingsInv, WrittenSound, Asking

\* What leaves the document and what was heard as they are.
LEMMA OthersKeep ==
  ASSUME BindingsInv, Fails \/ Write \/ Restart \/ Tick \/ UNCHANGED bindingVars
  PROVE  BindingsInv' /\ [FileNext]_fileVars
<1>1. ASSUME FileInv', HeardTyped', UNCHANGED heard, Document' = Document, doc' = doc,
             Asking' => Asking /\ hearing' = hearing, at' = "idle" => hearing' = None
      PROVE  BindingsInv'
  BY <1>1 DEF BindingsInv, StoredSound, Stored, WrittenSound, Hear
<1>2. FileInv /\ HeardTyped /\ (at = "idle" => hearing = None)
  BY DEF BindingsInv
<1>3. CASE Fails
  <2>1. Document' = Document /\ at = "idle" /\ at' = "idle" /\ doc' = doc
    BY <1>2, <1>3, FileKeeps DEF Fails
  <2>2. FileNext /\ FileInv'
    BY <1>2, <1>3, FileInvStep DEF FileNext, Fails
  <2>3. QED
    BY <1>1, <1>2, <1>3, <2>1, <2>2 DEF Fails, HeardTyped, Asking
<1>4. CASE Write
  <2>1. Writing /\ ~Place
    BY <1>4 DEF Write, Writing, Place, Create, Fill, Look, Clear, Move, GivesUp, PlaceFails,
                Undo, Tidy, Goes, Ends
  <2>2. Document' = Document /\ doc' = doc /\ (Asking' => Asking)
    BY <1>2, <2>1, FileKeeps
  <2>3. FileNext /\ FileInv'
    BY <1>2, <2>1, FileInvStep DEF FileNext
  <2>4. QED
    BY <1>1, <1>2, <1>4, <2>2, <2>3 DEF Write, HeardTyped, Asking
<1>5. CASE Restart
  <2>1. Document' = Document /\ at' = "idle" /\ doc' = doc
    BY <1>2, <1>5, FileKeeps DEF Restart
  <2>2. FileNext /\ FileInv'
    BY <1>2, <1>5, FileInvStep DEF FileNext, Restart
  <2>3. QED
    BY <1>1, <1>2, <1>5, <2>1, <2>2 DEF Restart, HeardTyped, Asking
<1>6. CASE Tick \/ UNCHANGED bindingVars
  <2>1. UNCHANGED <<fileVars, hearing, heard>> /\ clock' \in 1 .. MaxTime
    BY <1>2, <1>6, BindingsAssumption DEF Tick, bindingVars, HeardTyped
  <2>2. FileInv'
    BY <1>2, <2>1, FileInvStep
  <2>3. Document' = Document /\ doc' = doc /\ at' = at
    BY <2>1 DEF fileVars, files, Document
  <2>4. QED
    BY <1>1, <1>2, <2>1, <2>2, <2>3 DEF HeardTyped, Asking
<1>7. QED
  BY <1>3, <1>4, <1>5, <1>6

LEMMA BindingsKept ==
  ASSUME KeepsBindings, BindingsInv, [BindingsNext]_bindingVars
  PROVE  BindingsInv' /\ [FileNext]_fileVars
<1>1. ASSUME NEW m \in Registrations, Register(m) PROVE BindingsInv' /\ FileNext
  <2>1. m.call \in Calls /\ m.at \in Nat
    BY Requests
  <2>2. Sound(Known(m.call, m.at), heard[m.call]) /\ Known(m.call, m.at).call = m.call
    BY <2>1, KnownSound
  <2>3. QED
    BY <1>1, <2>2, RegisteredSound, ServeKeeps DEF Register
<1>2. ASSUME NEW m \in Observations, Observe(m) PROVE BindingsInv' /\ FileNext
  <2>1. m.call \in Calls /\ m.at \in Nat
    BY Requests
  <2>2. Sound(Known(m.call, m.at), heard[m.call]) /\ Known(m.call, m.at).call = m.call
    BY <2>1, KnownSound
  <2>3. QED
    BY <1>2, <2>2, ObservedSound, ServeKeeps DEF Observe
<1>3. QED
  BY <1>1, <1>2, ListKeeps, StoresKeeps, OthersKeep DEF BindingsNext

LEMMA BindingsStart == BindingsInit => BindingsInv
<1> SUFFICES ASSUME BindingsInit PROVE BindingsInv
  OBVIOUS
<1>1. FileInv /\ Document = [records |-> {}] /\ at = "idle"
  BY FileInvStarts, BindingsAssumption DEF BindingsInit, FileInit, Document
<1>2. HeardTyped /\ hearing = None /\ \A c \in Calls : heard[c] = {}
  BY BindingsAssumption DEF BindingsInit, HeardTyped
<1>3. StoredSound
  BY <1>1, <1>2, NothingSaid DEF StoredSound, OnePerCall
<1>4. QED
  BY <1>1, <1>2, <1>3 DEF BindingsInv, WrittenSound, Asking

LEMMA BindingsHold == ASSUME KeepsBindings PROVE BindingsSpec => []BindingsInv
<1>1. BindingsInv /\ [BindingsNext]_bindingVars => BindingsInv'
  BY BindingsKept
<1>2. QED
  BY <1>1, BindingsStart, PTL DEF BindingsSpec

\* The state of the store is well typed.
THEOREM BindingsTyped == ASSUME KeepsBindings PROVE BindingsSpec => []BindingsTypeOK
<1>1. BindingsInv => BindingsTypeOK
  BY DEF BindingsInv, BindingsTypeOK, HeardTyped, FileInv
<1>2. QED
  BY <1>1, BindingsHold, PTL

\* The store of bindings is an atomic file: whatever register, observe and list do, and
\* whatever fails, each replaces the document as a whole or not at all.
THEOREM StoreIsAtomic == ASSUME KeepsBindings PROVE BindingsSpec => FileIsAtomic
<1>1. BindingsInv /\ [BindingsNext]_bindingVars => [FileNext]_fileVars
  BY BindingsKept
<1>2. BindingsInit => FileInit
  BY DEF BindingsInit
<1>3. QED
  BY <1>1, <1>2, BindingsHold, SidecarIsAtomic, PTL DEF BindingsSpec, FileSpec

\* What a stored record knows of a call is what the requests that made it said, in any
\* order, late, again, and across failed writes and restarts (register, observe, list).
THEOREM EvidenceNeverLost == ASSUME KeepsBindings PROVE BindingsSpec => []EvidenceIsOrderless
<1>1. BindingsInv => EvidenceIsOrderless
  <2> SUFFICES ASSUME BindingsInv, NEW r \in Document.records
               PROVE  Knows(r, heard[r.call])
    BY DEF EvidenceIsOrderless, Knows, Said, SaidOf, Two
  <2>1. QED
    BY DEF BindingsInv, StoredSound, Sound
<1>2. QED
  BY <1>1, BindingsHold, PTL

\* A binding that counts as matched deserves it by everything that was said of it.
THEOREM MatchesDeserved == ASSUME KeepsBindings PROVE BindingsSpec => []MatchedIsDeserved
<1>1. ASSUME NEW r, NEW H, Sound(r, H), r.status = "matched",
             H \subseteq Registrations \cup Observations
      PROVE  /\ \E m \in Registrations :
                  /\ H \cap Registrations = {m} /\ m.current /\ m.expected \in Verified
                  /\ \A f \in Fields : SaidOf(H, f) = {m.expected[f]}
             /\ \A m \in H \cap Observations : m.own
             /\ "expired" \notin r.reasons
  <2>1. /\ Knows(r, H) /\ r.registered # None /\ r.registered.current
        /\ r.registered.expected \in Verified /\ r.actual = r.registered.expected
        /\ \A f \in Fields : r.actual[f] # None
        /\ "expired" \notin r.reasons /\ r.reasons \cap Flags = {}
    BY <1>1 DEF Sound, Compared, Closed
  <2>2. r.registered \in H \cap Registrations /\ ~Two(H \cap Registrations)
    BY <2>1 DEF Knows, Flags
  <2>3. H \cap Registrations = {r.registered}
    BY <2>2 DEF Two
  <2>4. \A f \in Fields : r.actual[f] \in SaidOf(H, f) /\ ~Two(SaidOf(H, f))
    BY <2>1 DEF Knows, Flags
  <2>5. \A f \in Fields : SaidOf(H, f) = {r.actual[f]}
    BY <2>4 DEF Two
  <2>6. \A m \in H \cap Observations : m.own
    BY <2>1 DEF Knows, Flags
  <2>7. QED
    BY <2>1, <2>2, <2>3, <2>5, <2>6
<1>2. BindingsInv => MatchedIsDeserved
  <2> SUFFICES ASSUME BindingsInv, NEW r \in Document.records, r.status = "matched"
               PROVE  /\ \E m \in Registrations :
                           /\ heard[r.call] \cap Registrations = {m}
                           /\ m.current /\ m.expected \in Verified
                           /\ \A f \in Fields : Said(r.call, f) = {m.expected[f]}
                      /\ \A m \in heard[r.call] \cap Observations : m.own
                      /\ "expired" \notin r.reasons
    BY DEF MatchedIsDeserved
  <2>1. Sound(r, heard[r.call]) /\ heard[r.call] \subseteq Registrations \cup Observations
    BY DEF BindingsInv, StoredSound, HeardTyped, Sound, Records
  <2>2. \A f : Said(r.call, f) = SaidOf(heard[r.call], f)
    BY DEF Said, SaidOf
  <2>3. QED
    BY <1>1, <2>1, <2>2
<1>3. QED
  BY <1>2, BindingsHold, PTL
================================================================================
