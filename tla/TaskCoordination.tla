--------------------------- MODULE TaskCoordination ---------------------------
(***************************************************************************)
(* The claims of one coordination group: which thread declared which       *)
(* resource with which access (shared/task_coordination_core, and the      *)
(* commands task_coordination_acquire_claim and _release_claim of the      *)
(* desktop and of the daemon, which do the same).  A call holds the lock   *)
(* on the ledger throughout, so a call is one step.                        *)
(***************************************************************************)
EXTENDS Naturals, Sequences

CONSTANTS Owners,     \* threads
          Resources,  \* records of a kind and a key, a path as the names on it
          MaxClaims   \* bound on the claims kept of a behaviour

Kinds == {"file", "directory", "logical"}
AccessLevel == {"read", "write", "exclusive"}

ASSUME CoordinationAssumption ==
  /\ \A r \in Resources : r.kind \in Kinds
  /\ MaxClaims \in Nat

VARIABLES claims,   \* CoordinationLedger.claims of the group
          declared  \* what each thread was granted and has not given back

vars == <<claims, declared>>

Claim == [owner : Owners, resource : Resources, access : AccessLevel,
          state : {"granted", "released"}, again : BOOLEAN]

TypeOK ==
  /\ claims \in Seq(Claim)
  /\ declared \in [Owners -> SUBSET (Resources \X AccessLevel)]

Init == claims = <<>> /\ declared = [o \in Owners |-> {}]

-----------------------------------------------------------------------------
(* Resources and access. *)

StrictlyInside(file, dir) == Len(dir) < Len(file) /\ SubSeq(file, 1, Len(dir)) = dir

\* mutant: a directory does not meet the directories above it
IntersectDownwards(a, b) ==
  IF a.kind = "logical" \/ b.kind = "logical" THEN a = b
  ELSE \/ a.key = b.key /\ a.kind = b.kind
       \/ b.kind = "directory" /\ StrictlyInside(a.key, b.key)

\* resources_intersect
Intersect(a, b) ==
  IF a.kind = "logical" \/ b.kind = "logical" THEN a = b
  ELSE \/ a.key = b.key /\ a.kind = b.kind
       \/ b.kind = "directory" /\ StrictlyInside(a.key, b.key)
       \/ a.kind = "directory" /\ StrictlyInside(b.key, a.key)

\* The permission matrix of claims_conflict.
Incompatible(old, new) ==
  \/ "exclusive" \in {old, new}
  \/ old = "write" /\ new = "write"

Live(c) == c.state # "released"

Conflicts(c, r, access) ==
  Live(c) /\ Intersect(c.resource, r) /\ Incompatible(c.access, access)

-----------------------------------------------------------------------------
(* acquire_claim *)

New(o, r, access, again) ==
  [owner |-> o, resource |-> r, access |-> access, state |-> "granted", again |-> again]

First(places) == CHOOSE i \in places : \A j \in places : i <= j

\* Where the thread's own claims are that the resource meets: the first one decides.
Own(o, r) ==
  {i \in DOMAIN claims : /\ Live(claims[i]) /\ claims[i].owner = o
                         /\ Intersect(claims[i].resource, r)}

Blocked(o, r, access) ==
  \E i \in DOMAIN claims : claims[i].owner # o /\ Conflicts(claims[i], r, access)

\* What is granted: the thread's own exclusive claim, a new one in the place of
\* its own, without a look at those of others, or a new one nobody's conflicts with.
Grant(o, r, access) ==
  IF Own(o, r) = {} THEN New(o, r, access, FALSE)
  ELSE IF claims[First(Own(o, r))].access = "exclusive" /\ access # "exclusive"
  THEN claims[First(Own(o, r))] ELSE New(o, r, access, TRUE)

\* Every live claim of the thread gives way to the new one.
WithoutOwn(o) ==
  LET upto[i \in 0 .. Len(claims)] ==
        IF i = 0 THEN <<>>
        ELSE IF claims[i].owner = o /\ Live(claims[i]) THEN upto[i - 1]
        ELSE Append(upto[i - 1], claims[i])
  IN  upto[Len(claims)]

AcquireClaim(o, r, access) ==
  /\ Len(claims) < MaxClaims
  /\ Own(o, r) # {} \/ ~Blocked(o, r, access)
  /\ claims' = Append(WithoutOwn(o), Grant(o, r, access))
  /\ declared' =
       [declared EXCEPT ![o] = {d \in @ : ~Intersect(d[1], r)}
          \cup {<<Grant(o, r, access).resource, Grant(o, r, access).access>>}]

-----------------------------------------------------------------------------
(* release_claim *)

\* make_claim: the identifier leaves out the kind.
Id(c) == <<c.owner, c.resource.key, c.access>>

ReleaseAt(i) == [claims EXCEPT ![i].state = "released"]

\* The first claim with the identifier the thread was given.
ReleaseClaim(o, r, access) ==
  /\ <<r, access>> \in declared[o]
  /\ LET same == {i \in DOMAIN claims : Id(claims[i]) = <<o, r.key, access>>}
     IN  claims' = IF same = {} THEN claims
                   ELSE ReleaseAt(First(same))
  /\ declared' = [declared EXCEPT ![o] = @ \ {<<r, access>>}]

Next ==
  \E o \in Owners, r \in Resources, access \in AccessLevel :
    AcquireClaim(o, r, access) \/ ReleaseClaim(o, r, access)

Spec == Init /\ [][Next]_vars

-----------------------------------------------------------------------------
(* Properties. *)

Held == {i \in DOMAIN claims : Live(claims[i])}

Clash(c, d) ==
  c.owner # d.owner /\ Conflicts(c, d.resource, d.access)

\* Claims of two threads that exclude each other are never both held, unless
\* one of the two threads declared its own resource again.
ClashOnlyByRedeclaring ==
  \A i, j \in Held : Clash(claims[i], claims[j]) => claims[i].again \/ claims[j].again

-----------------------------------------------------------------------------
(* Not promised by the code: TLC refutes all three, no run checks them. *)

\* Two threads are never granted accesses to one resource that exclude each other.
NoClash == \A i, j \in Held : ~Clash(claims[i], claims[j])

\* A thread still holds what it was granted and did not release.
DeclaredAreHeld ==
  \A o \in Owners : \A d \in declared[o] :
    \E i \in Held : /\ claims[i].owner = o
                    /\ claims[i].resource = d[1] /\ claims[i].access = d[2]

\* A claim its owner released blocks nobody.
HeldAreDeclared ==
  \A i \in Held : <<claims[i].resource, claims[i].access>> \in declared[claims[i].owner]
=============================================================================
