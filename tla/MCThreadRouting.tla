--------------------------- MODULE MCThreadRouting ---------------------------
(* Three parts of ThreadRouting for TLC in one run: a behaviour keeps to the *)
(* part its first state picks.                                               *)
EXTENDS ThreadRouting

CONSTANTS w1, t1, dir

\* The one directory that lines name is inside w1's root.
InW1 == [d \in {dir} |-> <<w1>>]

VARIABLE part
allVars == <<vars, part>>

\* One thread of one workspace.
Alone ==
  /\ callbacks' \cup hidden' \cup Owned(owners') \subseteq {t1}
  /\ asked' \subseteq {<<t1, w1>>} /\ {line'.thread, line'.other} \subseteq {t1, NoThread}

\* A parent and its child in two workspaces, with one notification and one claim;
\* one thread with more of either; the same with fewer and fairness.
Within ==
  /\ roots' \subseteq {w1}
  /\ \/ part = "family" /\ read' <= 1 /\ claims' <= 1
     \/ part = "order" /\ read' + claims' <= 4 /\ Alone
     \/ part = "release" /\ read' <= 2 /\ Alone

InitParts == Init /\ roots \subseteq {w1} /\ part \in {"family", "order", "release"}

Fair(A) == part = "release" /\ A /\ Within /\ UNCHANGED part

SpecParts ==
  /\ InitParts
  /\ [][Next /\ Within /\ UNCHANGED part]_allVars
  /\ WF_allVars(Fair(Flush \/ EmitReady \/ Dispatch))
  /\ SF_allVars(Fair(\E l \in Replies : Route(l)))

\* A claimed thread's notifications leave the buffer: the claim's own reply is a
\* line that flushes it.
ClaimReleasesWithin == part = "release" => ClaimReleases
=============================================================================
