---------------------------- MODULE MCThreadTurns ----------------------------
(* Three parts of ThreadTurns for TLC in one run: a behaviour keeps to the    *)
(* part its first state picks.                                                *)
EXTENDS ThreadTurns

CONSTANT s1   \* the only message of the smaller parts

VARIABLE part
allVars == <<vars, part>>

Made == {k \in Calls : call[k].at # "idle"}

\* The user waits for what is on its way, and two of the three calls are made;
\* nobody waits, with one message that steers nothing; and a calm part with that
\* message and fairness.
Within ==
  \/ part = "calm" /\ calm' /\ Cardinality(Made') <= 2
  \/ part = "hasty" /\ Made' \subseteq {s1} \cup Autos /\ call'[s1].at # "steer"
  \/ part = "live" /\ calm' /\ Made' \subseteq {s1} \cup Autos

InitParts == Init /\ part \in {"calm", "hasty", "live"}

Fair(A) == part = "live" /\ A /\ Within /\ UNCHANGED part

SpecParts ==
  /\ InitParts /\ [][Next /\ Within /\ UNCHANGED part]_allVars
  /\ WF_allVars(Fair(Commit)) /\ WF_allVars(Fair(Handle))
  /\ \A k \in {s1} \cup Autos :
       /\ WF_allVars(Fair(Preflight(k))) /\ WF_allVars(Fair(Resumed(k)))
       /\ WF_allVars(Fair(Accept(k) \/ Decline(k))) /\ WF_allVars(Fair(Steer(k)))
  /\ \A k \in Autos : WF_allVars(Fair(AutoFires(k)))
  /\ \A o \in {s1, Pending} \cup Autos : WF_allVars(Fair(Interrupt(o)))

\* A stop ends the turn it meets or the one about to start.
StopEndsInTime == part = "live" => StopEnds

\* A continuation that is due is sent, unless it became needless.
RetryInTime == part = "live" => RetryComesThrough
=============================================================================
