------------------------ MODULE MCWorkspaceRuntimes ------------------------
(* Four parts of WorkspaceRuntimes for TLC in one run: a behaviour keeps to  *)
(* the part its first state picks.  Together the calls are too many.         *)
EXTENDS WorkspaceRuntimes, TLC

CONSTANTS c2, p2, a2   \* the second connection; the second profile; the second args

VARIABLE part
allVars == <<vars, part>>

OtherArgs == settings'.args = a2 \/ \E t \in Tasks : local'[t].want.args = a2

\* Workspaces are connected and removed, processes exit, a turn starts; nothing
\* is switched.  Or one connection and a switch, with two profiles, where a turn
\* starts or a workspace is removed; or with two args, where a turn starts.
Within ==
  \/ /\ part = "shared"
     /\ changes' <= 1 /\ settings'.profile # p2 /\ ~OtherArgs
     /\ \A s \in Switches : pc'[s] = "idle"
  \/ /\ part \in {"switch", "removal", "args"}
     /\ pc'[c2] = "idle"
     /\ \A r \in Runtimes : proc'[r].state # "exited"
     /\ IF part = "removal" THEN \A t \in Starts : pc'[t] = "idle"
                            ELSE \A v \in Removes : pc'[v] = "idle"
     /\ IF part = "args" THEN settings'.profile # p2 ELSE ~OtherArgs

InitParts ==
  /\ Init /\ part \in {"shared", "switch", "removal", "args"}
  /\ part \in {"shared", "args"} => settings.profile # p2
  /\ part # "args" => settings.args # a2

SpecParts == InitParts /\ [][Next /\ Within /\ UNCHANGED part]_allVars

\* (c2, the second profile and the second args do not occur in every part: no two
\* reachable states of the others are the same up to them.)
Symmetric == Permutations(Workspaces) \cup Permutations(Connects)
               \cup Permutations(Turns) \cup Permutations(Bins)
               \cup Permutations(Profiles) \cup Permutations(Args)
=============================================================================
