--------------------------- MODULE MCRuntimesEnd ---------------------------
(* Instances of WorkspaceRuntimes for the question whether every call ends: *)
(* the constants of the .cfg, with turns and a switch; and in the same run  *)
(* one with two connections, two workspaces and processes that exit.  A     *)
(* behaviour is of the instance its first state picks.                      *)
EXTENDS WorkspaceRuntimes

CONSTANTS w2, c2

VARIABLE instance
allVars == <<vars, instance>>

Exiting == INSTANCE WorkspaceRuntimes WITH
             Workspaces <- Workspaces \cup {w2}, Connects <- Connects \cup {c2},
             Switches <- {}, Turns <- {}, Reviews <- {}, Idles <- FALSE, Exits <- TRUE

\* The binaries and the profiles are interchangeable: one of them is the first.
InitAny ==
  /\ \/ instance = "turns" /\ Init
     \/ instance = "exits" /\ Exiting!Init
  /\ settings = CHOOSE first \in Settings : TRUE

NextAny ==
  \/ instance = "turns" /\ Next /\ UNCHANGED instance
  \/ instance = "exits" /\ Exiting!Next /\ UNCHANGED instance

\* The fairness of WorkspaceRuntimes for a call of either instance.
GoesOn(t) ==
  /\ \/ /\ instance = "turns"
        /\ \/ t \in Connects /\ pc[t] # "idle" /\ ConnectStep(t)
           \/ t \in Switches /\ pc[t] # "idle" /\ SwitchStep(t)
           \/ t \in Starts /\ pc[t] \notin {"idle", "turn"} /\ StartStep(t)
     \/ /\ instance = "exits"
        /\ t \in Connects \cup {c2} /\ pc[t] # "idle" /\ Exiting!ConnectStep(t)
  /\ UNCHANGED instance

SpecAny == InitAny /\ [][NextAny]_allVars 
             /\ \A t \in Tasks \cup {c2} : SF_allVars(GoesOn(t))

\* Calls that are under way, in either instance.
Underway == {t \in DOMAIN pc : pc[t] \notin {"idle", "turn", "done"}}

\* Every call comes to an end, whatever locks it waits for: the spawn lock, the
\* gate, the pool's lock and the settings are never held in a circle.
AllCallsEnd == \A t \in Tasks \cup {c2} : t \in Underway ~> t \notin Underway
=============================================================================
