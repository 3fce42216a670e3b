---------------------------- MODULE MCRemoteBackend ----------------------------
(* Two instances of RemoteBackend in one run: a behaviour is of the one its   *)
(* first state picks.  The invariants mention no constant the instances       *)
(* differ in.                                                                 *)
EXTENDS RemoteBackend

VARIABLE instance
allVars == <<vars, instance>>

\* Every call may be retried and nothing times out, but connections are lost
\* and the settings change.
Lost == INSTANCE RemoteBackend WITH
          RetrySafe <- Callers, MaxConns <- 3, MaxResets <- 1, Impatient <- FALSE

InitAny ==
  \/ instance = "timeouts" /\ Init
  \/ instance = "lost" /\ Lost!Init

\* With timeouts, only the first of two connections is lost.
SecondStays == link[2] = "up" => link'[2] = "up"

NextAny ==
  \/ instance = "timeouts" /\ Next /\ SecondStays /\ UNCHANGED instance
  \/ instance = "lost" /\ Lost!Next /\ UNCHANGED instance

Fair(A) == instance = "timeouts" /\ A /\ UNCHANGED instance

SpecAny ==
  /\ InitAny
  /\ [][NextAny]_allVars
  /\ \A k \in Callers : SF_allVars(Fair(CallStep(k)))
  /\ \A c \in Conns : WF_allVars(Fair(WriterStep(c))) /\ WF_allVars(Fair(ReaderDrains(c)))

\* Every call ends, whatever the connection and the daemon do.
CallsEndInTime == instance = "timeouts" => CallsEnd
================================================================================
