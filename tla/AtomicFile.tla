------------------------------ MODULE AtomicFile ------------------------------
(***************************************************************************)
(* What a sidecar file promises to the command that reads it and writes it *)
(* back, under the lock of its store: a write is taken as a whole or not   *)
(* at all, it is answered with success only when it was taken and with an  *)
(* error only when it was not, and nothing else changes the file, a crash  *)
(* at any moment included.                                                 *)
(***************************************************************************)
CONSTANTS Documents, Blank  \* the documents, and the one an absent file stands for

VARIABLES content,
          stage,            \* of the command under way
          target,           \* what it writes
          seen,             \* what it read
          answer            \* how the last command ended

vars == <<content, stage, target, seen, answer>>

Init ==
  /\ content = Blank /\ stage = "idle" /\ target = Blank
  /\ seen = Blank /\ answer = "none"

Read ==
  /\ stage = "idle" /\ seen' = content /\ answer' = "ok"
  /\ UNCHANGED <<content, stage, target>>

ReadFails ==
  /\ stage = "idle" /\ answer' = "error"
  /\ UNCHANGED <<content, stage, target, seen>>

Ask ==
  /\ stage = "idle" /\ stage' = "asked"
  /\ seen' = content /\ target' \in Documents
  /\ UNCHANGED <<content, answer>>

Take ==
  /\ stage = "asked" /\ stage' = "taken" /\ content' = target
  /\ UNCHANGED <<target, seen, answer>>

Confirm ==
  /\ stage = "taken" /\ stage' = "idle" /\ answer' = "ok"
  /\ UNCHANGED <<content, target, seen>>

Refuse ==
  /\ stage = "asked" /\ stage' = "idle" /\ answer' = "error"
  /\ UNCHANGED <<content, target, seen>>

Crash == stage' = "idle" /\ answer' = "none" /\ UNCHANGED <<content, target, seen>>

Next == Read \/ ReadFails \/ Ask \/ Take \/ Confirm \/ Refuse \/ Crash

Spec == Init /\ [][Next]_vars
=============================================================================
