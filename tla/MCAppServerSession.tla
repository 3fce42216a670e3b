------------------------- MODULE MCAppServerSession -------------------------
(* Instances of AppServerSession for TLC. *)
EXTENDS AppServerSession, TLC

\* Calls are interchangeable, and so are the threads and the turn ids.
CallSymmetry == Permutations(Requests) \cup Permutations(Turns) \cup Permutations(Threads)
=============================================================================
