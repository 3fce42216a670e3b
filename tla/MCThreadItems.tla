--------------------------- MODULE MCThreadItems ---------------------------
(* An instance of ThreadItems for TLC: a command with its output, which    *)
(* comes as an item and as deltas, and a message in two deltas.            *)
EXTENDS ThreadItems

CONSTANTS tool, message

MCKind  == [i \in Items |-> IF i = tool THEN "tool" ELSE "message"]
MCWords == [i \in Items |-> IF i = tool THEN <<<<1, 2>>>> ELSE <<<<3>>, <<4>>>>]
=============================================================================
