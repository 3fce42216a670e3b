---------------------------- MODULE MCCoordination ----------------------------
(* Two stores by which agents are coordinated, each under a lock of its own,  *)
(* in one run: the claims of threads on resources, and the bindings of the    *)
(* agents a thread spawns.  A behaviour is of the instance its first state    *)
(* picks.                                                                     *)
EXTENDS TaskCoordination, ExecutionBindings, TLC

VARIABLE instance
allVars == <<vars, bindingVars, instance>>

File(name) == [kind |-> "file", key |-> name]
Dir(name)  == [kind |-> "directory", key |-> name]

\* A file, the directory it is in, the one above, and a logical resource.
Tree == {File(<<"src", "core", "x">>), Dir(<<"src", "core">>), Dir(<<"src">>),
         [kind |-> "logical", key |-> <<"release">>]}

\* What was approved for two calls: one of them again, with another model and a later
\* stamp, the other one by a plan that is not current.
Pair(m, e) == [model |-> m, effort |-> e]
Approval(c, e, now, current) ==
  [call |-> c, expected |-> e, current |-> current, at |-> now, until |-> now + 2]
Approvals == {Approval(1, Pair("a", "x"), 1, TRUE), Approval(1, Pair("b", "x"), 2, TRUE),
              Approval(2, Pair("a", "x"), 2, FALSE)}

\* What was seen of the first: in part, in full, differently, from a foreign sender.
Sight(c, a, now, own) == [call |-> c, actual |-> a, own |-> own, at |-> now]
Sights == {Sight(1, Pair("a", None), 1, TRUE), Sight(1, Pair("a", "x"), 2, TRUE),
           Sight(1, Pair("b", None), 3, TRUE), Sight(1, Pair(None, None), 1, FALSE)}

Allowed == {Pair("a", "x")}

NoBindings  == [records |-> {}]
AnyBindings == [records : SUBSET Records]

InitAny == Init /\ BindingsInit /\ instance \in {"claims", "bindings"}

NextAny ==
  \/ instance = "claims" /\ Next /\ UNCHANGED <<bindingVars, instance>>
  \/ instance = "bindings" /\ BindingsNext /\ UNCHANGED <<vars, instance>>

SpecAny == InitAny /\ [][NextAny]_allVars

Symmetric == Permutations(Owners)
===============================================================================
