------------------------- MODULE MCAgentLifecycle -------------------------
(***************************************************************************)
(* One version that two tenants registered: one of them has released it.   *)
(***************************************************************************)
EXTENDS AgentLifecycle

CONSTANTS t1, t2, v1

RegisteredBefore ==
    {(<<t1, v1>> :> l) @@ (<<t2, v1>> :> "Released") : l \in {"absent", "Candidate"}}
SomeObservations == {[success |-> FALSE, cost |-> Unpriced], [success |-> TRUE, cost |-> 0],
                     [success |-> TRUE, cost |-> 9]}
Tool(name, sideEffect, keyFields) ==
    [tool |-> name, named |-> TRUE, sideEffect |-> sideEffect, risk |-> "LOW", keyFields |-> keyFields]
SomeDescriptors == {Tool("mail", "WRITE_IRREVERSIBLE", TRUE), Tool("wipe", "WRITE_IRREVERSIBLE", FALSE)}
OneSecret == ("token" :> [direct |-> FALSE, file |-> "value"]) @@ ("gone" :> [direct |-> FALSE, file |-> "unset"])

Symmetry == Permutations(Procs)
=============================================================================
