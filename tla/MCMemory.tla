------------------------------ MODULE MCMemory ------------------------------
(***************************************************************************)
(* Two requests at a time, two records, and the callers of two tenants: a  *)
(* person of one and a worker of the other, which may act for the first.   *)
(* The other directories must not be loaded.                               *)
(***************************************************************************)
EXTENDS Memory, TLC

Symmetric == Permutations(Procs)

Declares(id, kind, tenant, mayActFor) ==
    [id |-> id, kind |-> kind, token |-> id, tenant |-> tenant, mayActFor |-> mayActFor]
Ana == Declares("ana", "human", "acme", <<>>)
Worker == Declares("worker", "service", "globex", <<"globex", "acme">>)
SomeDirectories ==
    { [t \in {"acme", "globex"} |-> IF t = "acme" THEN <<Ana>> ELSE <<Worker>>],
      \* A person that speaks for another tenant.
      [t \in {"acme", "globex"} |-> <<Declares(t, "human", t, <<"acme">>)>>],
      \* A token two callers share, and a caller in another tenant's file.
      [t \in {"acme", "globex"} |->
        IF t = "acme" THEN <<Ana>> ELSE <<[Worker EXCEPT !.token = "ana"]>>],
      [t \in {"globex"} |-> <<Ana>>] }
=============================================================================
