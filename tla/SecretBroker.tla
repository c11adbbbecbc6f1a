---------------------------- MODULE SecretBroker ----------------------------
(***************************************************************************)
(* The leases of go/internal/secrets/broker.go and the reading of a secret *)
(* from the environment (go/internal/secretref/secretref.go).  The leases  *)
(* are a set of records; every operation of the broker holds its mutex.    *)
(***************************************************************************)
EXTENDS Integers, FiniteSets

CONSTANTS
    SecretNames,
    Environment   \* name -> [direct : BOOLEAN, file : {"unset", "missing", "empty", "value"}]

\* secretref.read: two sources are an error, and so is a file that is not
\* there or holds nothing.
Read(name) ==
    LET env == Environment[name]
    IN  CASE env.direct /\ env.file # "unset" -> "error"
          [] env.file \in {"missing", "empty"} -> "error"
          [] ~env.direct /\ env.file = "value" -> "file"
          [] env.direct /\ env.file = "unset" -> "env"
          [] OTHER -> "absent"

\* NewBrokerFromEnv: one error and there is no broker; an absent secret is left out.
ASSUME BrokerStarts == \A name \in SecretNames : Read(name) # "error"
Held == {name \in SecretNames : Read(name) \in {"env", "file"}}

NoOwner == "none"

\* What is left once the kill switch took the leases of an owner.
RevokeAllForOwner(leases, owner) ==
    IF owner = NoOwner THEN leases ELSE {l \in leases : l.owner # owner}

Revoke(leases, ref) == {l \in leases : l.ref # ref}

\* Resolve: an unknown lease, and one that expired, which is dropped on the way.
Resolvable(leases, ref) == \E l \in leases : l.ref = ref /\ ~l.expired
AfterResolve(leases, ref) == {l \in leases : l.ref # ref \/ ~l.expired}
=============================================================================
