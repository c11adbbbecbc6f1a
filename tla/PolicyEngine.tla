---------------------------- MODULE PolicyEngine ----------------------------
(***************************************************************************)
(* The policy engine (go/internal/policy/): bundles of Cedar policies, one *)
(* file for each tenant, loaded or refused as a whole when a gateway       *)
(* starts, and the decision and disposition they give a request.  Cedar    *)
(* itself is external: a policy matches a set of requests, a forbid that   *)
(* matches wins, and nothing is permitted by default.                      *)
(***************************************************************************)
EXTENDS Integers, Sequences, FiniteSets, FiniteSetsExt, SequencesExt

\* A bundle is a sequence of entries [id, effect, disposition, source], where
\* effect and disposition are what the entry declares ("" for nothing) and
\* source is the sequence of its Cedar policies, each [effect, matches].
Undeclared == ""

Strictness == [allow |-> 0, require_approval |-> 1, deny_step |-> 2, terminate_run |-> 3]
Valid(disposition) == disposition \in DOMAIN Strictness
PermitsExecution(disposition) == disposition = "allow"
\* Mutant of Stricter: the comparison the wrong way round.
Milder(a, b) == IF Strictness[b] < Strictness[a] THEN b ELSE a
Stricter(a, b) == IF Strictness[b] > Strictness[a] THEN b ELSE a
DerivedDisposition(allowed) == IF allowed THEN "allow" ELSE "deny_step"

\* An entry may not declare what contradicts the effect it declares.
ValidDeclared(effect, disposition) ==
    disposition # Undeclared =>
        /\ Valid(disposition)
        /\ effect = "forbid" => disposition \notin {"allow", "require_approval"}
        /\ effect = "permit" => disposition \notin {"deny_step", "terminate_run"}

-----------------------------------------------------------------------------
(* Loading. *)

\* The ids under which the policies of an entry are added to the set: the id of
\* the entry, or one with a suffix for each when there are several.
IdsOf(entry) ==
    [n \in DOMAIN entry.source |-> IF Len(entry.source) = 1 THEN <<entry.id>> ELSE <<entry.id, n>>]

UniqueIds(bundle) ==
    \A i, j \in DOMAIN bundle :
        i # j => Range(IdsOf(bundle[i])) \cap Range(IdsOf(bundle[j])) = {}

LoadEngineAccepts(bundle) ==
    /\ bundle # <<>>
    /\ \A i \in DOMAIN bundle :
        /\ bundle[i].id # ""
        /\ ValidDeclared(bundle[i].effect, bundle[i].disposition)
        /\ bundle[i].source # <<>>
    /\ UniqueIds(bundle)

\* The policies of an entry, each with what the entry declares.
PoliciesOf(entry) ==
    {[id |-> IdsOf(entry)[n], effect |-> entry.source[n].effect,
      matches |-> entry.source[n].matches, disposition |-> entry.disposition] :
        n \in DOMAIN entry.source}

\* The policy set, keyed by id: adding one under an id that is there replaces it.
LoadEngine(bundle) ==
    LET Replaced(i, id) == \E j \in DOMAIN bundle : i < j /\ id \in Range(IdsOf(bundle[j]))
    IN  UNION {{p \in PoliciesOf(bundle[i]) : ~Replaced(i, p.id)} : i \in DOMAIN bundle}

\* A directory of bundles, tenant -> bundle, is loaded whole or not at all.
LoadSetAccepts(dir) ==
    DOMAIN dir # {} /\ \A tenant \in DOMAIN dir : LoadEngineAccepts(dir[tenant])

-----------------------------------------------------------------------------
(* Deciding. *)

\* Cedar: the policies that determine the decision.
Matching(engine, request, effect) ==
    {p \in engine : p.effect = effect /\ request \in p.matches}
CedarAllows(engine, request) ==
    Matching(engine, request, "forbid") = {} /\ Matching(engine, request, "permit") # {}
Reasons(engine, request) ==
    LET forbids == Matching(engine, request, "forbid")
    IN  IF forbids # {} THEN forbids ELSE Matching(engine, request, "permit")

\* The dispositions the determining policies declare.
Declared(reasons) == {p.disposition : p \in reasons} \ {Undeclared}

\* The strictest of them, and of what the decision itself means, wins.
Strictest(dispositions) ==
    CHOOSE d \in dispositions : \A e \in dispositions : Stricter(d, e) = d
DispositionOf(engine, request) ==
    Strictest({DerivedDisposition(CedarAllows(engine, request))}
              \cup Declared(Reasons(engine, request)))

IsAllowed(engine, request) ==
    CedarAllows(engine, request) /\ PermitsExecution(DispositionOf(engine, request))

\* IsAllowedToDelegate: a remote agent is no tool, whatever it is called.
IsAllowedToDelegate(engine, agent, id) ==
    IsAllowed(engine, <<agent, "RemoteAgent", id>>)
=============================================================================
