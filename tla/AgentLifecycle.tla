--------------------------- MODULE AgentLifecycle ---------------------------
(***************************************************************************)
(* The agent and tool registries, the circuit breaker, the kill switch and *)
(* what they are meant to stop: new runs of a quarantined version, and the *)
(* credentials it holds (go/internal/store/agent_registry.go,              *)
(* tool_registry.go, go/internal/api/registry_handlers.go,                 *)
(* circuit_breaker_handlers.go, run_controller_handlers.go).               *)
(*                                                                         *)
(* A request is one process; each statement it sends to Postgres and each  *)
(* call of the breaker or the broker is one step of it.  The registry is   *)
(* keyed by tenant and version, the breaker and the leases by version      *)
(* alone.  Three services answer them, each with its own memory: the       *)
(* control plane has the breaker, the tool gateway has the leases, the run *)
(* controller has neither.                                                 *)
(***************************************************************************)
EXTENDS CircuitBreaker, SecretBroker

CONSTANTS
    Procs,             \* concurrent requests
    Tenants, Versions, \* a version stands for name@version
    Observations,      \* outcomes that may be reported: [success, cost]
    Descriptors,       \* tool descriptors that may be sent
    Registered,        \* what may be registered before: [Tenants \X Versions -> lifecycle]
    BrokerAttached,    \* CircuitBreakerHandlers.Secrets is not nil: never so in aeon-controlplane
    MaxRequests,       \* bound on the requests, all together
    MaxFaults          \* bound on the statements that fail and on restarts

\* A version is never the empty owner that RevokeAllForOwner ignores.
ASSUME OwnersAssumption == NoOwner \notin Versions
ASSUME ProcsAssumption == IsFiniteSet(Procs)

Lifecycles == {"absent", "Draft", "Candidate", "Released", "Retired"}
ASSUME RegisteredAssumption == Registered \subseteq [Tenants \X Versions -> Lifecycles]

Agents == Tenants \X Versions
TenantOf(a) == a[1]
VersionOf(a) == a[2]

VARIABLES
    agents,    \* the agents table: [lifecycle, quarantined]
    tools,     \* the tools table
    breaker,   \* Versions -> [window, tripped]
    leases,    \* the broker's leases: [ref, owner, expired, late]
    procs,
    runs,      \* agents whose start was let through while quarantined, since it was
    requests, faults,
    gated,     \* agents a release gate has let pass
    unsettled  \* versions whose quarantine was refused or failed since the last reset

vars == <<agents, tools, breaker, leases, procs, runs, requests, faults, gated, unsettled>>

Idle == [pc |-> "idle", agent |-> <<>>, target |-> "none"]
At(pc, a, target) == [pc |-> pc, agent |-> a, target |-> target]

Init ==
    /\ \E before \in Registered :
        /\ agents = [a \in Agents |-> [lifecycle |-> before[a], quarantined |-> FALSE]]
        /\ gated = {a \in Agents : before[a] \in {"Released", "Retired"}}
    /\ tools = {} /\ leases = {}
    /\ breaker = [v \in Versions |-> Closed]
    /\ procs = [p \in Procs |-> Idle]
    /\ runs = [a \in Agents |-> 0]
    /\ requests = 0 /\ faults = 0
    /\ unsettled = {}

Arrives(p) == procs[p].pc = "idle" /\ requests < MaxRequests /\ requests' = requests + 1
Goes(p, next) == procs' = [procs EXCEPT ![p] = next]
Exists(a) == agents[a].lifecycle # "absent"

-----------------------------------------------------------------------------
(* The registries. *)

\* The INSERT of an agent that is there already is a conflict.
CreateAgent(p, a) ==
    /\ Arrives(p) /\ ~Exists(a)
    /\ agents' = [agents EXCEPT ![a] = [lifecycle |-> "Draft", quarantined |-> FALSE]]
    /\ UNCHANGED <<tools, breaker, leases, procs, runs, faults, gated, unsettled>>

\* validateToolDescriptor: a tool with side effects says how it dedupes.
DescriptorIsValid(d) ==
    /\ d.named
    /\ d.sideEffect \in {"NONE", "READ_ONLY", "WRITE_REVERSIBLE", "WRITE_IRREVERSIBLE"}
    /\ d.risk \in {"LOW", "MEDIUM", "HIGH", "CRITICAL"}
    /\ d.sideEffect \in {"NONE", "READ_ONLY"} \/ d.keyFields
CreateTool(p, t, d) ==
    /\ Arrives(p) /\ DescriptorIsValid(d)
    /\ ~ \E row \in tools : row.tenant = t /\ row.tool = d.tool
    /\ tools' = tools \cup {[tenant |-> t, tool |-> d.tool]}
    /\ UNCHANGED <<agents, breaker, leases, procs, runs, faults, gated, unsettled>>

ValidTransition(from) ==
    CASE from = "Draft" -> "Candidate"
      [] from = "Candidate" -> "Released"
      [] from = "Released" -> "Retired"
      [] OTHER -> "none"

\* Mutant of GateBlocks: the gate is asked of the wrong step.
GateBlocksRetiring(from, target, allowed) == from = "Released" /\ target = "Retired" /\ ~allowed
GateBlocks(from, target, allowed) == from = "Candidate" /\ target = "Released" /\ ~allowed

\* TransitionLifecycle reads and validates...
TransitionReads(p, a, target, allowed) ==
    /\ Arrives(p) /\ Exists(a)
    /\ target = ValidTransition(agents[a].lifecycle)
    /\ ~GateBlocks(agents[a].lifecycle, target, allowed)
    /\ Goes(p, At("transition", a, target))
    /\ gated' = gated \cup (IF target = "Released" /\ allowed THEN {a} ELSE {})
    /\ UNCHANGED <<agents, tools, breaker, leases, runs, faults, unsettled>>

\* ...and then writes, whatever the row holds by now.
TransitionWrites(p) ==
    /\ procs[p].pc = "transition"
    /\ agents' = [agents EXCEPT ![procs[p].agent].lifecycle = procs[p].target]
    /\ Goes(p, Idle)
    /\ UNCHANGED <<tools, breaker, leases, runs, requests, faults, gated, unsettled>>

-----------------------------------------------------------------------------
(* Outcomes, the kill switch, and the way back. *)

ReportOutcome(p, a, obs) ==
    /\ Arrives(p)
    /\ LET b == RecordOutcome(breaker[VersionOf(a)], obs)
       IN  /\ breaker' = [breaker EXCEPT ![VersionOf(a)] = b]
           /\ Goes(p, IF b.tripped THEN At("apply", a, "none") ELSE Idle)
    /\ UNCHANGED <<agents, tools, leases, runs, faults, gated, unsettled>>

KillSwitch(p, a) ==
    /\ Arrives(p)
    /\ Goes(p, At("apply", a, "none"))
    /\ UNCHANGED <<agents, tools, breaker, leases, runs, faults, gated, unsettled>>

\* Quarantine reads: only a Released version has a quarantine.
QuarantineReads(p) ==
    /\ procs[p].pc = "apply"
    /\ LET a == procs[p].agent
       IN  IF agents[a].lifecycle = "Released"
           THEN Goes(p, [procs[p] EXCEPT !.pc = "quarantine"]) /\ UNCHANGED unsettled
           ELSE Goes(p, Idle) /\ unsettled' = unsettled \cup {VersionOf(a)}
    /\ UNCHANGED <<agents, tools, breaker, leases, runs, requests, faults, gated>>

QuarantineWrites(p) ==
    /\ procs[p].pc = "quarantine"
    /\ agents' = [agents EXCEPT ![procs[p].agent].quarantined = TRUE]
    /\ runs' = [runs EXCEPT ![procs[p].agent] = IF agents[procs[p].agent].quarantined THEN @ ELSE 0]
    /\ Goes(p, [procs[p] EXCEPT !.pc = "revoke"])
    /\ UNCHANGED <<tools, breaker, leases, requests, faults, gated, unsettled>>

\* The trailing read of the row, and the leases of the version if there is a broker.
RevokesLeases(p) ==
    /\ procs[p].pc = "revoke"
    /\ leases' = IF BrokerAttached THEN RevokeAllForOwner(leases, VersionOf(procs[p].agent)) ELSE leases
    /\ Goes(p, Idle)
    /\ UNCHANGED <<agents, tools, breaker, runs, requests, faults, gated, unsettled>>

\* Unquarantine clears the registry, then resets the breaker.
\* Mutant of UnquarantineOrder: the other way round.
UnquarantineOrderSwapped == <<"breaker", "registry">>
UnquarantineOrder == <<"registry", "breaker">>
Lifts(a, what) ==
    \/ /\ what = "registry"
       /\ agents' = [agents EXCEPT ![a].quarantined = FALSE]
       /\ UNCHANGED <<breaker, unsettled>>
    \/ /\ what = "breaker"
       /\ breaker' = [breaker EXCEPT ![VersionOf(a)] = Closed]
       /\ unsettled' = unsettled \ {VersionOf(a)}
       /\ UNCHANGED agents
Unquarantine(p, a) ==
    /\ Arrives(p) /\ Exists(a)
    /\ Lifts(a, UnquarantineOrder[1])
    /\ Goes(p, At("reset", a, "none"))
    /\ UNCHANGED <<tools, leases, runs, faults, gated>>
ResetsBreaker(p) ==
    /\ procs[p].pc = "reset"
    /\ Lifts(procs[p].agent, UnquarantineOrder[2])
    /\ Goes(p, Idle)
    /\ UNCHANGED <<tools, leases, runs, requests, faults, gated>>

-----------------------------------------------------------------------------
(* What a quarantine stops. *)

\* Mutant of CheckNotQuarantined: only a retired version is refused.
CheckNotRetired(a) == agents[a].lifecycle # "Retired"
\* checkNotQuarantined, before the run is started: an unknown agent passes, and
\* so does one whose row could not be read.
CheckNotQuarantined(a) == ~agents[a].quarantined
StartReads(p, a) ==
    /\ Arrives(p)
    /\ \/ CheckNotQuarantined(a) /\ UNCHANGED faults
       \/ ~CheckNotQuarantined(a) /\ faults < MaxFaults /\ faults' = faults + 1
    /\ Goes(p, At("start", a, "none"))
    /\ UNCHANGED <<agents, tools, breaker, leases, runs, gated, unsettled>>
StartRun(p) ==
    /\ procs[p].pc = "start"
    /\ runs' = [runs EXCEPT ![procs[p].agent] = IF agents[procs[p].agent].quarantined THEN @ + 1 ELSE @]
    /\ Goes(p, Idle)
    /\ UNCHANGED <<agents, tools, breaker, leases, requests, faults, gated, unsettled>>

Lease(ref, owner, late) == [ref |-> ref, owner |-> owner, expired |-> FALSE, late |-> late]

\* forward: the credential of a delegation is leased to the delegating version,
\* resolved, and revoked when the call has returned.
IssueForOwner(p, a, name) ==
    /\ Arrives(p) /\ name \in Held
    /\ leases' = leases \cup
                  {Lease(p, VersionOf(a), \E t \in Tenants : agents[<<t, VersionOf(a)>>].quarantined)}
    /\ Goes(p, At("resolve", a, "none"))
    /\ UNCHANGED <<agents, tools, breaker, runs, faults, gated, unsettled>>
ForwardResolves(p) ==
    /\ procs[p].pc = "resolve"
    /\ IF Resolvable(leases, p)
       THEN Goes(p, [procs[p] EXCEPT !.pc = "forward"]) /\ UNCHANGED leases
       ELSE Goes(p, Idle) /\ leases' = Revoke(leases, p)
    /\ UNCHANGED <<agents, tools, breaker, runs, requests, faults, gated, unsettled>>
ForwardEnds(p) ==
    /\ procs[p].pc = "forward"
    /\ leases' = Revoke(leases, p)
    /\ Goes(p, Idle)
    /\ UNCHANGED <<agents, tools, breaker, runs, requests, faults, gated, unsettled>>

\* POST /secrets/issue tags nobody, and secrets.whoami resolves what it is given.
IssuePlain(p, name) ==
    /\ Arrives(p) /\ name \in Held
    /\ leases' = leases \cup {Lease("plain", NoOwner, FALSE)}
    /\ UNCHANGED <<agents, tools, breaker, procs, runs, faults, gated, unsettled>>
Whoami(p) ==
    /\ Arrives(p)
    /\ leases' = AfterResolve(leases, "plain")
    /\ UNCHANGED <<agents, tools, breaker, procs, runs, faults, gated, unsettled>>

-----------------------------------------------------------------------------
(* Faults. *)

\* A statement fails, the trailing read of Quarantine and Unquarantine included:
\* the request ends there, with what it has done done.  After a quarantine that
\* was written, applyQuarantine returns before it has revoked anything.
StatementFails(p) ==
    /\ procs[p].pc \in {"transition", "apply", "quarantine", "revoke", "reset"} /\ faults < MaxFaults
    /\ faults' = faults + 1
    /\ Goes(p, Idle)
    /\ unsettled' = IF procs[p].pc \in {"transition", "revoke"} THEN unsettled
                    ELSE unsettled \cup {VersionOf(procs[p].agent)}
    /\ UNCHANGED <<agents, tools, breaker, leases, runs, requests, gated>>

\* A service restarts: the requests it was answering are gone, and what it kept
\* in memory, which is the breaker of the one and the leases of the other.
Drops(pcs) == procs' = [p \in Procs |-> IF procs[p].pc \in pcs THEN Idle ELSE procs[p]]
Restarts == faults < MaxFaults /\ faults' = faults + 1 /\ UNCHANGED <<agents, tools, runs, requests, gated>>
RestartControlPlane ==
    /\ Restarts /\ Drops({"transition", "apply", "quarantine", "revoke", "reset"})
    /\ breaker' = [v \in Versions |-> Closed] /\ unsettled' = {}
    /\ UNCHANGED leases
RestartToolGateway ==
    /\ Restarts /\ Drops({"resolve", "forward"})
    /\ leases' = {}
    /\ UNCHANGED <<breaker, unsettled>>
RestartRunController ==
    /\ Restarts /\ Drops({"start"})
    /\ UNCHANGED <<breaker, leases, unsettled>>
Restart == RestartControlPlane \/ RestartToolGateway \/ RestartRunController

LeaseExpires(l) ==
    /\ ~l.expired
    /\ leases' = (leases \ {l}) \cup {[l EXCEPT !.expired = TRUE]}
    /\ UNCHANGED <<agents, tools, breaker, procs, runs, requests, faults, gated, unsettled>>

-----------------------------------------------------------------------------
Step(p) ==
    \/ TransitionWrites(p) \/ QuarantineReads(p) \/ QuarantineWrites(p) \/ RevokesLeases(p)
    \/ ResetsBreaker(p) \/ StartRun(p) \/ ForwardResolves(p) \/ ForwardEnds(p) \/ StatementFails(p)
Request(p) ==
    \/ \E a \in Agents :
        \/ CreateAgent(p, a) \/ KillSwitch(p, a) \/ Unquarantine(p, a) \/ StartReads(p, a)
        \/ \E target \in {"Candidate", "Released", "Retired"}, allowed \in BOOLEAN :
            TransitionReads(p, a, target, allowed)
        \/ \E obs \in Observations : ReportOutcome(p, a, obs)
        \/ \E name \in SecretNames : IssueForOwner(p, a, name)
    \/ Whoami(p) \/ \E name \in SecretNames : IssuePlain(p, name)
    \/ \E t \in Tenants, d \in Descriptors : CreateTool(p, t, d)
Next == (\E p \in Procs : Step(p) \/ Request(p)) \/ Restart \/ (\E l \in leases : LeaseExpires(l))

Spec == Init /\ [][Next]_vars

-----------------------------------------------------------------------------
(* Properties. *)

\* The type invariant.
TypeOK ==
    /\ \A a \in Agents : agents[a] \in [lifecycle : Lifecycles, quarantined : BOOLEAN]
    /\ \A v \in Versions : Len(breaker[v].window) <= WindowSize /\ breaker[v].tripped \in BOOLEAN
    /\ requests \in 0..MaxRequests /\ faults \in 0..MaxFaults

\* The release gate cannot be walked around: however two transitions race, a
\* version that is Released, Retired or quarantined has had a gate's consent.
OnlyGatedIsReleased ==
    \A a \in Agents :
        agents[a].lifecycle \in {"Released", "Retired"} \/ agents[a].quarantined => a \in gated

\* A verdict reaches the registry: some tenant's row is quarantined, or a request
\* is about to write it or to reset the breaker, unless the write was refused
\* or failed.  It is why Unquarantine clears the registry first.
Concerns(p, v, pcs) == procs[p].pc \in pcs /\ VersionOf(procs[p].agent) = v
TripIsApplied ==
    \A v \in Versions \ unsettled : breaker[v].tripped =>
        \/ \E a \in Agents : VersionOf(a) = v /\ agents[a].quarantined
        \/ \E p \in Procs : Concerns(p, v, {"apply", "quarantine", "reset"})

\* The credential of a delegation ends with the call it was leased for, however the
\* call ends (forward's deferred Revoke): with no broker attached to the kill
\* switch, this is all that takes a quarantined version's credentials away.
LeasesEndWithTheirCall ==
    \A l \in leases : l.owner # NoOwner =>
        l.ref \in Procs /\ Concerns(l.ref, l.owner, {"resolve", "forward"})

\* "RevokeAllForOwner - the kill switch - covers a credential handed to a remote agent"
\* (a2a_egress_handlers.go:30): once the row says quarantined,
\* what the version held before is gone or about to go.  It is not so: no broker is
\* attached, and with one a failed trailing read or a restart comes in between.
KillSwitchCutsLeases ==
    \A a \in Agents : agents[a].quarantined =>
        \A l \in leases : l.owner = VersionOf(a) /\ ~l.late =>
            \E p \in Procs : Concerns(p, VersionOf(a), {"revoke"})

\* "A quarantined version is refused here": what still starts after the row was
\* written is at most what was past the check, or was let through unread.
LateStartsAreInFlight == \A a \in Agents : runs[a] <= Cardinality(Procs) + faults

\* TransitionLifecycle's comment (agent_registry.go:141): "skipping a state,
\* moving backward ... returns ErrInvalidTransition".
MovesForward ==
    [][\A a \in Agents : agents'[a].lifecycle # agents[a].lifecycle /\ Exists(a) =>
        agents'[a].lifecycle = ValidTransition(agents[a].lifecycle)]_vars
=============================================================================
