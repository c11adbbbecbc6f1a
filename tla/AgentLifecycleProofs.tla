------------------------ MODULE AgentLifecycleProofs ------------------------
(***************************************************************************)
(* Proofs about the registry, the circuit breaker and the kill switch for  *)
(* any number of tenants, versions and concurrent requests, with every     *)
(* failed statement and restart of module AgentLifecycle.                  *)
(***************************************************************************)
EXTENDS AgentLifecycle, FiniteSetTheorems, TLAPS

-----------------------------------------------------------------------------
(* The types. *)

\* Where a request can be, and what it carries; what the broker keeps of a lease.
Locations == {"idle", "transition", "apply", "quarantine", "revoke", "reset", "start",
              "resolve", "forward"}
Proc == [pc : Locations, agent : Agents \cup {<<>>}, target : Lifecycles \cup {"none"}]
LeaseRow == [ref : Procs \cup {"plain"}, owner : Versions \cup {NoOwner}, expired : BOOLEAN,
             late : BOOLEAN]

\* A request that is under way is about an agent, and only one that was read is
\* moved or quarantined.
Shape ==
    /\ agents \in [Agents -> [lifecycle : Lifecycles, quarantined : BOOLEAN]]
    /\ DOMAIN breaker = Versions
    /\ procs \in [Procs -> Proc]
    /\ \A p \in Procs :
        /\ procs[p].pc # "idle" => procs[p].agent \in Agents
        /\ procs[p].pc = "transition" => procs[p].target \in {"Candidate", "Released", "Retired"}
    /\ leases \subseteq LeaseRow
    /\ runs \in [Agents -> Nat] /\ faults \in Nat

\* Unquarantine clears the registry, then resets the breaker.
LEMMA LiftOrder == UnquarantineOrder[1] = "registry" /\ UnquarantineOrder[2] = "breaker"
  BY DEF UnquarantineOrder

\* A new lease is a lease.
LEMMA NewLease ==
  ASSUME NEW ref \in Procs \cup {"plain"}, NEW owner \in Versions \cup {NoOwner}, NEW late \in BOOLEAN
  PROVE  Lease(ref, owner, late) \in LeaseRow
  BY DEF Lease, LeaseRow

\* Whatever an earlier process left in the registry has the shape.
LEMMA ShapeInit == Init => Shape
  BY RegisteredAssumption DEF Init, Shape, Agents, Idle, Proc, Locations

\* Every step keeps the shape; one step of the proof per action.
LEMMA ShapeNext == Shape /\ [Next]_vars => Shape'
<1> SUFFICES ASSUME Shape, [Next]_vars PROVE Shape'
  OBVIOUS
<1> USE DEF Shape, Goes, Arrives, Idle, At, Proc, Locations
<1>1. CASE UNCHANGED vars
  BY <1>1 DEF vars
<1>2. ASSUME NEW p \in Procs, NEW a \in Agents, CreateAgent(p, a) PROVE Shape'
  BY <1>2 DEF CreateAgent, Lifecycles
<1>3. ASSUME NEW p \in Procs, NEW a \in Agents, KillSwitch(p, a) \/ StartReads(p, a)
      PROVE  Shape'
  BY <1>3, SMTT(30) DEF KillSwitch, StartReads
<1>4. ASSUME NEW p \in Procs, NEW a \in Agents, Unquarantine(p, a) PROVE Shape'
  BY <1>4, LiftOrder, ZenonT(30) DEF Unquarantine, Lifts
<1>5. ASSUME NEW p \in Procs, NEW a \in Agents, NEW allowed \in BOOLEAN,
             NEW target \in {"Candidate", "Released", "Retired"}, TransitionReads(p, a, target, allowed)
      PROVE  Shape'
  BY <1>5 DEF TransitionReads, Lifecycles
<1>6. ASSUME NEW p \in Procs, NEW a \in Agents, NEW obs \in Observations, ReportOutcome(p, a, obs)
      PROVE  Shape'
  BY <1>6 DEF ReportOutcome
<1>7. ASSUME NEW p \in Procs, NEW a \in Agents, NEW name \in SecretNames, IssueForOwner(p, a, name)
      PROVE  Shape'
  <2> DEFINE late == \E t \in Tenants : agents[<<t, VersionOf(a)>>].quarantined
  <2>1. late \in BOOLEAN /\ VersionOf(a) \in Versions
    BY DEF VersionOf, Agents
  <2>2. leases' = leases \cup {Lease(p, VersionOf(a), late)}
    BY <1>7 DEF IssueForOwner
  <2> HIDE DEF late
  <2>3. leases' \subseteq LeaseRow
    BY <2>1, <2>2, NewLease
  <2> QED BY <1>7, <2>3 DEF IssueForOwner
<1>8. ASSUME NEW p \in Procs, NEW name \in SecretNames, IssuePlain(p, name) PROVE Shape'
  <2>1. Lease("plain", NoOwner, FALSE) \in LeaseRow
    BY DEF Lease, LeaseRow
  <2>2. leases' \subseteq LeaseRow
    BY <1>8, <2>1 DEF IssuePlain
  <2> QED BY <1>8, <2>2 DEF IssuePlain
<1>9. ASSUME NEW p \in Procs, Whoami(p) PROVE Shape'
  BY <1>9 DEF Whoami, AfterResolve
<1>10. ASSUME NEW p \in Procs, NEW t \in Tenants, NEW d \in Descriptors,
              CreateTool(p, t, d)
       PROVE  Shape'
  BY <1>10 DEF CreateTool
<1>11. ASSUME NEW p \in Procs, TransitionWrites(p) PROVE Shape'
  BY <1>11 DEF TransitionWrites, Lifecycles
<1>12. ASSUME NEW p \in Procs, QuarantineReads(p) PROVE Shape'
  <2>1. procs' = [procs EXCEPT ![p] = Idle] \/ procs' = [procs EXCEPT ![p].pc = "quarantine"]
    BY <1>12 DEF QuarantineReads
  <2>2. procs[p].pc = "apply" /\ UNCHANGED <<agents, breaker, leases, runs, faults>>
    BY <1>12 DEF QuarantineReads
  <2>3. procs' \in [Procs -> Proc]
    BY <2>1, SMTT(30)
  <2>4. \A q \in Procs : /\ procs'[q].pc # "idle" => procs'[q].agent \in Agents
                         /\ procs'[q].pc = "transition" => procs'[q] = procs[q]
    BY <2>1, <2>2, SMTT(30)
  <2> QED BY <2>2, <2>3, <2>4
<1>13. ASSUME NEW p \in Procs, QuarantineWrites(p) PROVE Shape'
  BY <1>13 DEF QuarantineWrites
<1>14. ASSUME NEW p \in Procs, RevokesLeases(p) PROVE Shape'
  BY <1>14 DEF RevokesLeases, RevokeAllForOwner
<1>15. ASSUME NEW p \in Procs, ResetsBreaker(p) PROVE Shape'
  BY <1>15 DEF ResetsBreaker, Lifts, UnquarantineOrder
<1>16. ASSUME NEW p \in Procs, StartRun(p) PROVE Shape'
  BY <1>16 DEF StartRun
<1>17. ASSUME NEW p \in Procs, ForwardResolves(p) \/ ForwardEnds(p) PROVE Shape'
  <2>1. /\ procs' = [procs EXCEPT ![p] = Idle] \/ procs' = [procs EXCEPT ![p].pc = "forward"]
        /\ procs[p].pc # "idle" /\ leases' \subseteq leases
    BY <1>17 DEF ForwardResolves, ForwardEnds, Revoke
  <2> QED BY <1>17, <2>1, SMTT(30) DEF ForwardResolves, ForwardEnds
<1>18. ASSUME NEW p \in Procs, StatementFails(p) PROVE Shape'
  BY <1>18 DEF StatementFails
<1>19. CASE Restart
  BY <1>19 DEF Restart, RestartControlPlane, RestartToolGateway, RestartRunController,
     Restarts, Drops
<1>20. ASSUME NEW l \in leases, LeaseExpires(l) PROVE Shape'
  BY <1>20 DEF LeaseExpires, LeaseRow
<1> HIDE DEF Shape, Goes, Arrives, Idle, At, Proc, Locations
<1>21. ASSUME NEW p \in Procs, Request(p) PROVE Shape'
  BY <1>2, <1>3, <1>4, <1>5, <1>6, <1>7, <1>8, <1>9, <1>10, <1>21 DEF Request
<1>22. ASSUME NEW p \in Procs, Step(p) PROVE Shape'
  BY <1>11, <1>12, <1>13, <1>14, <1>15, <1>16, <1>17, <1>18, <1>22 DEF Step
<1> QED BY <1>1, <1>19, <1>20, <1>21, <1>22 DEF Next

-----------------------------------------------------------------------------
(* The release gate. *)

\* Who is about to write a lifecycle or a quarantine has read a row that the
\* gate had let pass.
GatedBeforeWritten ==
    /\ OnlyGatedIsReleased
    /\ \A a \in Agents : agents[a].quarantined => Exists(a)
    /\ \A p \in Procs :
        /\ procs[p].pc \in {"transition", "quarantine"} => Exists(procs[p].agent)
        /\ procs[p].pc = "transition" /\ procs[p].target \in {"Released", "Retired"}
            => procs[p].agent \in gated
        /\ procs[p].pc = "quarantine" => procs[p].agent \in gated

\* Only TransitionReads lets a version past the gate, and every write that needs the
\* gate comes after such a read; gated itself never shrinks.
LEMMA GatedNext == Shape /\ GatedBeforeWritten /\ [Next]_vars => GatedBeforeWritten'
<1> SUFFICES ASSUME Shape, GatedBeforeWritten, [Next]_vars PROVE GatedBeforeWritten'
  OBVIOUS
<1> USE DEF Shape, GatedBeforeWritten, OnlyGatedIsReleased, Exists, Goes, Arrives, Idle, At, Proc
<1>1. CASE UNCHANGED vars
  BY <1>1 DEF vars
<1>2. ASSUME NEW p \in Procs, NEW a \in Agents, CreateAgent(p, a) PROVE GatedBeforeWritten'
  BY <1>2 DEF CreateAgent
<1>3. ASSUME NEW p \in Procs, NEW a \in Agents, KillSwitch(p, a) \/ StartReads(p, a)
      PROVE  GatedBeforeWritten'
  <2>1. /\ UNCHANGED <<agents, gated>>
        /\ \E pc \in {"apply", "start"} : procs' = [procs EXCEPT ![p] = At(pc, a, "none")]
    BY <1>3 DEF KillSwitch, StartReads
  <2> QED BY <2>1
<1>4. ASSUME NEW p \in Procs, NEW a \in Agents, Unquarantine(p, a) PROVE GatedBeforeWritten'
  <2>1. /\ UNCHANGED gated /\ procs' = [procs EXCEPT ![p] = At("reset", a, "none")]
        /\ agents' = [agents EXCEPT ![a].quarantined = FALSE]
    BY <1>4, LiftOrder DEF Unquarantine, Lifts
  <2>2. \A b \in Agents : /\ agents'[b].lifecycle = agents[b].lifecycle
                          /\ agents'[b].quarantined => agents[b].quarantined
    BY <2>1
  <2> QED BY <2>1, <2>2
<1>5. ASSUME NEW p \in Procs, NEW a \in Agents, NEW allowed \in BOOLEAN,
             NEW target \in {"Candidate", "Released", "Retired"},
             TransitionReads(p, a, target, allowed)
      PROVE  GatedBeforeWritten'
  BY <1>5 DEF TransitionReads, GateBlocks, ValidTransition, Lifecycles
<1>6. ASSUME NEW p \in Procs, NEW a \in Agents, NEW obs \in Observations,
             ReportOutcome(p, a, obs)
      PROVE  GatedBeforeWritten'
  BY <1>6 DEF ReportOutcome
<1>7. ASSUME NEW p \in Procs, NEW a \in Agents, NEW name \in SecretNames,
             IssueForOwner(p, a, name)
      PROVE  GatedBeforeWritten'
  BY <1>7 DEF IssueForOwner
<1>8. ASSUME NEW p \in Procs, NEW name \in SecretNames, IssuePlain(p, name)
      PROVE  GatedBeforeWritten'
  BY <1>8 DEF IssuePlain
<1>9. ASSUME NEW p \in Procs, Whoami(p) PROVE GatedBeforeWritten'
  BY <1>9 DEF Whoami
<1>10. ASSUME NEW p \in Procs, NEW t \in Tenants, NEW d \in Descriptors,
              CreateTool(p, t, d)
       PROVE  GatedBeforeWritten'
  BY <1>10 DEF CreateTool
<1>11. ASSUME NEW p \in Procs, TransitionWrites(p) PROVE GatedBeforeWritten'
  BY <1>11 DEF TransitionWrites
<1>12. ASSUME NEW p \in Procs, QuarantineReads(p) PROVE GatedBeforeWritten'
  BY <1>12 DEF QuarantineReads
<1>13. ASSUME NEW p \in Procs, QuarantineWrites(p) PROVE GatedBeforeWritten'
  BY <1>13 DEF QuarantineWrites
<1>14. ASSUME NEW p \in Procs, RevokesLeases(p) PROVE GatedBeforeWritten'
  BY <1>14 DEF RevokesLeases
<1>15. ASSUME NEW p \in Procs, ResetsBreaker(p) PROVE GatedBeforeWritten'
  BY <1>15, LiftOrder DEF ResetsBreaker, Lifts
<1>16. ASSUME NEW p \in Procs, StartRun(p) PROVE GatedBeforeWritten'
  BY <1>16 DEF StartRun
<1>17. ASSUME NEW p \in Procs, ForwardResolves(p) \/ ForwardEnds(p)
       PROVE  GatedBeforeWritten'
  BY <1>17, SMTT(30) DEF ForwardResolves, ForwardEnds
<1>18. ASSUME NEW p \in Procs, StatementFails(p) PROVE GatedBeforeWritten'
  BY <1>18 DEF StatementFails
<1>19. CASE Restart
  BY <1>19 DEF Restart, RestartControlPlane, RestartToolGateway, RestartRunController,
     Restarts, Drops
<1>20. ASSUME NEW l \in leases, LeaseExpires(l) PROVE GatedBeforeWritten'
  BY <1>20 DEF LeaseExpires
<1> HIDE DEF Shape, GatedBeforeWritten, OnlyGatedIsReleased, Exists, Goes, Arrives, Idle, At, Proc
<1>21. ASSUME NEW p \in Procs, Request(p) PROVE GatedBeforeWritten'
  BY <1>2, <1>3, <1>4, <1>5, <1>6, <1>7, <1>8, <1>9, <1>10, <1>21 DEF Request
<1>22. ASSUME NEW p \in Procs, Step(p) PROVE GatedBeforeWritten'
  BY <1>11, <1>12, <1>13, <1>14, <1>15, <1>16, <1>17, <1>18, <1>22 DEF Step
<1> QED BY <1>1, <1>19, <1>20, <1>21, <1>22 DEF Next

-----------------------------------------------------------------------------
(* The verdict. *)

\* A breaker opens together with the request that will write the quarantine, and
\* that request ends by writing it, or refused or failed, and then the version is
\* noted as unsettled.
LEMMA TripNext == GatedBeforeWritten /\ Shape /\ TripIsApplied /\ [Next]_vars => TripIsApplied'
<1> SUFFICES ASSUME GatedBeforeWritten, Shape, TripIsApplied, [Next]_vars PROVE TripIsApplied'
  OBVIOUS
<1> USE DEF Shape, TripIsApplied, Concerns, Goes, Arrives, Idle, At, Proc
<1>1. CASE UNCHANGED vars
  BY <1>1 DEF vars
<1>2. ASSUME NEW p \in Procs, NEW a \in Agents, CreateAgent(p, a) PROVE TripIsApplied'
  BY <1>2 DEF CreateAgent, GatedBeforeWritten, Exists
<1>3. ASSUME NEW p \in Procs, NEW a \in Agents, KillSwitch(p, a) \/ StartReads(p, a)
      PROVE  TripIsApplied'
  BY <1>3 DEF KillSwitch, StartReads
<1>4. ASSUME NEW p \in Procs, NEW a \in Agents, Unquarantine(p, a) PROVE TripIsApplied'
  BY <1>4, LiftOrder DEF Unquarantine, Lifts
<1>5. ASSUME NEW p \in Procs, NEW a \in Agents, NEW allowed \in BOOLEAN,
             NEW target \in {"Candidate", "Released", "Retired"},
             TransitionReads(p, a, target, allowed)
      PROVE  TripIsApplied'
  BY <1>5 DEF TransitionReads, GateBlocks, ValidTransition, Lifecycles
<1>6. ASSUME NEW p \in Procs, NEW a \in Agents, NEW obs \in Observations,
             ReportOutcome(p, a, obs)
      PROVE  TripIsApplied'
  BY <1>6 DEF ReportOutcome
<1>7. ASSUME NEW p \in Procs, NEW a \in Agents, NEW name \in SecretNames,
             IssueForOwner(p, a, name)
      PROVE  TripIsApplied'
  BY <1>7 DEF IssueForOwner
<1>8. ASSUME NEW p \in Procs, NEW name \in SecretNames, IssuePlain(p, name)
      PROVE  TripIsApplied'
  BY <1>8 DEF IssuePlain
<1>9. ASSUME NEW p \in Procs, Whoami(p) PROVE TripIsApplied'
  BY <1>9 DEF Whoami
<1>10. ASSUME NEW p \in Procs, NEW t \in Tenants, NEW d \in Descriptors,
              CreateTool(p, t, d)
       PROVE  TripIsApplied'
  BY <1>10 DEF CreateTool
<1>11. ASSUME NEW p \in Procs, TransitionWrites(p) PROVE TripIsApplied'
  <2>1. \A b \in Agents : agents'[b].quarantined = agents[b].quarantined
    BY <1>11 DEF TransitionWrites
  <2> QED BY <1>11, <2>1, ZenonT(40) DEF TransitionWrites
<1>12. ASSUME NEW p \in Procs, QuarantineReads(p) PROVE TripIsApplied'
  <2>1. CASE agents[procs[p].agent].lifecycle = "Released"
    <3>1. /\ procs[p].pc = "apply" /\ procs' = [procs EXCEPT ![p].pc = "quarantine"]
          /\ UNCHANGED <<agents, breaker, unsettled>>
      BY <1>12, <2>1 DEF QuarantineReads
    <3>2. \A q \in Procs, v \in Versions :
            Concerns(q, v, {"apply", "quarantine", "reset"}) => Concerns(q, v, {"apply", "quarantine", "reset"})'
      BY <3>1
    <3> QED BY <3>1, <3>2
  <2>2. CASE agents[procs[p].agent].lifecycle # "Released"
    <3>1. /\ procs' = [procs EXCEPT ![p] = Idle] /\ unsettled' = unsettled \cup {VersionOf(procs[p].agent)}
          /\ UNCHANGED <<agents, breaker>>
      BY <1>12, <2>2 DEF QuarantineReads
    <3>2. \A q \in Procs, v \in Versions \ unsettled' :
            Concerns(q, v, {"apply", "quarantine", "reset"}) => Concerns(q, v, {"apply", "quarantine", "reset"})'
      BY <3>1
    <3> QED BY <3>1, <3>2
  <2> QED BY <2>1, <2>2
<1>13. ASSUME NEW p \in Procs, QuarantineWrites(p) PROVE TripIsApplied'
  <2>1. /\ procs[p].pc = "quarantine" /\ procs' = [procs EXCEPT ![p].pc = "revoke"]
        /\ agents' = [agents EXCEPT ![procs[p].agent].quarantined = TRUE]
        /\ UNCHANGED <<breaker, unsettled>>
    BY <1>13 DEF QuarantineWrites
  <2>2. \A a \in Agents : agents[a].quarantined \/ a = procs[p].agent => agents'[a].quarantined
    BY <2>1
  <2>3. \A q \in Procs \ {p}, v \in Versions :
          Concerns(q, v, {"apply", "quarantine", "reset"}) => Concerns(q, v, {"apply", "quarantine", "reset"})'
    BY <2>1
  <2> QED BY <2>1, <2>2, <2>3, ZenonT(30)
<1>14. ASSUME NEW p \in Procs, RevokesLeases(p) PROVE TripIsApplied'
  BY <1>14 DEF RevokesLeases
<1>15. ASSUME NEW p \in Procs, ResetsBreaker(p) PROVE TripIsApplied'
  <2> DEFINE w == VersionOf(procs[p].agent)
  <2>1. /\ procs[p].pc = "reset" /\ procs' = [procs EXCEPT ![p] = Idle] /\ UNCHANGED agents
        /\ breaker' = [breaker EXCEPT ![w] = Closed] /\ unsettled' = unsettled \ {w}
    BY <1>15, LiftOrder DEF ResetsBreaker, Lifts
  <2>2. w \in Versions /\ ~breaker'[w].tripped
    BY <2>1 DEF VersionOf, Agents, Closed
  <2>3. \A v \in Versions \ {w} : breaker'[v] = breaker[v]
    BY <2>1
  <2>4. \A q \in Procs, v \in Versions \ {w} :
          Concerns(q, v, {"apply", "quarantine", "reset"}) => Concerns(q, v, {"apply", "quarantine", "reset"})'
    BY <2>1
  <2> QED BY <2>1, <2>2, <2>3, <2>4
<1>16. ASSUME NEW p \in Procs, StartRun(p) PROVE TripIsApplied'
  BY <1>16 DEF StartRun
<1>17. ASSUME NEW p \in Procs, ForwardResolves(p) \/ ForwardEnds(p) PROVE TripIsApplied'
  BY <1>17, ZenonT(30) DEF ForwardResolves, ForwardEnds
<1>18. ASSUME NEW p \in Procs, StatementFails(p) PROVE TripIsApplied'
  BY <1>18 DEF StatementFails
<1>19. CASE Restart
  <2>1. CASE RestartControlPlane
    BY <2>1 DEF RestartControlPlane, Closed
  <2>2. CASE RestartToolGateway \/ RestartRunController
    <3>1. /\ UNCHANGED <<agents, breaker, unsettled>>
          /\ \A q \in Procs : procs[q].pc \in {"apply", "quarantine", "reset"} => procs'[q] = procs[q]
      BY <2>2 DEF RestartToolGateway, RestartRunController, Restarts, Drops
    <3> QED BY <3>1
  <2> QED BY <1>19, <2>1, <2>2 DEF Restart
<1>20. ASSUME NEW l \in leases, LeaseExpires(l) PROVE TripIsApplied'
  BY <1>20 DEF LeaseExpires
<1> HIDE DEF Shape, TripIsApplied, Concerns, Goes, Arrives, Idle, At, Proc
<1>21. ASSUME NEW p \in Procs, Request(p) PROVE TripIsApplied'
  BY <1>2, <1>3, <1>4, <1>5, <1>6, <1>7, <1>8, <1>9, <1>10, <1>21 DEF Request
<1>22. ASSUME NEW p \in Procs, Step(p) PROVE TripIsApplied'
  BY <1>11, <1>12, <1>13, <1>14, <1>15, <1>16, <1>17, <1>18, <1>22 DEF Step
<1> QED BY <1>1, <1>19, <1>20, <1>21, <1>22 DEF Next


-----------------------------------------------------------------------------
(* The credentials. *)

\* A lease is taken by the call that goes on to resolve it, and every way out of that
\* call revokes it; the other services' requests and restarts touch neither.
LEMMA LeasesNext ==
  ASSUME Shape, LeasesEndWithTheirCall, [Next]_vars
  PROVE  LeasesEndWithTheirCall'
<1> DEFINE InCall(p) == procs[p].pc \in {"resolve", "forward"}
           Kept(m) == \E l \in leases : l.ref = m.ref /\ l.owner = m.owner
<1>0. procs \in [Procs -> Proc] /\ leases \subseteq LeaseRow
  BY DEF Shape
\* No new lease, and whoever holds one is where it was or one step further.
<1>1. ASSUME \A m \in leases' : m.owner # NoOwner =>
                Kept(m) /\ (InCall(m.ref) => procs'[m.ref].agent = procs[m.ref].agent /\ InCall(m.ref)')
      PROVE  LeasesEndWithTheirCall'
  BY <1>1 DEF LeasesEndWithTheirCall, Concerns
<1>2. ASSUME leases' \subseteq leases, \A q \in Procs : InCall(q) => procs'[q] = procs[q]
      PROVE  LeasesEndWithTheirCall'
  BY <1>2 DEF LeasesEndWithTheirCall, Concerns
\* A request that is in no call moves on alone.
<1>3. ASSUME leases' \subseteq leases, NEW p \in Procs, ~InCall(p),
             \A q \in Procs \ {p} : procs'[q] = procs[q]
      PROVE  LeasesEndWithTheirCall'
  BY <1>2, <1>3
<1>4. ASSUME NEW p \in Procs, Request(p), leases' \subseteq leases PROVE LeasesEndWithTheirCall'
  <2>1. procs[p].pc = "idle"
    BY <1>4 DEF Request, CreateAgent, KillSwitch, Unquarantine, StartReads, TransitionReads,
       ReportOutcome, IssueForOwner, Whoami, IssuePlain, CreateTool, Arrives
  <2>2. \A q \in Procs \ {p} : procs'[q] = procs[q]
    BY <1>0, <1>4 DEF Request, CreateAgent, KillSwitch, Unquarantine, StartReads, TransitionReads,
       ReportOutcome, IssueForOwner, Whoami, IssuePlain, CreateTool, Goes
  <2> QED BY <1>3, <1>4, <2>1, <2>2
<1>5. ASSUME NEW p \in Procs, NEW a \in Agents, NEW name, IssueForOwner(p, a, name)
      PROVE  LeasesEndWithTheirCall'
  <2> DEFINE late == \E t \in Tenants : agents[<<t, VersionOf(a)>>].quarantined
             new == Lease(p, VersionOf(a), late)
  <2>1. /\ procs[p].pc = "idle" /\ procs' = [procs EXCEPT ![p] = At("resolve", a, "none")]
        /\ leases' = leases \cup {new}
    BY <1>5 DEF IssueForOwner, Arrives, Goes
  <2>2. new.ref = p /\ new.owner = VersionOf(a)
    BY DEF Lease
  <2>3. procs'[p].pc = "resolve" /\ procs'[p].agent = a /\ \A q \in Procs \ {p} : procs'[q] = procs[q]
    BY <1>0, <2>1 DEF At
  <2> HIDE DEF late, new
  <2> QED BY <2>1, <2>2, <2>3 DEF LeasesEndWithTheirCall, Concerns
<1>6. ASSUME NEW p \in Procs, NEW name, IssuePlain(p, name) PROVE LeasesEndWithTheirCall'
  <2>1. Lease("plain", NoOwner, FALSE).owner = NoOwner
    BY DEF Lease
  <2> QED BY <1>6, <2>1 DEF IssuePlain, LeasesEndWithTheirCall, Concerns
<1>7. ASSUME NEW p \in Procs, Request(p) PROVE LeasesEndWithTheirCall'
  <2>1. CASE leases' \subseteq leases
    BY <1>4, <1>7, <2>1
  <2>2. CASE ~(leases' \subseteq leases)
    <3>1. \/ \E a \in Agents, name \in SecretNames : IssueForOwner(p, a, name)
          \/ \E name \in SecretNames : IssuePlain(p, name)
      BY <1>7, <2>2 DEF Request, CreateAgent, KillSwitch, Unquarantine, StartReads, TransitionReads,
         ReportOutcome, Whoami, CreateTool, AfterResolve
    <3> QED BY <1>5, <1>6, <3>1
  <2> QED BY <2>1, <2>2
<1>8. ASSUME NEW p \in Procs, TransitionWrites(p) \/ QuarantineReads(p) \/ QuarantineWrites(p) \/ RevokesLeases(p)
                              \/ ResetsBreaker(p) \/ StartRun(p) \/ StatementFails(p)
      PROVE  LeasesEndWithTheirCall'
  <2>1. leases' \subseteq leases /\ ~InCall(p)
    BY <1>8 DEF TransitionWrites, QuarantineReads, QuarantineWrites, RevokesLeases, RevokeAllForOwner,
       ResetsBreaker, StartRun, StatementFails
  <2>2. \A q \in Procs \ {p} : procs'[q] = procs[q]
    BY <1>0, <1>8 DEF TransitionWrites, QuarantineReads, QuarantineWrites, RevokesLeases,
       ResetsBreaker, StartRun, StatementFails, Goes
  <2> QED BY <1>3, <2>1, <2>2
\* The call resolves its lease, or gives it up; it ends by giving it up.
<1>9. ASSUME NEW p \in Procs, ForwardResolves(p) \/ ForwardEnds(p) PROVE LeasesEndWithTheirCall'
  <2>1. \A q \in Procs \ {p} : procs'[q] = procs[q]
    BY <1>0, <1>9 DEF ForwardResolves, ForwardEnds, Goes
  <2>2. CASE leases' = Revoke(leases, p)
    BY <2>1, <2>2 DEF Revoke, LeasesEndWithTheirCall, Concerns
  <2>3. CASE leases' # Revoke(leases, p)
    <3>1. leases' = leases /\ procs' = [procs EXCEPT ![p] = [procs[p] EXCEPT !.pc = "forward"]]
      BY <1>9, <2>3 DEF ForwardResolves, ForwardEnds, Goes
    <3>2. procs'[p].pc = "forward" /\ procs'[p].agent = procs[p].agent
      BY <1>0, <3>1 DEF Proc
    <3> QED BY <2>1, <3>1, <3>2 DEF LeasesEndWithTheirCall, Concerns
  <2> QED BY <2>2, <2>3
<1>10. CASE Restart
  <2>1. CASE RestartToolGateway
    BY <2>1 DEF RestartToolGateway, LeasesEndWithTheirCall
  <2>2. CASE RestartControlPlane \/ RestartRunController
    <3>1. leases' = leases /\ \A q \in Procs : InCall(q) => procs'[q] = procs[q]
      BY <2>2 DEF RestartControlPlane, RestartRunController, Drops
    <3> QED BY <1>2, <3>1
  <2> QED BY <1>10, <2>1, <2>2 DEF Restart
<1>11. ASSUME NEW l \in leases, LeaseExpires(l) PROVE LeasesEndWithTheirCall'
  <2>1. [l EXCEPT !.expired = TRUE].owner = l.owner /\ [l EXCEPT !.expired = TRUE].ref = l.ref
    BY <1>0 DEF LeaseRow
  <2>2. procs' = procs /\ \A m \in leases' : Kept(m)
    BY <1>11, <2>1 DEF LeaseExpires
  <2> QED BY <1>1, <2>2
<1>12. CASE UNCHANGED vars
  BY <1>2, <1>12 DEF vars
<1> HIDE DEF InCall, Kept
<1> QED BY <1>7, <1>8, <1>9, <1>10, <1>11, <1>12 DEF Next, Step

-----------------------------------------------------------------------------
(* The runs. *)

\* The requests that are past the check and have not started their run.
Starting(a) == {p \in Procs : procs[p].pc = "start" /\ procs[p].agent = a}

\* While a version is quarantined, what has started and what will start is
\* bounded together.
StartsBounded ==
    \A a \in Agents :
        /\ runs[a] <= Cardinality(Procs) + faults
        /\ agents[a].quarantined =>
            runs[a] + Cardinality(Starting(a)) <= Cardinality(Procs) + faults

\* The requests past the check are no more than the requests there are.
LEMMA StartingCounts ==
  ASSUME NEW a
  PROVE  /\ IsFiniteSet(Starting(a)) /\ Cardinality(Starting(a)) \in Nat
         /\ Cardinality(Procs) \in Nat /\ Cardinality(Starting(a)) <= Cardinality(Procs)
<1>1. Starting(a) \in SUBSET Procs
  BY DEF Starting
<1> QED BY <1>1, ProcsAssumption, FS_Subset, FS_CardinalityType

\* The same of the next state.
LEMMA StartingCountsNext ==
  ASSUME NEW a
  PROVE  /\ IsFiniteSet(Starting(a)') /\ Cardinality(Starting(a)') \in Nat
         /\ Cardinality(Starting(a)') <= Cardinality(Procs)
<1>1. Starting(a)' \in SUBSET Procs
  BY DEF Starting
<1> QED BY <1>1, ProcsAssumption, FS_Subset, FS_CardinalityType

\* A step that starts nothing, lets nobody past the check and quarantines nothing.
LEMMA NoNewStart ==
  ASSUME Shape, StartsBounded, UNCHANGED runs, faults' \in Nat, faults' >= faults,
         \A a \in Agents : agents'[a].quarantined => agents[a].quarantined,
         \A p \in Procs : procs'[p].pc = "start" => procs'[p] = procs[p]
  PROVE  StartsBounded'
<1> SUFFICES ASSUME NEW a \in Agents
             PROVE  /\ runs[a] <= Cardinality(Procs) + faults'
                    /\ agents'[a].quarantined =>
                        runs[a] + Cardinality(Starting(a)') <= Cardinality(Procs) + faults'
  BY DEF StartsBounded
<1>1. Starting(a)' \in SUBSET Starting(a)
  BY DEF Starting
<1>2. Cardinality(Starting(a)') <= Cardinality(Starting(a))
  BY <1>1, StartingCounts, FS_Subset
<1>3. runs[a] \in Nat /\ faults \in Nat
  BY DEF Shape
<1> QED
  BY <1>2, <1>3, StartingCounts, StartingCountsNext DEF StartsBounded

\* A start uses up a request that was past the check; a request gets past the check
\* of a quarantined agent only by a read that failed.
LEMMA StartsNext == Shape /\ StartsBounded /\ [Next]_vars => StartsBounded'
<1> SUFFICES ASSUME Shape, StartsBounded, [Next]_vars PROVE StartsBounded'
  OBVIOUS
<1> USE DEF Goes, Arrives, Idle, At
<1>0. /\ DOMAIN procs = Procs /\ faults \in Nat /\ runs \in [Agents -> Nat]
      /\ agents \in [Agents -> [lifecycle : Lifecycles, quarantined : BOOLEAN]]
      /\ \A p \in Procs : DOMAIN procs[p] = {"pc", "agent", "target"}
      /\ \A p \in Procs : procs[p].pc # "idle" => procs[p].agent \in Agents
  BY DEF Shape, Proc
<1>1. CASE UNCHANGED vars
  BY <1>0, <1>1, NoNewStart DEF vars
<1>2. ASSUME NEW p \in Procs, NEW a \in Agents, CreateAgent(p, a) PROVE StartsBounded'
  BY <1>0, <1>2, NoNewStart DEF CreateAgent
<1>3. ASSUME NEW p \in Procs, NEW a \in Agents, KillSwitch(p, a) PROVE StartsBounded'
  BY <1>0, <1>3, NoNewStart DEF KillSwitch
<1>4. ASSUME NEW p \in Procs, NEW a \in Agents, Unquarantine(p, a) PROVE StartsBounded'
  <2>1. agents' = [agents EXCEPT ![a].quarantined = FALSE]
    BY <1>4, LiftOrder DEF Unquarantine, Lifts
  <2>2. \A b \in Agents : agents'[b].quarantined => agents[b].quarantined
    BY <1>0, <2>1
  <2> QED BY <1>0, <1>4, <2>2, NoNewStart DEF Unquarantine
<1>5. ASSUME NEW p \in Procs, NEW a \in Agents, NEW target, NEW allowed,
             TransitionReads(p, a, target, allowed)
      PROVE  StartsBounded'
  BY <1>0, <1>5, NoNewStart DEF TransitionReads
<1>6. ASSUME NEW p \in Procs, NEW a \in Agents, NEW obs, ReportOutcome(p, a, obs)
      PROVE  StartsBounded'
  <2>1. /\ UNCHANGED <<agents, runs, faults>>
        /\ \A q \in Procs : procs'[q].pc = "start" => procs'[q] = procs[q]
    BY <1>0, <1>6 DEF ReportOutcome
  <2> QED BY <1>0, <2>1, NoNewStart
<1>7. ASSUME NEW p \in Procs, NEW a \in Agents, NEW name, IssueForOwner(p, a, name)
      PROVE  StartsBounded'
  BY <1>0, <1>7, NoNewStart DEF IssueForOwner
<1>8. ASSUME NEW p \in Procs, NEW name, NEW t, NEW d,
             IssuePlain(p, name) \/ Whoami(p) \/ CreateTool(p, t, d)
      PROVE  StartsBounded'
  <2>1. UNCHANGED <<agents, procs, runs, faults>>
    BY <1>8 DEF IssuePlain, Whoami, CreateTool
  <2>2. \A b \in Agents : agents'[b].quarantined => agents[b].quarantined
    BY <2>1
  <2> QED BY <1>0, <2>1, <2>2, NoNewStart
<1>9. ASSUME NEW p \in Procs, TransitionWrites(p) PROVE StartsBounded'
  <2>1. \A b \in Agents : agents'[b].quarantined = agents[b].quarantined
    BY <1>0, <1>9 DEF TransitionWrites
  <2> QED BY <1>0, <1>9, <2>1, NoNewStart DEF TransitionWrites
<1>10. ASSUME NEW p \in Procs,
              QuarantineReads(p) \/ RevokesLeases(p) \/ ForwardResolves(p) \/ ForwardEnds(p)
       PROVE  StartsBounded'
  <2>1. /\ UNCHANGED <<agents, runs, faults>>
        /\ \A q \in Procs : procs'[q].pc = "start" => procs'[q] = procs[q]
    BY <1>0, <1>10 DEF QuarantineReads, RevokesLeases, ForwardResolves, ForwardEnds
  <2> QED BY <1>0, <2>1, NoNewStart
<1>11. ASSUME NEW p \in Procs, ResetsBreaker(p) \/ StatementFails(p) PROVE StartsBounded'
  <2>1. /\ UNCHANGED <<agents, runs>> /\ faults' \in Nat /\ faults' >= faults
        /\ \A q \in Procs : procs'[q].pc = "start" => procs'[q] = procs[q]
    BY <1>0, <1>11, LiftOrder DEF ResetsBreaker, StatementFails, Lifts
  <2> QED BY <1>0, <2>1, NoNewStart
<1>12. CASE Restart
  <2>1. /\ UNCHANGED <<agents, runs>> /\ faults' = faults + 1
        /\ \A q \in Procs : procs'[q].pc = "start" => procs'[q] = procs[q]
    BY <1>0, <1>12 DEF Restart, RestartControlPlane, RestartToolGateway, RestartRunController, Restarts,
       Drops, Idle
  <2> QED BY <1>0, <2>1, NoNewStart
<1>13. ASSUME NEW l, LeaseExpires(l) PROVE StartsBounded'
  BY <1>0, <1>13, NoNewStart DEF LeaseExpires
\* A quarantine that is new starts the count: at most every request is past the check.
<1>14. ASSUME NEW p \in Procs, QuarantineWrites(p) PROVE StartsBounded'
  <2> DEFINE w == procs[p].agent
  <2>1. /\ w \in Agents /\ UNCHANGED faults
        /\ \A q \in Procs : procs'[q].pc = "start" => procs'[q] = procs[q]
        /\ \A b \in Agents \ {w} : agents'[b] = agents[b] /\ runs'[b] = runs[b]
        /\ runs'[w] = IF agents[w].quarantined THEN runs[w] ELSE 0
    BY <1>0, <1>14 DEF QuarantineWrites
  <2> SUFFICES ASSUME NEW b \in Agents
               PROVE  /\ runs'[b] <= Cardinality(Procs) + faults
                      /\ agents'[b].quarantined =>
                          runs'[b] + Cardinality(Starting(b)') <= Cardinality(Procs) + faults
    BY <2>1 DEF StartsBounded
  <2>2. Starting(b)' \in SUBSET Starting(b)
    BY <2>1 DEF Starting
  <2>3. Cardinality(Starting(b)') <= Cardinality(Starting(b))
    BY <2>2, StartingCounts, FS_Subset
  <2>4. CASE b = w /\ ~agents[w].quarantined
    BY <1>0, <2>1, <2>4, StartingCounts, StartingCountsNext, SMTT(30)
  <2>5. CASE b # w \/ agents[w].quarantined
    BY <1>0, <2>1, <2>3, <2>5, StartingCounts, StartingCountsNext DEF StartsBounded
  <2> QED BY <2>4, <2>5
\* The check is passed while it is not quarantined, or at the price of a fault.
<1>15. ASSUME NEW p \in Procs, NEW a \in Agents, StartReads(p, a) PROVE StartsBounded'
  <2>1. /\ UNCHANGED <<agents, runs>> /\ faults' \in Nat /\ faults' >= faults
        /\ agents[a].quarantined => faults' = faults + 1
        /\ procs' = [procs EXCEPT ![p] = At("start", a, "none")] /\ procs[p].pc = "idle"
    BY <1>0, <1>15 DEF StartReads, CheckNotQuarantined
  <2> SUFFICES ASSUME NEW b \in Agents
               PROVE  /\ runs[b] <= Cardinality(Procs) + faults'
                      /\ agents[b].quarantined =>
                          runs[b] + Cardinality(Starting(b)') <= Cardinality(Procs) + faults'
    BY <2>1 DEF StartsBounded
  <2>2. CASE b = a
    <3>1. Starting(b)' = Starting(b) \cup {p} /\ p \notin Starting(b)
      BY <1>0, <2>1, <2>2 DEF Starting
    <3>2. Cardinality(Starting(b)') = Cardinality(Starting(b)) + 1
      BY <3>1, StartingCounts, FS_AddElement
    <3> QED BY <1>0, <2>1, <2>2, <3>2, StartingCounts DEF StartsBounded
  <2>3. CASE b # a
    <3>1. Starting(b)' = Starting(b)
      BY <1>0, <2>1, <2>3 DEF Starting
    <3> QED BY <1>0, <2>1, <3>1, StartingCounts DEF StartsBounded
  <2> QED BY <2>2, <2>3
<1>16. ASSUME NEW p \in Procs, StartRun(p) PROVE StartsBounded'
  <2> DEFINE w == procs[p].agent
  <2>1. /\ w \in Agents /\ procs[p].pc = "start" /\ UNCHANGED <<agents, faults>>
        /\ procs' = [procs EXCEPT ![p] = Idle]
        /\ \A b \in Agents \ {w} : runs'[b] = runs[b]
        /\ runs'[w] = IF agents[w].quarantined THEN runs[w] + 1 ELSE runs[w]
    BY <1>0, <1>16 DEF StartRun
  <2> SUFFICES ASSUME NEW b \in Agents
               PROVE  /\ runs'[b] <= Cardinality(Procs) + faults
                      /\ agents[b].quarantined =>
                          runs'[b] + Cardinality(Starting(b)') <= Cardinality(Procs) + faults
    BY <2>1 DEF StartsBounded
  <2>2. CASE b = w
    <3>1. Starting(b)' = Starting(b) \ {p} /\ p \in Starting(b)
      BY <1>0, <2>1, <2>2 DEF Starting
    <3>2. Cardinality(Starting(b)') = Cardinality(Starting(b)) - 1
      BY <3>1, StartingCounts, FS_RemoveElement
    <3> QED BY <1>0, <2>1, <2>2, <3>2, StartingCounts, StartingCountsNext DEF StartsBounded
  <2>3. CASE b # w
    <3>1. Starting(b)' = Starting(b)
      BY <1>0, <2>1, <2>3 DEF Starting
    <3> QED BY <1>0, <2>1, <2>3, <3>1, StartingCounts DEF StartsBounded
  <2> QED BY <2>2, <2>3
<1> QED
  BY <1>1, <1>2, <1>3, <1>4, <1>5, <1>6, <1>7, <1>8, <1>9, <1>10, <1>11, <1>12, <1>13,
     <1>14,
     <1>15, <1>16 DEF Next, Step, Request

-----------------------------------------------------------------------------
(* The theorems. *)

\* The first state: nothing is under way, nothing leased, no breaker open.
LEMMA InitInvs ==
  Init => GatedBeforeWritten /\ TripIsApplied /\ LeasesEndWithTheirCall /\ StartsBounded
<1> SUFFICES ASSUME Init
             PROVE  GatedBeforeWritten /\ TripIsApplied /\ LeasesEndWithTheirCall /\ StartsBounded
  OBVIOUS
<1>1. GatedBeforeWritten
  BY DEF Init, GatedBeforeWritten, OnlyGatedIsReleased, Idle
<1>2. TripIsApplied /\ LeasesEndWithTheirCall
  BY DEF Init, TripIsApplied, LeasesEndWithTheirCall, Closed
<1>3. StartsBounded
  BY StartingCounts, SMTT(30) DEF Init, StartsBounded
<1> QED BY <1>1, <1>2, <1>3

\* In every reachable state the registry, the breakers, the requests and the leases
\* have the shape the handlers rely on.
THEOREM ShapeInvariance == Spec => []Shape
  BY ShapeInit, ShapeNext, PTL DEF Spec

\* TransitionLifecycle and Quarantine, raced by any number of other requests: no
\* version is Released, Retired or quarantined unless the evaluation gate let it pass.
THEOREM GatesAreNotWalkedAround == Spec => []OnlyGatedIsReleased
<1>1. GatedBeforeWritten => OnlyGatedIsReleased
  BY DEF GatedBeforeWritten
<1> QED BY <1>1, InitInvs, GatedNext, ShapeInvariance, PTL DEF Spec

\* ReportOutcome: a verdict that opened the breaker has quarantined the agent, or its
\* request is still on the way, or a statement failed and the gateway logged it.
THEOREM VerdictsReachTheRegistry == Spec => []TripIsApplied
<1>1. Spec => []GatedBeforeWritten
  BY InitInvs, GatedNext, ShapeInvariance, PTL DEF Spec
<1> QED BY <1>1, InitInvs, TripNext, ShapeInvariance, PTL DEF Spec

\* forward: no credential leased for a delegation outlives the call it was leased for,
\* whatever quarantines, expiries, failures and restarts come in between.
THEOREM CredentialsEndWithTheirCall == Spec => []LeasesEndWithTheirCall
<1>1. Shape /\ LeasesEndWithTheirCall /\ [Next]_vars => LeasesEndWithTheirCall'
  BY LeasesNext
<1> QED BY <1>1, InitInvs, ShapeInvariance, PTL DEF Spec

\* CheckNotQuarantined is read before the run is started: of a quarantined agent no
\* more runs start than there were requests past the check and reads that failed.
THEOREM LateStartsAreBounded == Spec => []LateStartsAreInFlight
<1>1. StartsBounded => LateStartsAreInFlight
  BY DEF StartsBounded, LateStartsAreInFlight
<1> QED BY <1>1, InitInvs, StartsNext, ShapeInvariance, PTL DEF Spec

-----------------------------------------------------------------------------
(* Transitions that do not overlap. *)

\* Of two requests that are between the read and the write of a transition, no two
\* are about one agent.
NoOverlap ==
    \A p, q \in {r \in Procs : procs[r].pc = "transition"} :
        procs[p].agent = procs[q].agent => p = q

\* The state a transition was judged by is the state it is written to.
JudgedByItsState ==
    \A p \in Procs : procs[p].pc = "transition" =>
        /\ Exists(procs[p].agent)
        /\ procs[p].target = ValidTransition(agents[procs[p].agent].lifecycle)

\* Only a transition moves an agent that exists, and quarantines, restarts, failed
\* statements and other agents' requests do not come in between.
LEMMA JudgedNext ==
  ASSUME Shape, NoOverlap, JudgedByItsState, [Next]_vars
  PROVE  /\ JudgedByItsState'
         /\ \A a \in Agents : agents'[a].lifecycle # agents[a].lifecycle /\ Exists(a) =>
                agents'[a].lifecycle = ValidTransition(agents[a].lifecycle)
<1> DEFINE Goal == /\ JudgedByItsState'
                   /\ \A a \in Agents : agents'[a].lifecycle # agents[a].lifecycle /\ Exists(a) =>
                          agents'[a].lifecycle = ValidTransition(agents[a].lifecycle)
<1> SUFFICES Goal
  OBVIOUS
<1>0. agents \in [Agents -> [lifecycle : Lifecycles, quarantined : BOOLEAN]] /\ procs \in [Procs -> Proc]
  BY DEF Shape
<1>1. ASSUME \A a \in Agents : agents'[a].lifecycle = agents[a].lifecycle,
             \A q \in Procs : procs'[q].pc = "transition" =>
                 /\ procs'[q].agent \in Agents
                 /\ Exists(procs'[q].agent)
                 /\ procs'[q].target = ValidTransition(agents[procs'[q].agent].lifecycle)
      PROVE  Goal
  BY <1>1 DEF JudgedByItsState, Exists
<1>2. ASSUME NEW p \in Procs, NEW c, c.pc # "transition", procs' = [procs EXCEPT ![p] = c],
             \A a \in Agents : agents'[a].lifecycle = agents[a].lifecycle
      PROVE  Goal
  <2>1. ASSUME NEW q \in Procs, procs'[q].pc = "transition"
        PROVE  procs'[q] = procs[q]
    BY <1>0, <1>2, <2>1
  <2>2. \A q \in Procs : procs[q].pc = "transition" => procs[q].agent \in Agents
    BY DEF Shape
  <2> QED BY <1>1, <1>2, <2>1, <2>2 DEF JudgedByItsState
<1>3. ASSUME procs' = procs, \A a \in Agents : agents'[a].lifecycle = agents[a].lifecycle
      PROVE  Goal
  <2>1. \A q \in Procs : procs[q].pc = "transition" => procs[q].agent \in Agents
    BY DEF Shape
  <2> QED BY <1>1, <1>3, <2>1 DEF JudgedByItsState
<1>4. ASSUME NEW p \in Procs, TransitionWrites(p) PROVE Goal
  <2>1. /\ procs[p].pc = "transition" /\ procs[p].agent \in Agents
        /\ procs' = [procs EXCEPT ![p] = Idle]
        /\ agents' = [agents EXCEPT ![procs[p].agent].lifecycle = procs[p].target]
    BY <1>4 DEF TransitionWrites, Goes, Shape
  <2>2. agents'[procs[p].agent].lifecycle = ValidTransition(agents[procs[p].agent].lifecycle)
    BY <1>0, <2>1 DEF JudgedByItsState
  <2>3. ASSUME NEW a \in Agents, a # procs[p].agent PROVE agents'[a] = agents[a]
    BY <1>0, <2>1, <2>3
  <2>4. ASSUME NEW q \in Procs, procs'[q].pc = "transition"
        PROVE  /\ procs'[q] = procs[q] /\ procs[q].agent \in Agents
               /\ procs[q].agent # procs[p].agent
    <3>1. q # p
      BY <1>0, <2>1, <2>4 DEF Idle
    <3>2. procs'[q] = procs[q]
      BY <1>0, <2>1, <3>1
    <3> QED BY <2>1, <2>4, <3>1, <3>2 DEF NoOverlap, Shape
  <2>5. JudgedByItsState'
    BY <2>3, <2>4 DEF JudgedByItsState, Exists
  <2> QED BY <2>2, <2>3, <2>5
<1>5. ASSUME NEW p \in Procs, NEW a \in Agents, CreateAgent(p, a) PROVE Goal
  <2>1. procs' = procs /\ ~Exists(a) /\ \A b \in Agents \ {a} : agents'[b] = agents[b]
    BY <1>0, <1>5 DEF CreateAgent
  <2>2. \A q \in Procs : procs[q].pc = "transition" => procs[q].agent \in Agents \ {a}
    BY <2>1 DEF Shape, JudgedByItsState
  <2>3. JudgedByItsState'
    BY <2>1, <2>2 DEF JudgedByItsState, Exists
  <2> QED BY <2>1, <2>3
<1>6. ASSUME NEW p \in Procs, NEW a \in Agents, NEW target, NEW allowed,
             TransitionReads(p, a, target, allowed)
      PROVE  Goal
  <2>1. /\ procs' = [procs EXCEPT ![p] = At("transition", a, target)] /\ agents' = agents
        /\ Exists(a) /\ target = ValidTransition(agents[a].lifecycle)
    BY <1>6 DEF TransitionReads, Goes
  <2>2. \A q \in Procs : procs[q].pc = "transition" => procs[q].agent \in Agents
    BY DEF Shape
  <2> QED BY <1>0, <1>1, <2>1, <2>2 DEF At, JudgedByItsState
<1>7. ASSUME NEW p \in Procs, NEW a \in Agents, KillSwitch(p, a) \/ StartReads(p, a)
      PROVE  Goal
  <2>1. agents' = agents /\ \E pc \in {"apply", "start"} : procs' = [procs EXCEPT ![p] = At(pc, a, "none")]
    BY <1>7 DEF KillSwitch, StartReads, Goes
  <2>2. \A pc : At(pc, a, "none").pc = pc
    BY DEF At
  <2> QED BY <1>2, <2>1, <2>2
<1>8. ASSUME NEW p \in Procs, NEW a \in Agents, Unquarantine(p, a) PROVE Goal
  <2>1. procs' = [procs EXCEPT ![p] = At("reset", a, "none")]
        /\ \A b \in Agents : agents'[b].lifecycle = agents[b].lifecycle
    BY <1>0, <1>8, LiftOrder DEF Unquarantine, Lifts, Goes
  <2>2. At("reset", a, "none").pc # "transition"
    BY DEF At
  <2> QED BY <1>2, <2>1, <2>2
<1>9. ASSUME NEW p \in Procs, NEW a \in Agents, NEW obs, ReportOutcome(p, a, obs) PROVE Goal
  <2>1. agents' = agents
        /\ \E c \in {At("apply", a, "none"), Idle} : procs' = [procs EXCEPT ![p] = c]
    BY <1>9 DEF ReportOutcome, Goes
  <2>2. At("apply", a, "none").pc # "transition" /\ Idle.pc # "transition"
    BY DEF At, Idle
  <2> QED BY <1>2, <2>1, <2>2
<1>10. ASSUME NEW p \in Procs, NEW a \in Agents, NEW name, IssueForOwner(p, a, name) PROVE Goal
  <2>1. agents' = agents /\ procs' = [procs EXCEPT ![p] = At("resolve", a, "none")]
    BY <1>10 DEF IssueForOwner, Goes
  <2>2. At("resolve", a, "none").pc # "transition"
    BY DEF At
  <2> QED BY <1>2, <2>1, <2>2
<1>11. ASSUME NEW p \in Procs, Whoami(p) \/ (\E name \in SecretNames : IssuePlain(p, name))
                                \/ \E t \in Tenants, d \in Descriptors : CreateTool(p, t, d)
       PROVE  Goal
  BY <1>3, <1>11 DEF Whoami, IssuePlain, CreateTool
<1>12. ASSUME NEW p \in Procs, QuarantineReads(p) \/ ForwardResolves(p) PROVE Goal
  <2>1. agents' = agents
        /\ \E c \in {Idle, [procs[p] EXCEPT !.pc = "quarantine"], [procs[p] EXCEPT !.pc = "forward"]} :
               procs' = [procs EXCEPT ![p] = c]
    BY <1>12 DEF QuarantineReads, ForwardResolves, Goes
  <2>2. /\ Idle.pc # "transition" /\ [procs[p] EXCEPT !.pc = "quarantine"].pc # "transition"
        /\ [procs[p] EXCEPT !.pc = "forward"].pc # "transition"
    BY <1>0 DEF Idle, Proc
  <2> QED BY <1>2, <2>1, <2>2
<1>13. ASSUME NEW p \in Procs, QuarantineWrites(p) PROVE Goal
  <2>1. procs' = [procs EXCEPT ![p] = [procs[p] EXCEPT !.pc = "revoke"]]
        /\ \A b \in Agents : agents'[b].lifecycle = agents[b].lifecycle
    BY <1>0, <1>13 DEF QuarantineWrites, Goes
  <2>2. [procs[p] EXCEPT !.pc = "revoke"].pc # "transition"
    BY <1>0 DEF Proc
  <2> QED BY <1>2, <2>1, <2>2
<1>14. ASSUME NEW p \in Procs,
              RevokesLeases(p) \/ ResetsBreaker(p) \/ StartRun(p) \/ ForwardEnds(p) \/ StatementFails(p)
       PROVE  Goal
  <2>1. agents' = agents /\ procs' = [procs EXCEPT ![p] = Idle]
    BY <1>14, LiftOrder DEF RevokesLeases, ResetsBreaker, Lifts, StartRun, ForwardEnds,
       StatementFails, Goes
  <2>2. Idle.pc # "transition"
    BY DEF Idle
  <2> QED BY <1>2, <2>1, <2>2
<1>15. CASE Restart
  <2>1. agents' = agents /\ \A q \in Procs : procs'[q].pc = "transition" => procs'[q] = procs[q]
    BY <1>15 DEF Restart, RestartControlPlane, RestartToolGateway, RestartRunController, Restarts,
       Drops, Idle
  <2>2. \A q \in Procs : procs[q].pc = "transition" => procs[q].agent \in Agents
    BY DEF Shape
  <2> QED BY <1>1, <2>1, <2>2 DEF JudgedByItsState
<1>16. CASE UNCHANGED vars \/ \E l \in leases : LeaseExpires(l)
  BY <1>3, <1>16 DEF vars, LeaseExpires
<1> HIDE DEF Goal
<1> QED BY <1>4, <1>5, <1>6, <1>7, <1>8, <1>9, <1>10, <1>11, <1>12, <1>13, <1>14, <1>15, <1>16
        DEF Next, Step, Request

\* "skipping a state, moving backward ... returns ErrInvalidTransition"
\* (agent_registry.go:141) is so as long as no two transitions of one agent overlap,
\* whatever reports, quarantines, failures and restarts come between their read and
\* their write: a row lock on the read would be enough.
THEOREM SerialTransitionsMoveForward == Spec /\ []NoOverlap => MovesForward
<1>1. Init => JudgedByItsState
  BY DEF Init, JudgedByItsState, Idle
<1>2. Shape /\ NoOverlap /\ JudgedByItsState /\ [Next]_vars => JudgedByItsState'
  BY JudgedNext
<1>3. Shape /\ NoOverlap /\ JudgedByItsState /\ [Next]_vars
      => [\A a \in Agents : agents'[a].lifecycle # agents[a].lifecycle /\ Exists(a) =>
            agents'[a].lifecycle = ValidTransition(agents[a].lifecycle)]_vars
  BY JudgedNext
<1> QED BY <1>1, <1>2, <1>3, ShapeInvariance, PTL DEF Spec, MovesForward
=============================================================================
