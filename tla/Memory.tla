------------------------------- MODULE Memory -------------------------------
(***************************************************************************)
(* Long-term memory (go/internal/store/memory_store.go, memory_pipeline.go,*)
(* memory_forgetting.go, memory_security.go, go/internal/api/              *)
(* memory_handlers.go): a candidate is quarantined, validated and promoted *)
(* to ACTIVE, each by a request of its own; an ACTIVE record is used,      *)
(* superseded, revoked or pruned; a record whose provenance no longer      *)
(* verifies is revoked from any status.  Every operation reads the record  *)
(* and then updates it by its id alone, in two statements.  Superseding,   *)
(* use and pruning are operations of the store that no route offers.       *)
(***************************************************************************)
EXTENDS Tenancy

CONSTANTS
    Procs,         \* concurrent requests, on any replica
    Tenants,       \* the names a tenant may have
    Directories,   \* the directories of callers a service may be started on
    Scores,        \* utility_score a candidate may be written with, in halves
    HalfLife,      \* halfLifeDays, in steps of Ages
    Threshold,     \* Prune's threshold, in halves
    MaxMemories,   \* bound on the records
    MaxAge,        \* bound on the age of a record since its last use
    MaxRequests,   \* bound on the requests, all together
    MaxFaults      \* bound on statements that fail and processes that die

ASSUME ScoresAssumption == Scores \subseteq Nat /\ Threshold \in Nat /\ HalfLife \in Int

VARIABLES
    callers,     \* the callers that the service has loaded
    mem,         \* memory_records, in the order of their creation
    procs,
    severed,     \* history: the records a Supersede retired and then failed to give an heir
    requests, faults

vars == <<callers, mem, procs, severed, requests, faults>>

None == 0
Pipeline == {"quarantine", "validate", "promote", "reject"}
PostActive == {"revoke", "supersede", "prune"}

-----------------------------------------------------------------------------
(* The rules. *)

\* Where each operation moves a record, and from where it may.
Target(op) ==
    CASE op = "quarantine" -> "QUARANTINED"
      [] op = "validate" -> "VALIDATED"
      [] op = "promote" -> "ACTIVE"
      [] op = "supersede" -> "SUPERSEDED"
      [] OTHER -> "REVOKED"

\* memoryValidTransitions and memoryPostActiveTransitions.
ValidTransitions ==
    { <<"CANDIDATE", "QUARANTINED">>, <<"CANDIDATE", "REVOKED">>,
      <<"QUARANTINED", "VALIDATED">>, <<"QUARANTINED", "REVOKED">>,
      <<"VALIDATED", "ACTIVE">>, <<"VALIDATED", "REVOKED">> }
PostActiveTransitions == { <<"ACTIVE", "SUPERSEDED">>, <<"ACTIVE", "REVOKED">> }

\* Mutant of MayMove: a rejected candidate may go through the pipeline again.
MayMoveAgain(op, status) ==
    \/ op = "quarantine" /\ status = "REVOKED"
    \/ <<status, Target(op)>> \in IF op \in Pipeline THEN ValidTransitions ELSE PostActiveTransitions
MayMove(op, status) ==
    <<status, Target(op)>> \in IF op \in Pipeline THEN ValidTransitions ELSE PostActiveTransitions

\* Mutant of Gated: the decision is asked for when validating alone.
GatedOnce(op, allowed) == op = "validate" => allowed
\* ValidationDecision and PromotionDecision.
Gated(op, allowed) == op \in {"validate", "promote"} => allowed

\* Create takes a record that is valid and not yet past the quarantine;
\* WriteCandidate, the route, overrides the status.
Creatable(status) == status \in {"CANDIDATE", "QUARANTINED"}
Candidate(status) == "CANDIDATE"

\* ownedByCaller: another tenant's record does not exist.
Owned(id, tenant) == mem[id].tenant = tenant

\* RecordUsage, in halves: a success is worth 1.0 and a failure costs 0.5.
ScoreAfter(score, success) ==
    LET moved == IF success THEN score + 2 ELSE score - 1 IN IF moved < 0 THEN 0 ELSE moved

\* DecayedUtility below the threshold: the score halves every HalfLife.
Decayed(score, age) ==
    IF HalfLife <= 0 \/ age <= 0 THEN score < Threshold ELSE score < Threshold * 2^(age \div HalfLife)

\* ListActive, newest first.
Active(tenant) ==
    SelectSeq(Reverse([i \in 1..Len(mem) |-> i]),
              LAMBDA i : mem[i].status = "ACTIVE" /\ mem[i].tenant = tenant /\ ~mem[i].expired)

-----------------------------------------------------------------------------
\* seen is history: the status a transition was judged by.
Idle == [pc |-> "idle", op |-> "none", id |-> None, seen |-> "none", tenant |-> "none", allowed |-> FALSE,
         score |-> 0, success |-> FALSE, heir |-> None, todo |-> <<>>, pruned |-> {}]

Init ==
    /\ callers \in {Range(Merged(dir)) : dir \in {d \in Directories : LoadDirAccepts(d, Tenants)}}
    /\ mem = <<>>
    /\ procs = [p \in Procs |-> Idle] /\ severed = {}
    /\ requests = 0 /\ faults = 0

Goes(p, next) == procs' = [procs EXCEPT ![p] = next]
Arrives(p) == procs[p].pc = "idle" /\ requests < MaxRequests /\ requests' = requests + 1

\* A new record.  by and passed are history: who wrote it, and the gates it went
\* through at the request of its own tenant.
Fresh(tenant, status, score, by) ==
    [status |-> status, tenant |-> tenant, score |-> score, age |-> 0, expired |-> FALSE,
     tampered |-> FALSE, heir |-> None, by |-> by, passed |-> {}]

Create(p, tenant, status, score, by) ==
    /\ Arrives(p) /\ Len(mem) < MaxMemories /\ Creatable(status)
    /\ mem' = Append(mem, Fresh(tenant, status, score, by))
    /\ UNCHANGED <<callers, severed, procs, faults>>

\* The one route a worker calls, and the one that takes the tenant of a run.
WriteCandidate(p, caller, header, supplied, status, score) ==
    \E tenant \in EffectiveTenant(caller, header) :
        /\ ~RejectRequestTenant(supplied, tenant)
        /\ Create(p, tenant, Candidate(status), score, caller.id)

-----------------------------------------------------------------------------
(* transitionStatus: the read and the rule, then the write. *)

\* The four routes of the pipeline and revoke.  The handler's own read of the
\* tenant, which never changes, is taken together with the read of the status.
TransitionReads(p, op, id, tenant, allowed) ==
    /\ Arrives(p)
    /\ IF Owned(id, tenant) /\ Gated(op, allowed) /\ MayMove(op, mem[id].status)
       THEN Goes(p, [Idle EXCEPT !.pc = "write", !.op = op, !.id = id, !.tenant = tenant,
                                 !.seen = mem[id].status, !.allowed = allowed])
       ELSE UNCHANGED procs
    /\ UNCHANGED <<callers, severed, mem, faults>>

\* The heir is whatever id the caller gave; None is one that no record has.
SupersedeReads(p, id, heir) ==
    /\ Arrives(p) /\ MayMove("supersede", mem[id].status)
    /\ Goes(p, [Idle EXCEPT !.pc = "write", !.op = "supersede", !.id = id, !.tenant = mem[id].tenant,
                            !.seen = mem[id].status, !.heir = heir])
    /\ UNCHANGED <<callers, severed, mem, faults>>

\* What follows the UPDATE: superseded_by for Supersede, the next record for Prune.
\* Mutant of AfterWrite: the heir is never written.
AfterWriteForgets(c) ==
    IF c.op = "prune" THEN [c EXCEPT !.pc = "prune", !.todo = Tail(@), !.pruned = @ \cup {c.id}] ELSE Idle
AfterWrite(c) ==
    CASE c.op = "supersede" -> [c EXCEPT !.pc = "heir"]
      [] c.op = "prune" -> [c EXCEPT !.pc = "prune", !.todo = Tail(@), !.pruned = @ \cup {c.id}]
      [] OTHER -> Idle

\* The UPDATE names the record and not the status it was read with.
TransitionWrites(p) ==
    LET c == procs[p] IN
    /\ c.pc = "write"
    /\ mem' = [mem EXCEPT ![c.id].status = Target(c.op),
                          ![c.id].passed = IF c.allowed /\ Owned(c.id, c.tenant) THEN @ \cup {c.op} ELSE @]
    /\ Goes(p, AfterWrite(c))
    /\ UNCHANGED <<callers, severed, requests, faults>>

SupersedeNames(p) ==
    /\ procs[p].pc = "heir" /\ procs[p].heir # None
    /\ mem' = [mem EXCEPT ![procs[p].id].heir = procs[p].heir]
    /\ Goes(p, Idle)
    /\ UNCHANGED <<callers, severed, requests, faults>>

\* superseded_by refers to memory_records: the id of no record is refused, after
\* the record has been retired.
SupersedeRefused(p) ==
    /\ procs[p].pc = "heir" /\ procs[p].heir = None
    /\ severed' = severed \cup {procs[p].id}
    /\ Goes(p, Idle)
    /\ UNCHANGED <<callers, mem, requests, faults>>

-----------------------------------------------------------------------------
(* Use, forgetting and repair. *)

UsageReads(p, id, success) ==
    /\ Arrives(p) /\ mem[id].status = "ACTIVE"
    /\ Goes(p, [Idle EXCEPT !.pc = "usage", !.id = id, !.score = ScoreAfter(mem[id].score, success),
                            !.success = success])
    /\ UNCHANGED <<callers, severed, mem, faults>>
UsageWrites(p) ==
    LET c == procs[p] IN
    /\ c.pc = "usage"
    /\ mem' = [mem EXCEPT ![c.id].score = c.score, ![c.id].age = 0]
    /\ Goes(p, Idle)
    /\ UNCHANGED <<callers, severed, requests, faults>>

\* Prune judges every record by one listing.
PruneLists(p, tenant) ==
    /\ Arrives(p)
    /\ Goes(p, [Idle EXCEPT !.pc = "prune", !.op = "prune", !.tenant = tenant,
                    !.todo = SelectSeq(Active(tenant), LAMBDA i : Decayed(mem[i].score, mem[i].age))])
    /\ UNCHANGED <<callers, severed, mem, faults>>
\* A record that is no longer ACTIVE ends it with an error, and with no list of
\* what it has revoked so far.
PruneReads(p) ==
    LET c == procs[p] IN
    /\ c.pc = "prune"
    /\ Goes(p, IF c.todo = <<>> THEN Idle
               ELSE IF MayMove("prune", mem[Head(c.todo)].status)
               THEN [c EXCEPT !.pc = "write", !.id = Head(c.todo), !.seen = mem[Head(c.todo)].status]
               ELSE [Idle EXCEPT !.pc = "failed", !.pruned = c.pruned])
    /\ UNCHANGED <<callers, severed, mem, requests, faults>>
PruneFails(p) ==
    /\ procs[p].pc = "failed"
    /\ Goes(p, Idle)
    /\ UNCHANGED <<callers, severed, mem, requests, faults>>

\* RepairIfTampered: a record that verifies is left alone.
RepairReads(p, id, tenant) ==
    /\ Arrives(p) /\ Owned(id, tenant) /\ mem[id].tampered
    /\ Goes(p, [Idle EXCEPT !.pc = "repair", !.id = id])
    /\ UNCHANGED <<callers, severed, mem, faults>>
\* emergencyRevoke: from any status.
RepairWrites(p) ==
    /\ procs[p].pc = "repair"
    /\ mem' = [mem EXCEPT ![procs[p].id].status = "REVOKED"]
    /\ Goes(p, Idle)
    /\ UNCHANGED <<callers, severed, requests, faults>>

-----------------------------------------------------------------------------
(* Time and faults. *)

AgePasses ==
    /\ \E i \in DOMAIN mem : mem[i].status = "ACTIVE" /\ mem[i].age < MaxAge
    /\ mem' = [i \in DOMAIN mem |->
                IF mem[i].age < MaxAge THEN [mem[i] EXCEPT !.age = @ + 1] ELSE mem[i]]
    /\ UNCHANGED <<callers, severed, procs, requests, faults>>
Expires(i) ==
    /\ ~mem[i].expired /\ mem[i].status = "ACTIVE"
    /\ mem' = [mem EXCEPT ![i].expired = TRUE]
    /\ UNCHANGED <<callers, severed, procs, requests, faults>>
\* The content is changed by something other than the store.
Tampered(i) ==
    /\ ~mem[i].tampered /\ faults < MaxFaults /\ faults' = faults + 1
    /\ mem' = [mem EXCEPT ![i].tampered = TRUE]
    /\ UNCHANGED <<callers, severed, procs, requests>>
\* A statement fails, or the process dies between two.
StatementFails(p) ==
    /\ procs[p].pc # "idle" /\ faults < MaxFaults
    /\ faults' = faults + 1
    /\ severed' = IF procs[p].pc = "heir" THEN severed \cup {procs[p].id} ELSE severed
    /\ Goes(p, IF procs[p].op = "prune" THEN [Idle EXCEPT !.pc = "failed", !.pruned = procs[p].pruned]
               ELSE Idle)
    /\ UNCHANGED <<callers, mem, requests>>

-----------------------------------------------------------------------------
Statuses == {"CANDIDATE", "QUARANTINED", "VALIDATED", "ACTIVE", "SUPERSEDED", "REVOKED"}
Tokens == {c.token : c \in callers} \cup {Absent}
Writes(p, caller) ==
    \E header, supplied \in Tenants \cup {Absent}, score \in Scores, status \in {"CANDIDATE", "ACTIVE"} :
        WriteCandidate(p, caller, header, supplied, status, score)
Route(p, id, caller) ==
    \/ RepairReads(p, id, caller.tenant)
    \/ \E op \in Pipeline \cup {"revoke"}, allowed \in BOOLEAN :
        TransitionReads(p, op, id, caller.tenant, allowed)
Library(p, id) ==
    \/ \E heir \in DOMAIN mem \cup {None} : SupersedeReads(p, id, heir)
    \/ \E success \in BOOLEAN : UsageReads(p, id, success)
Step(p) ==
    \/ TransitionWrites(p) \/ SupersedeNames(p) \/ SupersedeRefused(p) \/ UsageWrites(p)
    \/ PruneReads(p) \/ PruneFails(p) \/ RepairWrites(p) \/ StatementFails(p)
Next ==
    \/ \E p \in Procs :
        \/ Step(p)
        \/ \E token \in Tokens : \E caller \in Authenticate(callers, token) :
            Writes(p, caller) \/ \E id \in DOMAIN mem : Route(p, id, caller)
        \/ \E id \in DOMAIN mem : Library(p, id)
        \/ \E tenant \in Tenants : PruneLists(p, tenant)
    \/ AgePasses
    \/ \E i \in DOMAIN mem : Expires(i) \/ Tampered(i)

Spec == Init /\ [][Next]_vars

-----------------------------------------------------------------------------
(* Properties. *)

\* The type invariant.
TypeOK ==
    /\ \A i \in DOMAIN mem : mem[i].status \in Statuses /\ mem[i].heir \in {None} \cup DOMAIN mem
    /\ \A p \in Procs : procs[p].id \in {None} \cup DOMAIN mem
    /\ requests \in 0..MaxRequests /\ faults \in 0..MaxFaults

\* "Reaching ACTIVE always passes through VALIDATED first": however requests
\* interleave, a record that is or was ACTIVE was validated and promoted by
\* decisions that allowed it, both from callers of its own tenant.
ActiveIsEarned ==
    \A i \in DOMAIN mem :
        mem[i].status \in {"ACTIVE", "SUPERSEDED"} => {"validate", "promote"} \subseteq mem[i].passed

\* Nobody writes into the memory of a tenant but its own callers and a service
\* that the file of its own tenant lets act for it.
WrittenForItsTenant ==
    \A i \in DOMAIN mem : \E c \in callers :
        /\ c.id = mem[i].by
        /\ \/ c.tenant = mem[i].tenant
           \/ c.kind = "service" /\ \E k \in DOMAIN c.mayActFor : c.mayActFor[k] = mem[i].tenant

\* Some request holds a decision it made before the record was revoked.
Pending(i) ==
    \E p \in Procs : procs[p].id = i /\ procs[p].pc = "write" /\ procs[p].seen # "REVOKED"

\* A revocation is undone at most by a request that had read the record before
\* it: once no such request is under way it is final.
RevokedIsFinalWhenQuiet ==
    [][\A i \in DOMAIN mem :
        mem[i].status = "REVOKED" /\ ~Pending(i) => mem'[i].status = "REVOKED"]_vars

\* A superseded record names what replaced it, whatever else fails and whoever else
\* retires it: only a record whose own Supersede is between its two statements, or
\* ended there with an error, names nothing.
SupersededNamesItsHeir ==
    \A i \in DOMAIN mem : mem[i].status = "SUPERSEDED" =>
        \/ mem[i].heir # None
        \/ i \in severed
        \/ \E p \in Procs : procs[p].pc = "heir" /\ procs[p].id = i

\* memory_pipeline.go:9 says that moving backward is rejected, and
\* memory_security.go:36 that a finding of tampering is "actionable from ANY
\* status": a record that was revoked stays revoked.
RevokedStaysRevoked ==
    [][\A i \in DOMAIN mem : mem[i].status = "REVOKED" => mem'[i].status = "REVOKED"]_vars

\* Prune's comment (memory_forgetting.go:98): it returns what it pruned, so that
\* it can be audited, "no silent pruning".  A Prune that fails returns nothing.
NoSilentPruning == \A p \in Procs : procs[p].pc = "failed" => procs[p].pruned = {}

\* RecordUsage's comment (memory_forgetting.go:21): "every time a memory is
\* actually used, its recorded outcome moves the score".
EveryUseCounts ==
    [][\A p \in Procs : procs[p].pc = "usage" /\ procs'[p].pc = "idle" /\ faults' = faults =>
        mem'[procs[p].id].score = ScoreAfter(mem[procs[p].id].score, procs[p].success)]_vars
=============================================================================
