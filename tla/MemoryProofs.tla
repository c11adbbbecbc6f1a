---------------------------- MODULE MemoryProofs ----------------------------
(***************************************************************************)
(* Proofs about long-term memory for any number of records, concurrent     *)
(* requests, tenants and callers, with every interleaving of the reads and *)
(* the writes and every failed statement of module Memory.                 *)
(***************************************************************************)
EXTENDS Memory, TLAPS

-----------------------------------------------------------------------------
(* The inductive invariant. *)

Operations == Pipeline \cup PostActive \cup {"none"}
\* A row of memory_records.
Record ==
    [status : Statuses, tenant : Tenants, score : Int, age : Int, expired : BOOLEAN,
     tampered : BOOLEAN, heir : Nat, by : {c.id : c \in callers}, passed : SUBSET Operations]

\* What is left of a process when it is idle: the fields of its state.
Fields == {"pc", "op", "id", "seen", "tenant", "allowed", "score", "success", "heir",
           "todo", "pruned"}

\* The bundle the service has loaded was valid.
CallersAreValid == \A c \in callers : ValidCaller(c, Tenants)

\* Of a process only the fields that are written back have a type: the listing of
\* Prune is a sequence of whatever the filter left.
Shape ==
    /\ mem \in Seq(Record)
    /\ DOMAIN procs = Procs
    /\ \A p \in Procs :
        /\ DOMAIN procs[p] = Fields
        /\ procs[p].op \in Operations /\ procs[p].score \in Int /\ procs[p].heir \in Nat
    /\ requests \in Nat /\ faults \in Nat

\* The gates a record has been through are those of its status.
PassedItsGates ==
    \A i \in DOMAIN mem :
        /\ mem[i].status \in {"VALIDATED", "ACTIVE", "SUPERSEDED"} => "validate" \in mem[i].passed
        /\ mem[i].status \in {"ACTIVE", "SUPERSEDED"} => "promote" \in mem[i].passed

\* The record a transition is about to be written to exists, has been through
\* the gates before the one it was judged by, and had not been revoked then.
JudgedByItsGates ==
    \A p \in Procs : procs[p].pc = "write" =>
        /\ procs[p].seen # "REVOKED"
        /\ procs[p].op \in {"validate", "promote"} =>
            /\ procs[p].allowed
            /\ procs[p].id \in DOMAIN mem /\ mem[procs[p].id].tenant = procs[p].tenant
        /\ procs[p].op = "promote" => "validate" \in mem[procs[p].id].passed
        /\ procs[p].op = "supersede" =>
            /\ procs[p].id \in DOMAIN mem
            /\ {"validate", "promote"} \subseteq mem[procs[p].id].passed

\* Whoever goes through a listing prunes.
OnlyPruneLoops == \A p \in Procs : procs[p].pc = "prune" => procs[p].op = "prune"

IInv ==
    /\ CallersAreValid
    /\ Shape
    /\ PassedItsGates
    /\ JudgedByItsGates
    /\ OnlyPruneLoops
    /\ WrittenForItsTenant
    /\ SupersededNamesItsHeir

-----------------------------------------------------------------------------
(* What each action does to the invariant. *)

\* No record, and no request under way.
LEMMA InitInv == Init => IInv
<1> SUFFICES ASSUME Init PROVE IInv
  OBVIOUS
<1>1. CallersAreValid
  BY DEF Init, CallersAreValid, LoadDirAccepts, LoadAccepts, Range
<1>2. Shape
  BY DEF Init, Shape, Idle, Fields, Operations, None
<1>3. PassedItsGates /\ JudgedByItsGates /\ OnlyPruneLoops
  BY DEF Init, PassedItsGates, JudgedByItsGates, OnlyPruneLoops, Idle
<1>4. WrittenForItsTenant /\ SupersededNamesItsHeir
  BY DEF Init, WrittenForItsTenant, SupersededNamesItsHeir
<1> QED BY <1>1, <1>2, <1>3, <1>4 DEF IInv

\* A caller writes for its own tenant or, as a service, for one it may act for.
LEMMA WritesForTenant ==
  ASSUME NEW c, ValidCaller(c, Tenants), NEW header \in Tenants \cup {Absent},
         NEW t \in EffectiveTenant(c, header)
  PROVE  /\ t \in Tenants
         /\ \/ c.tenant = t
            \/ c.kind = "service" /\ \E k \in DOMAIN c.mayActFor : c.mayActFor[k] = t
  BY DEF ValidCaller, EffectiveTenant, ActsForTenant, OtherTenants, Range

\* WriteCandidate adds a record that has been through no gate.
LEMMA WritesPreserves ==
  ASSUME IInv, NEW p \in Procs, NEW caller \in callers, Writes(p, caller)
  PROVE  IInv'
<1>1. ValidCaller(caller, Tenants)
  BY DEF IInv, CallersAreValid
<1>2. PICK tenant \in Tenants, score \in Scores :
        /\ mem' = Append(mem, Fresh(tenant, "CANDIDATE", score, caller.id))
        /\ \/ caller.tenant = tenant
           \/ /\ caller.kind = "service"
              /\ \E k \in DOMAIN caller.mayActFor : caller.mayActFor[k] = tenant
        /\ UNCHANGED <<callers, procs, severed, faults>> /\ requests' = requests + 1
  BY <1>1, WritesForTenant DEF Writes, WriteCandidate, Create, Candidate, Arrives
<1>3. Fresh(tenant, "CANDIDATE", score, caller.id) \in Record
  BY <1>2, ScoresAssumption DEF Fresh, Record, Statuses, None
<1>4. /\ mem' \in Seq(Record) /\ Len(mem') = Len(mem) + 1 /\ DOMAIN mem = 1..Len(mem)
      /\ DOMAIN mem' = 1..(Len(mem) + 1)
      /\ \A i \in DOMAIN mem : i \in DOMAIN mem' /\ mem'[i] = mem[i]
      /\ mem'[Len(mem) + 1] = Fresh(tenant, "CANDIDATE", score, caller.id)
  BY <1>2, <1>3, SMTT(30) DEF IInv, Shape, Record
<1>5. \A i \in DOMAIN mem' : i \in DOMAIN mem \/ mem'[i] = Fresh(tenant, "CANDIDATE", score, caller.id)
  BY <1>4 DEF IInv, Shape
<1>6. CallersAreValid' /\ Shape' /\ OnlyPruneLoops'
  BY <1>2, <1>4 DEF IInv, CallersAreValid, Shape, OnlyPruneLoops, Record
<1>7. PassedItsGates' /\ JudgedByItsGates'
  BY <1>2, <1>4, <1>5 DEF IInv, PassedItsGates, JudgedByItsGates, Fresh
<1>8. WrittenForItsTenant'
  BY <1>2, <1>4, <1>5 DEF IInv, WrittenForItsTenant, Fresh
<1>9. SupersededNamesItsHeir'
  BY <1>2, <1>4, <1>5 DEF IInv, SupersededNamesItsHeir, Fresh
<1> QED BY <1>6, <1>7, <1>8, <1>9 DEF IInv

\* A step of p that only reads the records: what it goes on with was judged by
\* what they say.
Reads(p) ==
    LET c == procs'[p] IN
    /\ UNCHANGED <<callers, mem>>
    /\ requests' \in Nat /\ faults' \in Nat /\ faults' >= faults
    /\ severed \subseteq severed'
    /\ procs[p].pc # "heir" \/ procs[p].id \in severed'
    /\ DOMAIN procs' = Procs /\ \A q \in Procs \ {p} : procs'[q] = procs[q]
    /\ DOMAIN c = Fields /\ c.op \in Operations /\ c.score \in Int /\ c.heir \in Nat
    /\ c.pc = "write" =>
        /\ MayMove(c.op, c.seen)
        /\ Gated(c.op, c.allowed)
        /\ c.op # "prune" => /\ c.id \in DOMAIN mem
                             /\ c.seen = mem[c.id].status /\ c.tenant = mem[c.id].tenant
    /\ c.pc # "heir"
    /\ c.pc = "prune" => c.op = "prune"

\* A step that only reads keeps the invariant.
LEMMA ReadsPreserve ==
  ASSUME IInv, NEW p \in Procs, Reads(p)
  PROVE  IInv'
<1> USE DEF IInv, Reads
<1>1. CallersAreValid' /\ Shape' /\ OnlyPruneLoops'
  BY DEF CallersAreValid, Shape, OnlyPruneLoops, Record
<1>2. PassedItsGates' /\ WrittenForItsTenant'
  BY DEF PassedItsGates, WrittenForItsTenant
<1>3. JudgedByItsGates'
  BY DEF JudgedByItsGates, PassedItsGates, MayMove, Target, Gated, Pipeline,
     ValidTransitions, PostActiveTransitions
<1>4. SupersededNamesItsHeir'
  BY DEF SupersededNamesItsHeir, Shape
<1> QED BY <1>1, <1>2, <1>3, <1>4

\* A route of the pipeline: the read and the rule of transitionStatus.
LEMMA TransitionReadsReads ==
  ASSUME IInv, NEW p \in Procs, NEW id \in DOMAIN mem, NEW tenant,
         NEW op \in Pipeline \cup {"revoke"}, NEW allowed \in BOOLEAN,
         TransitionReads(p, op, id, tenant, allowed)
  PROVE  Reads(p)
<1> USE DEF IInv, Shape, Reads, Arrives, Goes, Fields, Operations, None
<1>1. CASE procs' = procs
  BY <1>1 DEF TransitionReads
<1>2. CASE procs' # procs
  <2> DEFINE c == [Idle EXCEPT !.pc = "write", !.op = op, !.id = id,
                      !.tenant = tenant, !.seen = mem[id].status, !.allowed = allowed]
  <2>1. /\ procs' = [procs EXCEPT ![p] = c]
        /\ Owned(id, tenant) /\ Gated(op, allowed) /\ MayMove(op, mem[id].status)
    BY <1>2 DEF TransitionReads
  <2>2. /\ c.op = op /\ c.id = id /\ c.seen = mem[id].status /\ c.tenant = tenant
        /\ c.allowed = allowed /\ c.pc = "write" /\ DOMAIN c = Fields
        /\ c.score = 0 /\ c.heir = 0
    BY DEF Idle
  <2>3. procs'[p] = c /\ DOMAIN procs' = Procs /\ \A q \in Procs \ {p} : procs'[q] = procs[q]
    BY <2>1
  <2> HIDE DEF c
  <2> QED
    BY <2>1, <2>2, <2>3 DEF TransitionReads, Owned, PostActive, Pipeline
<1> QED BY <1>1, <1>2

\* Superseding, use and repair read the record they are about.
LEMMA RequestReads ==
  ASSUME IInv, NEW p \in Procs, NEW id \in DOMAIN mem, NEW tenant,
         RepairReads(p, id, tenant) \/ Library(p, id)
  PROVE  Reads(p)
<1> USE DEF IInv, Shape, Reads, Arrives, Goes, Fields, Operations, None
<1>1. mem[id] \in Record /\ mem[id].score \in Int /\ \A i \in DOMAIN mem : i \in Nat /\ i # 0
  <2>1. DOMAIN mem = 1..Len(mem) /\ Len(mem) \in Nat
    OBVIOUS
  <2>2. mem[id] \in Record
    BY <2>1
  <2>3. \A i \in DOMAIN mem : i \in Nat /\ i # 0
    BY <2>1
  <2> QED BY <2>2, <2>3 DEF Record
<1>2. CASE RepairReads(p, id, tenant)
  BY <1>2 DEF RepairReads, Idle
<1>3. ASSUME NEW heir \in DOMAIN mem \cup {None}, SupersedeReads(p, id, heir) PROVE Reads(p)
  BY <1>1, <1>3 DEF SupersedeReads, Idle, PostActive, Gated
<1>4. ASSUME NEW success \in BOOLEAN, UsageReads(p, id, success) PROVE Reads(p)
  <2>1. ScoreAfter(mem[id].score, success) \in Int
    BY <1>1 DEF ScoreAfter
  <2> QED BY <1>4, <2>1 DEF UsageReads, Idle
<1> QED BY <1>2, <1>3, <1>4 DEF Library

\* Prune reads, and so does what stops a process.
LEMMA OtherReads ==
  ASSUME IInv, NEW p \in Procs,
         PruneReads(p) \/ PruneFails(p) \/ SupersedeRefused(p) \/ StatementFails(p)
         \/ \E tenant \in Tenants : PruneLists(p, tenant)
  PROVE  Reads(p)
<1> USE DEF IInv, Shape, Reads, Arrives, Goes, Fields, Operations, None
<1>1. CASE PruneReads(p)
  <2> DEFINE c == procs[p]
  <2>1. /\ c.pc = "prune" /\ UNCHANGED <<callers, severed, mem, requests, faults>>
        /\ c.op = "prune" /\ DOMAIN c = Fields /\ c.score \in Int /\ c.heir \in Nat
    BY <1>1 DEF PruneReads, OnlyPruneLoops
  <2>2. CASE procs' = [procs EXCEPT ![p] = Idle]
    BY <2>1, <2>2 DEF Idle
  <2>3. CASE procs' = [procs EXCEPT ![p] = [Idle EXCEPT !.pc = "failed", !.pruned = c.pruned]]
    BY <2>1, <2>3 DEF Idle
  <2>4. ASSUME NEW id, NEW status, MayMove("prune", status),
               procs' = [procs EXCEPT ![p] = [c EXCEPT !.pc = "write", !.id = id, !.seen = status]]
        PROVE  Reads(p)
    BY <2>1, <2>4 DEF Gated
  <2> QED BY <1>1, <2>2, <2>3, <2>4 DEF PruneReads
<1>2. CASE PruneFails(p) \/ SupersedeRefused(p)
  BY <1>2 DEF PruneFails, SupersedeRefused, Idle
<1>3. CASE StatementFails(p)
  BY <1>3 DEF StatementFails, Idle
<1>4. ASSUME NEW tenant \in Tenants, PruneLists(p, tenant) PROVE Reads(p)
  <2>1. PICK todo : procs' = [procs EXCEPT ![p] = [Idle EXCEPT !.pc = "prune", !.op = "prune",
                                                      !.tenant = tenant, !.todo = todo]]
    BY <1>4 DEF PruneLists
  <2>2. procs[p].pc = "idle" /\ requests' = requests + 1 /\ UNCHANGED <<callers, severed, mem, faults>>
    BY <1>4 DEF PruneLists
  <2> QED BY <2>1, <2>2 DEF Idle, PostActive
<1> QED BY <1>1, <1>2, <1>3, <1>4

\* A step that writes no status but REVOKED, takes no gate away and no heir.
Touches ==
    /\ UNCHANGED <<callers, severed>>
    /\ requests' \in Nat /\ faults' \in Nat /\ faults' >= faults
    /\ mem' \in Seq(Record) /\ DOMAIN mem' = DOMAIN mem
    /\ \A i \in DOMAIN mem :
        /\ mem'[i].tenant = mem[i].tenant /\ mem'[i].by = mem[i].by
        /\ mem'[i].passed = mem[i].passed
        /\ mem'[i].status = mem[i].status \/ mem'[i].status = "REVOKED"
        /\ mem'[i].heir = mem[i].heir \/ mem'[i].heir # None
    /\ DOMAIN procs' = Procs
    /\ \A q \in Procs :
        \/ procs'[q] = procs[q]
        \/ /\ procs'[q] = Idle
           /\ procs[q].pc = "heir" /\ procs[q].id \in DOMAIN mem => mem'[procs[q].id].heir # None

\* A step that only touches the records keeps the invariant.
LEMMA TouchesPreserve ==
  ASSUME IInv, Touches
  PROVE  IInv'
<1> USE DEF IInv, Touches
<1>1. CallersAreValid' /\ Shape' /\ OnlyPruneLoops'
  BY SMTT(30) DEF CallersAreValid, Shape, OnlyPruneLoops, Record, Idle, Fields, Operations, None
<1>2. PassedItsGates' /\ WrittenForItsTenant'
  BY DEF PassedItsGates, WrittenForItsTenant
<1>3. JudgedByItsGates'
  BY DEF JudgedByItsGates, Idle
<1>4. ASSUME NEW i \in DOMAIN mem', mem'[i].status = "SUPERSEDED", mem'[i].heir = None,
             i \notin severed'
      PROVE  \E p \in Procs : procs'[p].pc = "heir" /\ procs'[p].id = i
  <2>1. mem[i].status = "SUPERSEDED" /\ mem[i].heir = None /\ i \notin severed
    BY <1>4 DEF Shape
  <2>2. PICK p \in Procs : procs[p].pc = "heir" /\ procs[p].id = i
    BY <2>1 DEF SupersededNamesItsHeir
  <2>3. procs'[p] = procs[p]
    BY <1>4, <2>2
  <2> QED BY <2>2, <2>3
<1>5. SupersededNamesItsHeir'
  BY <1>4 DEF SupersededNamesItsHeir
<1> QED BY <1>1, <1>2, <1>3, <1>5

\* A record with some of its fields replaced by values of their types.
LEMMA UpdatedRecord ==
  ASSUME NEW r \in Record
  PROVE  /\ \A v \in Nat : [r EXCEPT !.heir = v] \in Record
         /\ \A v, a \in Int : [r EXCEPT !.score = v, !.age = a] \in Record
         /\ \A v \in Statuses : [r EXCEPT !.status = v] \in Record
         /\ [r EXCEPT !.age = r.age + 1] \in Record
         /\ [r EXCEPT !.expired = TRUE] \in Record
         /\ [r EXCEPT !.tampered = TRUE] \in Record
         /\ \A v \in Statuses, g \in SUBSET Operations :
                [r EXCEPT !.status = v, !.passed = g] \in Record
<1> USE DEF Record
<1>1. \A v \in Nat : [r EXCEPT !.heir = v] \in Record
  OBVIOUS
<1>2. ASSUME NEW v \in Int, NEW a \in Int PROVE [r EXCEPT !.score = v, !.age = a] \in Record
  OBVIOUS
<1>3. \A v \in Statuses : [r EXCEPT !.status = v] \in Record
  OBVIOUS
<1>4. [r EXCEPT !.age = r.age + 1] \in Record
  OBVIOUS
<1>5. [r EXCEPT !.expired = TRUE] \in Record
  OBVIOUS
<1>6. [r EXCEPT !.tampered = TRUE] \in Record
  OBVIOUS
<1>7. \A v \in Statuses, g \in SUBSET Operations : [r EXCEPT !.status = v, !.passed = g] \in Record
  OBVIOUS
<1> QED BY <1>1, <1>2, <1>3, <1>4, <1>5, <1>6, <1>7

\* One record of the table is replaced, by one that keeps its tenant, its author
\* and its gates.
LEMMA TouchedTable ==
  ASSUME IInv, NEW i \in DOMAIN mem,
         mem' \in Seq(Record), DOMAIN mem' = DOMAIN mem,
         \A j \in DOMAIN mem \ {i} : mem'[j] = mem[j],
         mem'[i].tenant = mem[i].tenant, mem'[i].by = mem[i].by,
         mem'[i].passed = mem[i].passed, mem'[i].status \in {mem[i].status, "REVOKED"},
         mem'[i].heir = mem[i].heir \/ mem'[i].heir # None,
         UNCHANGED <<callers, severed>>, requests' \in Nat, faults' \in Nat, faults' >= faults,
         DOMAIN procs' = Procs,
         \A q \in Procs :
            \/ procs'[q] = procs[q]
            \/ /\ procs'[q] = Idle
               /\ procs[q].pc = "heir" => procs[q].id = i /\ mem'[i].heir # None
  PROVE  Touches
<1>1. \A j \in DOMAIN mem :
        /\ mem'[j].tenant = mem[j].tenant /\ mem'[j].by = mem[j].by
        /\ mem'[j].passed = mem[j].passed
        /\ mem'[j].status = mem[j].status \/ mem'[j].status = "REVOKED"
        /\ mem'[j].heir = mem[j].heir \/ mem'[j].heir # None
  OBVIOUS
<1> QED BY <1>1 DEF Touches

\* superseded_by, the use of a record and the emergency revocation are such writes.
LEMMA WritesTouch ==
  ASSUME IInv, NEW p \in Procs, SupersedeNames(p) \/ UsageWrites(p) \/ RepairWrites(p)
  PROVE  Touches
<1> DEFINE c == procs[p]
<1>0. /\ mem \in Seq(Record) /\ DOMAIN procs = Procs /\ DOMAIN procs' = Procs
      /\ procs'[p] = Idle /\ \A q \in Procs \ {p} : procs'[q] = procs[q]
      /\ UNCHANGED <<callers, severed, requests, faults>> /\ requests \in Nat /\ faults \in Nat
      /\ c.heir \in Nat /\ c.score \in Int
  BY DEF IInv, Shape, SupersedeNames, UsageWrites, RepairWrites, Goes
<1>1. CASE c.id \notin DOMAIN mem
  <2>1. mem' = mem
    BY <1>0, <1>1 DEF SupersedeNames, UsageWrites, RepairWrites
  <2> QED BY <1>0, <1>1, <2>1 DEF Touches
<1>2. CASE c.id \in DOMAIN mem
  <2>0. mem[c.id] \in Record
    BY <1>0, <1>2
  <2>1. CASE SupersedeNames(p)
    <3> DEFINE r == [mem[c.id] EXCEPT !.heir = c.heir]
    <3>1. mem' = [mem EXCEPT ![c.id] = r]
      BY <2>1 DEF SupersedeNames
    <3>2. /\ r \in Record /\ r.tenant = mem[c.id].tenant /\ r.by = mem[c.id].by
          /\ r.passed = mem[c.id].passed /\ r.status = mem[c.id].status /\ r.heir = c.heir
      BY <1>0, <2>0, UpdatedRecord DEF Record
    <3> HIDE DEF r
    <3>3. /\ mem' \in Seq(Record) /\ DOMAIN mem' = DOMAIN mem
          /\ mem'[c.id] = r /\ \A j \in DOMAIN mem \ {c.id} : mem'[j] = mem[j]
      BY <1>0, <1>2, <3>1, <3>2
    <3>4. c.heir # None
      BY <1>0, <2>1 DEF SupersedeNames
    <3>5. \A q \in Procs :
            \/ procs'[q] = procs[q]
            \/ /\ procs'[q] = Idle
               /\ procs[q].pc = "heir" => procs[q].id = c.id /\ mem'[c.id].heir # None
      BY <1>0, <2>1, <3>2, <3>3 DEF SupersedeNames
    <3> HIDE DEF c
    <3> QED BY <1>0, <1>2, <3>2, <3>3, <3>4, <3>5, TouchedTable
  <2>2. CASE UsageWrites(p)
    <3> DEFINE r == [mem[c.id] EXCEPT !.score = c.score, !.age = 0]
    <3>1. mem' = [mem EXCEPT ![c.id] = r]
      BY <2>2 DEF UsageWrites
    <3>2. r \in Record
      <4>1. \A a \in Int : [mem[c.id] EXCEPT !.score = c.score, !.age = a] \in Record
        BY <1>0, <2>0, UpdatedRecord
      <4>2. 0 \in Int
        OBVIOUS
      <4> QED BY <4>1, <4>2, Zenon
    <3>3. /\ r.tenant = mem[c.id].tenant /\ r.by = mem[c.id].by
          /\ r.passed = mem[c.id].passed /\ r.status = mem[c.id].status /\ r.heir = mem[c.id].heir
      BY <2>0, <3>2 DEF Record
    <3> HIDE DEF r
    <3>4. /\ mem' \in Seq(Record) /\ DOMAIN mem' = DOMAIN mem
          /\ mem'[c.id] = r /\ \A j \in DOMAIN mem \ {c.id} : mem'[j] = mem[j]
      BY <1>0, <1>2, <3>1, <3>2
    <3>5. \A q \in Procs :
            \/ procs'[q] = procs[q]
            \/ /\ procs'[q] = Idle
               /\ procs[q].pc = "heir" => procs[q].id = c.id /\ mem'[c.id].heir # None
      BY <1>0, <2>2, <3>3, <3>4 DEF UsageWrites
    <3> HIDE DEF c
    <3> QED BY <1>0, <1>2, <3>3, <3>4, <3>5, TouchedTable
  <2>3. CASE RepairWrites(p)
    <3> DEFINE r == [mem[c.id] EXCEPT !.status = "REVOKED"]
    <3>1. mem' = [mem EXCEPT ![c.id] = r]
      BY <2>3 DEF RepairWrites
    <3>2. r \in Record
      BY <1>0, <2>0, UpdatedRecord DEF Statuses
    <3>3. /\ r.tenant = mem[c.id].tenant /\ r.by = mem[c.id].by
          /\ r.passed = mem[c.id].passed /\ r.status = "REVOKED" /\ r.heir = mem[c.id].heir
      BY <2>0, <3>2 DEF Record
    <3> HIDE DEF r
    <3>4. /\ mem' \in Seq(Record) /\ DOMAIN mem' = DOMAIN mem
          /\ mem'[c.id] = r /\ \A j \in DOMAIN mem \ {c.id} : mem'[j] = mem[j]
      BY <1>0, <1>2, <3>1, <3>2
    <3>5. \A q \in Procs :
            \/ procs'[q] = procs[q]
            \/ /\ procs'[q] = Idle
               /\ procs[q].pc = "heir" => procs[q].id = c.id /\ mem'[c.id].heir # None
      BY <1>0, <2>3, <3>3, <3>4 DEF RepairWrites
    <3> HIDE DEF c
    <3> QED BY <1>0, <1>2, <3>3, <3>4, <3>5, TouchedTable
  <2> QED BY <2>1, <2>2, <2>3
<1> QED BY <1>1, <1>2

\* So are ageing, expiry and tampering.
LEMMA TimeTouches ==
  ASSUME IInv, AgePasses \/ \E i \in DOMAIN mem : Expires(i) \/ Tampered(i)
  PROVE  Touches
<1>0. /\ mem \in Seq(Record) /\ DOMAIN procs = Procs /\ requests \in Nat /\ faults \in Nat
  BY DEF IInv, Shape
<1>1. CASE AgePasses
  <2>1. /\ DOMAIN mem' = DOMAIN mem /\ DOMAIN mem = 1..Len(mem) /\ Len(mem) \in Nat
        /\ \A i \in DOMAIN mem : mem'[i] = mem[i] \/ mem'[i] = [mem[i] EXCEPT !.age = mem[i].age + 1]
        /\ mem' = [i \in 1..Len(mem) |-> mem'[i]]
    BY <1>0, <1>1 DEF AgePasses
  <2>2. \A i \in DOMAIN mem : mem[i] \in Record
    BY <1>0, <2>1
  <2>3. ASSUME NEW i \in DOMAIN mem
        PROVE  /\ mem'[i] \in Record
               /\ mem'[i].tenant = mem[i].tenant /\ mem'[i].by = mem[i].by
               /\ mem'[i].passed = mem[i].passed /\ mem'[i].status = mem[i].status
               /\ mem'[i].heir = mem[i].heir
    <3>1. mem'[i] \in Record
      BY <2>1, <2>2, UpdatedRecord
    <3> QED BY <2>1, <2>2, <3>1 DEF Record
  <2>4. mem' \in Seq(Record)
    BY <2>1, <2>3
  <2> QED BY <1>0, <1>1, <2>1, <2>3, <2>4 DEF AgePasses, Touches
<1>2. ASSUME NEW i \in DOMAIN mem, Expires(i) PROVE Touches
  <2> DEFINE r == [mem[i] EXCEPT !.expired = TRUE]
  <2>1. mem[i] \in Record /\ mem' = [mem EXCEPT ![i] = r]
    BY <1>0, <1>2 DEF Expires
  <2>2. /\ r \in Record /\ r.tenant = mem[i].tenant /\ r.by = mem[i].by
        /\ r.passed = mem[i].passed /\ r.status = mem[i].status /\ r.heir = mem[i].heir
    BY <2>1, UpdatedRecord, ZenonT(30) DEF Record
  <2> HIDE DEF r
  <2>3. /\ mem' \in Seq(Record) /\ DOMAIN mem' = DOMAIN mem
        /\ mem'[i] = r /\ \A j \in DOMAIN mem \ {i} : mem'[j] = mem[j]
    BY <1>0, <2>1, <2>2
  <2>4. UNCHANGED <<callers, procs, severed, requests>> /\ faults' \in Nat /\ faults' >= faults
    BY <1>0, <1>2 DEF Expires
  <2>5. DOMAIN procs' = Procs /\ \A q \in Procs : procs'[q] = procs[q]
    BY <1>0, <2>4
  <2> QED BY <1>0, <2>2, <2>3, <2>4, <2>5, TouchedTable
<1>3. ASSUME NEW i \in DOMAIN mem, Tampered(i) PROVE Touches
  <2> DEFINE r == [mem[i] EXCEPT !.tampered = TRUE]
  <2>1. mem[i] \in Record /\ mem' = [mem EXCEPT ![i] = r]
    BY <1>0, <1>3 DEF Tampered
  <2>2. /\ r \in Record /\ r.tenant = mem[i].tenant /\ r.by = mem[i].by
        /\ r.passed = mem[i].passed /\ r.status = mem[i].status /\ r.heir = mem[i].heir
    BY <2>1, UpdatedRecord DEF Record
  <2> HIDE DEF r
  <2>3. /\ mem' \in Seq(Record) /\ DOMAIN mem' = DOMAIN mem
        /\ mem'[i] = r /\ \A j \in DOMAIN mem \ {i} : mem'[j] = mem[j]
    BY <1>0, <2>1, <2>2
  <2>4. UNCHANGED <<callers, procs, severed, requests>> /\ faults' \in Nat /\ faults' >= faults
    BY <1>0, <1>3 DEF Tampered
  <2>5. DOMAIN procs' = Procs /\ \A q \in Procs : procs'[q] = procs[q]
    BY <1>0, <2>4
  <2> QED BY <1>0, <2>2, <2>3, <2>4, <2>5, TouchedTable
<1> QED BY <1>1, <1>2, <1>3

\* The UPDATE of a transition, whatever became of the record since it was read.
LEMMA TransitionWritesPreserves ==
  ASSUME IInv, NEW p \in Procs, TransitionWrites(p)
  PROVE  IInv'
<1> DEFINE c == procs[p]
<1>0. /\ mem \in Seq(Record) /\ DOMAIN procs = Procs
      /\ UNCHANGED <<callers, severed, requests, faults>> /\ requests \in Nat /\ faults \in Nat
      /\ c.pc = "write" /\ c.op \in Operations /\ DOMAIN c = Fields
      /\ c.heir \in Nat /\ c.score \in Int
  BY DEF IInv, Shape, TransitionWrites
<1>1. /\ DOMAIN procs' = Procs /\ procs'[p] = AfterWrite(c)
      /\ \A q \in Procs \ {p} : procs'[q] = procs[q]
  BY <1>0 DEF TransitionWrites, Goes
<1>2. /\ DOMAIN procs'[p] = Fields /\ procs'[p].op \in Operations /\ procs'[p].score \in Int
      /\ procs'[p].heir \in Nat /\ procs'[p].pc # "write"
      /\ procs'[p].pc = "prune" => procs'[p].op = "prune"
      /\ procs'[p].pc = "heir" => c.op = "supersede" /\ procs'[p].heir = c.heir
      /\ c.op = "supersede" => procs'[p].pc = "heir" /\ procs'[p].id = c.id
  BY <1>0, <1>1 DEF AfterWrite, Idle, Fields, Operations, None
\* The record that is written, when there is one.
<1>3. /\ mem' \in Seq(Record) /\ DOMAIN mem' = DOMAIN mem
      /\ \A i \in DOMAIN mem \ {c.id} : mem'[i] = mem[i]
      /\ c.id \in DOMAIN mem =>
            /\ mem'[c.id].status = Target(c.op)
            /\ mem'[c.id].tenant = mem[c.id].tenant /\ mem'[c.id].by = mem[c.id].by
            /\ mem'[c.id].heir = mem[c.id].heir
            /\ mem[c.id].passed \subseteq mem'[c.id].passed
            /\ c.allowed /\ mem[c.id].tenant = c.tenant => c.op \in mem'[c.id].passed
  <2>1. CASE c.id \notin DOMAIN mem
    <3>1. mem' = mem
      BY <1>0, <2>1 DEF TransitionWrites
    <3> QED BY <1>0, <2>1, <3>1
  <2>2. CASE c.id \in DOMAIN mem
    <3> DEFINE g == IF c.allowed /\ Owned(c.id, c.tenant) THEN mem[c.id].passed \cup {c.op}
                    ELSE mem[c.id].passed
               r == [mem[c.id] EXCEPT !.status = Target(c.op), !.passed = g]
    <3>1. mem[c.id] \in Record
      BY <1>0, <2>2
    <3>2. mem' = [mem EXCEPT ![c.id] = r]
      BY <1>0, <2>2 DEF TransitionWrites
    <3>3. g \in SUBSET Operations /\ mem[c.id].passed \subseteq g
          /\ (c.allowed /\ mem[c.id].tenant = c.tenant => c.op \in g)
      BY <1>0, <3>1 DEF Record, Owned
    <3>4. Target(c.op) \in Statuses
      BY DEF Target, Statuses
    <3> HIDE DEF g
    <3>5. r \in Record
      BY <3>1, <3>3, <3>4, UpdatedRecord
    <3>6. /\ r.status = Target(c.op) /\ r.passed = g /\ r.tenant = mem[c.id].tenant
          /\ r.by = mem[c.id].by /\ r.heir = mem[c.id].heir
      BY <3>1 DEF Record
    <3> HIDE DEF r
    <3>7. /\ mem' \in Seq(Record) /\ DOMAIN mem' = DOMAIN mem /\ mem'[c.id] = r
          /\ \A i \in DOMAIN mem \ {c.id} : mem'[i] = mem[i]
      BY <1>0, <2>2, <3>2, <3>5
    <3> QED BY <3>3, <3>6, <3>7
  <2> QED BY <2>1, <2>2
<1>4. CallersAreValid'
  BY <1>0 DEF IInv, CallersAreValid
<1>5. Shape'
  BY <1>0, <1>1, <1>2, <1>3 DEF IInv, Shape, Record
<1>6. OnlyPruneLoops'
  BY <1>0, <1>1, <1>2 DEF IInv, OnlyPruneLoops
<1>7. PassedItsGates'
  BY <1>0, <1>3 DEF IInv, PassedItsGates, JudgedByItsGates, Target, Operations, Pipeline,
     PostActive
<1>8. JudgedByItsGates'
  BY <1>0, <1>1, <1>2, <1>3, SMTT(30) DEF IInv, JudgedByItsGates
<1>9. WrittenForItsTenant'
  BY <1>0, <1>3 DEF IInv, WrittenForItsTenant
<1>10. ASSUME NEW i \in DOMAIN mem', mem'[i].status = "SUPERSEDED", mem'[i].heir = None,
              i \notin severed'
       PROVE  \E q \in Procs : procs'[q].pc = "heir" /\ procs'[q].id = i
  <2>1. CASE i = c.id
    <3>1. c.op = "supersede"
      BY <1>0, <1>3, <1>10, <2>1 DEF Target, Operations, Pipeline, PostActive
    <3> QED BY <1>2, <2>1, <3>1
  <2>2. CASE i # c.id
    <3>1. PICK q \in Procs : procs[q].pc = "heir" /\ procs[q].id = i
      BY <1>0, <1>3, <1>10, <2>2 DEF IInv, SupersededNamesItsHeir
    <3> QED BY <1>0, <1>1, <3>1
  <2> QED BY <2>1, <2>2
<1>11. SupersededNamesItsHeir'
  BY <1>10 DEF SupersededNamesItsHeir
<1> QED BY <1>4, <1>5, <1>6, <1>7, <1>8, <1>9, <1>11 DEF IInv

\* Every step keeps the invariant.
LEMMA NextInv == IInv /\ [Next]_vars => IInv'
<1> SUFFICES ASSUME IInv, [Next]_vars PROVE IInv'
  OBVIOUS
<1>1. CASE UNCHANGED vars
  BY <1>1 DEF vars, IInv, CallersAreValid, Shape, Record, PassedItsGates, JudgedByItsGates,
     OnlyPruneLoops, WrittenForItsTenant, SupersededNamesItsHeir
<1>2. ASSUME NEW p \in Procs, Step(p) PROVE IInv'
  BY <1>2, TransitionWritesPreserves, WritesTouch, TouchesPreserve, OtherReads,
     ReadsPreserve DEF Step
<1>3. ASSUME NEW p \in Procs, NEW token, NEW caller \in Authenticate(callers, token),
             Writes(p, caller) \/ \E id \in DOMAIN mem : Route(p, id, caller)
      PROVE  IInv'
  <2>1. caller \in callers
    BY DEF Authenticate
  <2> QED BY <1>3, <2>1, WritesPreserves, RequestReads, TransitionReadsReads,
     ReadsPreserve DEF Route
<1>4. ASSUME NEW p \in Procs, NEW id \in DOMAIN mem, Library(p, id) PROVE IInv'
  BY <1>4, RequestReads, ReadsPreserve
<1>5. ASSUME NEW p \in Procs, NEW tenant \in Tenants, PruneLists(p, tenant) PROVE IInv'
  BY <1>5, OtherReads, ReadsPreserve
<1>6. CASE AgePasses \/ \E i \in DOMAIN mem : Expires(i) \/ Tampered(i)
  BY <1>6, TimeTouches, TouchesPreserve
<1> QED
  BY <1>1, <1>2, <1>3, <1>4, <1>5, <1>6 DEF Next

-----------------------------------------------------------------------------
(* The theorems. *)

\* The inductive invariant holds in every reachable state of the store.
THEOREM Invariance == Spec => []IInv
  BY InitInv, NextInv, PTL DEF Spec

\* However requests race between their read and their write, a record that is or
\* was ACTIVE was validated and promoted by decisions that allowed it, made for its
\* own tenant (memory_pipeline.go).
THEOREM ActiveRecordsAreEarned == Spec => []ActiveIsEarned
<1>1. IInv => ActiveIsEarned
  BY DEF IInv, PassedItsGates, ActiveIsEarned
<1> QED BY <1>1, Invariance, PTL

\* A record is written by a caller of its tenant, or by a service that the loaded
\* bundle lets act for it (effectiveTenant, rejectRequestTenant, LoadDir).
THEOREM RecordsAreWrittenForTheirTenant == Spec => []WrittenForItsTenant
<1>1. IInv => WrittenForItsTenant
  BY DEF IInv
<1> QED BY <1>1, Invariance, PTL

\* Supersede's two statements (memory_forgetting.go:78-84): however many requests race
\* for a record, and whatever fails elsewhere, it is superseded by nothing only while a
\* Supersede of that record is between them, or after one of that record ended there
\* with an error.
THEOREM SupersededRecordsNameTheirHeir == Spec => []SupersededNamesItsHeir
<1>1. IInv => SupersededNamesItsHeir
  BY DEF IInv
<1> QED BY <1>1, Invariance, PTL

\* A record that is revoked, and that nobody is about to write, stays so.
LEMMA RevokedStep ==
  ASSUME IInv, Next, NEW i \in DOMAIN mem, mem[i].status = "REVOKED", ~Pending(i)
  PROVE  mem'[i].status = "REVOKED"
<1>1. ASSUME Touches \/ \E p \in Procs : Reads(p) PROVE mem'[i].status = "REVOKED"
  BY <1>1 DEF Touches, Reads
<1>2. ASSUME NEW p \in Procs, TransitionWrites(p) PROVE mem'[i].status = "REVOKED"
  <2>1. procs[p].id # i
    BY <1>2 DEF IInv, JudgedByItsGates, Pending, TransitionWrites
  <2>2. mem'[i] = mem[i]
    BY <1>2, <2>1 DEF IInv, Shape, TransitionWrites
  <2> QED BY <2>2
<1>3. ASSUME NEW p \in Procs, NEW caller, Writes(p, caller) PROVE mem'[i].status = "REVOKED"
  <2>1. \E r : mem' = Append(mem, r)
    BY <1>3 DEF Writes, WriteCandidate, Create
  <2>2. mem'[i] = mem[i]
    BY <2>1 DEF IInv, Shape
  <2> QED BY <2>2
<1>4. ASSUME NEW p \in Procs, Step(p) PROVE mem'[i].status = "REVOKED"
  BY <1>1, <1>2, <1>4, WritesTouch, OtherReads DEF Step
<1>5. ASSUME NEW p \in Procs, NEW caller, NEW id \in DOMAIN mem, Route(p, id, caller)
      PROVE  mem'[i].status = "REVOKED"
  BY <1>1, <1>5, RequestReads, TransitionReadsReads DEF Route
<1>6. ASSUME NEW p \in Procs, NEW id \in DOMAIN mem, Library(p, id)
      PROVE  mem'[i].status = "REVOKED"
  BY <1>1, <1>6, RequestReads
<1>7. ASSUME NEW p \in Procs, NEW tenant \in Tenants, PruneLists(p, tenant)
      PROVE  mem'[i].status = "REVOKED"
  BY <1>1, <1>7, OtherReads
<1>8. CASE AgePasses \/ \E j \in DOMAIN mem : Expires(j) \/ Tampered(j)
  BY <1>1, <1>8, TimeTouches
<1> QED BY <1>3, <1>4, <1>5, <1>6, <1>7, <1>8 DEF Next

\* A revoked record changes its status only by an UPDATE that was judged before the
\* revocation: no operation that reads REVOKED goes on to write (memoryValidTransitions).
THEOREM RevocationIsFinalWhenQuiet == Spec => RevokedIsFinalWhenQuiet
<1>1. IInv /\ [Next]_vars
      => [\A i \in DOMAIN mem :
            mem[i].status = "REVOKED" /\ ~Pending(i) => mem'[i].status = "REVOKED"]_vars
  BY RevokedStep
<1> QED BY <1>1, Invariance, PTL DEF Spec, RevokedIsFinalWhenQuiet

-----------------------------------------------------------------------------
(* One request at a time. *)

OneRequest == \A p, q \in Procs : p = q

\* What a request has read is still so when it writes.
ReadIsCurrent ==
    \A p \in Procs :
        /\ procs[p].pc = "write" /\ procs[p].id \in DOMAIN mem
               => procs[p].seen = mem[procs[p].id].status
        /\ procs[p].pc = "usage"
               => /\ procs[p].id \in DOMAIN mem
                  /\ procs[p].score = ScoreAfter(mem[procs[p].id].score, procs[p].success)

\* Nobody writes between the read and the write of the one request, and neither age,
\* expiry nor a changed content moves a status or a score.
LEMMA ReadStaysCurrent ==
  ASSUME OneRequest, IInv, ReadIsCurrent, [Next]_vars
  PROVE  ReadIsCurrent'
<1>0. mem \in Seq(Record) /\ DOMAIN procs = Procs /\ \A p \in Procs : DOMAIN procs[p] = Fields
  BY DEF IInv, Shape
<1>1. CASE UNCHANGED vars
  BY <1>1 DEF vars, ReadIsCurrent
<1>2. ASSUME NEW p \in Procs, procs'[p].pc \notin {"write", "usage"}
      PROVE  ReadIsCurrent'
  BY <1>2 DEF ReadIsCurrent, OneRequest
<1>3. ASSUME NEW p \in Procs, NEW id \in DOMAIN mem, NEW c, procs' = [procs EXCEPT ![p] = c],
             mem' = mem, c.id = id, c.pc # "usage", c.seen = mem[id].status
      PROVE  ReadIsCurrent'
  BY <1>0, <1>3 DEF ReadIsCurrent, OneRequest
<1>4. ASSUME NEW p \in Procs, Step(p) PROVE ReadIsCurrent'
  <2>1. CASE TransitionWrites(p)
    <3>1. procs'[p] = AfterWrite(procs[p])
      BY <1>0, <2>1 DEF TransitionWrites, Goes
    <3>2. procs'[p].pc \in {"heir", "prune", "idle"}
      BY <1>0, <3>1 DEF AfterWrite, Idle, Fields
    <3> QED BY <1>2, <3>2
  <2>2. CASE SupersedeNames(p) \/ SupersedeRefused(p) \/ UsageWrites(p) \/ PruneFails(p) \/ RepairWrites(p)
    BY <1>0, <1>2, <2>2 DEF SupersedeNames, SupersedeRefused, UsageWrites, PruneFails, RepairWrites, Goes, Idle
  <2>3. CASE StatementFails(p)
    BY <1>0, <1>2, <2>3 DEF StatementFails, Goes, Idle
  <2>4. CASE PruneReads(p)
    <3>1. mem' = mem /\ DOMAIN procs' = Procs
      BY <1>0, <2>4 DEF PruneReads, Goes
    <3>2. \/ procs'[p].pc \in {"idle", "failed"}
          \/ /\ procs'[p].pc = "write" /\ procs'[p].seen = mem[procs'[p].id].status
      BY <1>0, <2>4 DEF PruneReads, Goes, Idle, Fields
    <3> QED BY <3>1, <3>2 DEF ReadIsCurrent, OneRequest
  <2> QED BY <1>4, <2>1, <2>2, <2>3, <2>4 DEF Step
<1>5. ASSUME NEW p \in Procs, NEW caller, Writes(p, caller) PROVE ReadIsCurrent'
  <2>1. procs'[p].pc = "idle"
    BY <1>5 DEF Writes, WriteCandidate, Create, Arrives
  <2> QED BY <1>2, <2>1
<1>6. ASSUME NEW p \in Procs, NEW id \in DOMAIN mem, NEW caller, Route(p, id, caller)
      PROVE  ReadIsCurrent'
  <2>1. CASE RepairReads(p, id, caller.tenant)
    BY <1>0, <1>2, <2>1 DEF RepairReads, Goes, Idle
  <2>2. ASSUME NEW op, NEW allowed, TransitionReads(p, op, id, caller.tenant, allowed)
        PROVE  ReadIsCurrent'
    <3>1. CASE UNCHANGED procs
      BY <1>2, <2>2, <3>1 DEF TransitionReads, Arrives
    <3>2. CASE procs' # procs
      <4> DEFINE c == [Idle EXCEPT !.pc = "write", !.op = op, !.id = id, !.tenant = caller.tenant,
                                   !.seen = mem[id].status, !.allowed = allowed]
      <4>1. procs' = [procs EXCEPT ![p] = c] /\ mem' = mem
        BY <2>2, <3>2 DEF TransitionReads, Goes
      <4>2. c.id = id /\ c.pc # "usage" /\ c.seen = mem[id].status
        BY DEF Idle
      <4> HIDE DEF c
      <4> QED BY <1>3, <4>1, <4>2
    <3> QED BY <3>1, <3>2
  <2> QED BY <1>6, <2>1, <2>2 DEF Route
<1>7. ASSUME NEW p \in Procs, NEW id \in DOMAIN mem, Library(p, id) PROVE ReadIsCurrent'
  <2>1. ASSUME NEW heir, SupersedeReads(p, id, heir) PROVE ReadIsCurrent'
    <3> DEFINE c == [Idle EXCEPT !.pc = "write", !.op = "supersede", !.id = id,
                                 !.tenant = mem[id].tenant, !.seen = mem[id].status, !.heir = heir]
    <3>1. procs' = [procs EXCEPT ![p] = c] /\ mem' = mem
      BY <2>1 DEF SupersedeReads, Goes
    <3>2. c.id = id /\ c.pc # "usage" /\ c.seen = mem[id].status
      BY DEF Idle
    <3> HIDE DEF c
    <3> QED BY <1>3, <3>1, <3>2
  <2>2. ASSUME NEW success, UsageReads(p, id, success) PROVE ReadIsCurrent'
    BY <1>0, <2>2 DEF UsageReads, Goes, Idle, ReadIsCurrent, OneRequest
  <2> QED BY <1>7, <2>1, <2>2 DEF Library
<1>8. ASSUME NEW p \in Procs, NEW tenant, PruneLists(p, tenant) PROVE ReadIsCurrent'
  <2>1. procs'[p].pc = "prune"
    BY <1>0, <1>8 DEF PruneLists, Goes, Idle
  <2> QED BY <1>2, <2>1
<1>9. CASE AgePasses \/ \E i \in DOMAIN mem : Expires(i) \/ Tampered(i)
  <2>1. procs' = procs /\ DOMAIN mem' = DOMAIN mem
    BY <1>0, <1>9 DEF AgePasses, Expires, Tampered
  <2>2. \A i \in DOMAIN mem : mem'[i].status = mem[i].status /\ mem'[i].score = mem[i].score
    <3>1. ASSUME NEW i \in DOMAIN mem PROVE mem[i] \in Record
      BY <1>0
    <3>2. CASE AgePasses
      BY <3>1, <3>2 DEF AgePasses, Record
    <3>3. ASSUME NEW i \in DOMAIN mem, Expires(i) \/ Tampered(i)
          PROVE  \A j \in DOMAIN mem :
                     mem'[j].status = mem[j].status /\ mem'[j].score = mem[j].score
      <4>1. CASE Expires(i)
        BY <1>0, <3>1, <4>1 DEF Expires, Record
      <4>2. CASE Tampered(i)
        BY <1>0, <3>1, <4>2 DEF Tampered, Record
      <4> QED BY <3>3, <4>1, <4>2
    <3> QED BY <1>9, <3>2, <3>3
  <2> QED BY <2>1, <2>2 DEF ReadIsCurrent
<1> QED BY <1>1, <1>4, <1>5, <1>6, <1>7, <1>8, <1>9 DEF Next

\* While requests come one at a time what was read is what is written to.
LEMMA ReadsAreCurrent == OneRequest => (Spec => []ReadIsCurrent)
<1> SUFFICES ASSUME OneRequest PROVE Spec => []ReadIsCurrent
  OBVIOUS
<1>1. Init => ReadIsCurrent
  BY DEF Init, ReadIsCurrent, Idle
<1>2. IInv /\ ReadIsCurrent /\ [Next]_vars => ReadIsCurrent'
  BY ReadStaysCurrent
<1> QED BY <1>1, <1>2, Invariance, PTL DEF Spec

\* "moving backward ... is rejected" (memory_pipeline.go:11) is so for requests that
\* come one at a time: a revoked record stays revoked, through Prune, Supersede,
\* repairs and failed statements.  Two concurrent requests break it.
THEOREM SerialRevocationIsFinal == OneRequest => (Spec => RevokedStaysRevoked)
<1> SUFFICES ASSUME OneRequest PROVE Spec => RevokedStaysRevoked
  OBVIOUS
<1>1. IInv /\ ReadIsCurrent /\ [Next]_vars
      => [\A i \in DOMAIN mem : mem[i].status = "REVOKED" => mem'[i].status = "REVOKED"]_vars
  <2> SUFFICES ASSUME IInv, ReadIsCurrent, Next, NEW i \in DOMAIN mem, mem[i].status = "REVOKED"
               PROVE  mem'[i].status = "REVOKED"
    OBVIOUS
  <2>1. ~Pending(i)
    BY DEF ReadIsCurrent, Pending
  <2> QED BY <2>1, RevokedStep
<1>2. Spec => []ReadIsCurrent
  BY ReadsAreCurrent
<1> QED BY <1>1, <1>2, Invariance, PTL DEF Spec, RevokedStaysRevoked

\* "every time a memory is actually used, its recorded outcome moves the score"
\* (memory_forgetting.go:21) is so for requests that come one at a time: RecordUsage
\* writes what follows from the score that is there.
THEOREM SerialUsesCount == OneRequest => (Spec => EveryUseCounts)
<1> SUFFICES ASSUME OneRequest PROVE Spec => EveryUseCounts
  OBVIOUS
<1>1. IInv /\ ReadIsCurrent /\ [Next]_vars
      => [\A p \in Procs : procs[p].pc = "usage" /\ procs'[p].pc = "idle" /\ faults' = faults =>
            mem'[procs[p].id].score = ScoreAfter(mem[procs[p].id].score, procs[p].success)]_vars
  <2> SUFFICES ASSUME IInv, ReadIsCurrent, Next, NEW p \in Procs, procs[p].pc = "usage",
                      procs'[p].pc = "idle", faults' = faults
               PROVE  mem'[procs[p].id].score = ScoreAfter(mem[procs[p].id].score, procs[p].success)
    OBVIOUS
  <2>0. mem \in Seq(Record) /\ faults \in Nat
    BY DEF IInv, Shape
  <2>1. UsageWrites(p)
    <3>1. ASSUME NEW q \in Procs, Arrives(q) PROVE FALSE
      BY <3>1 DEF Arrives, OneRequest
    <3>2. procs' # procs
      OBVIOUS
    <3>3. ASSUME NEW q \in Procs, NEW caller, Writes(q, caller) PROVE FALSE
      BY <3>1, <3>3 DEF Writes, WriteCandidate, Create
    <3>4. ASSUME NEW q \in Procs, NEW id, NEW caller, Route(q, id, caller) PROVE FALSE
      BY <3>1, <3>4 DEF Route, RepairReads, TransitionReads
    <3>5. ASSUME NEW q \in Procs, NEW id, Library(q, id) PROVE FALSE
      BY <3>1, <3>5 DEF Library, SupersedeReads, UsageReads
    <3>6. ASSUME NEW q \in Procs, NEW tenant, PruneLists(q, tenant) PROVE FALSE
      BY <3>1, <3>6 DEF PruneLists
    <3>7. ~(AgePasses \/ \E i \in DOMAIN mem : Expires(i) \/ Tampered(i))
      BY <3>2 DEF AgePasses, Expires, Tampered
    <3>8. \E q \in Procs : Step(q)
      BY <3>3, <3>4, <3>5, <3>6, <3>7 DEF Next
    <3>9. Step(p)
      BY <3>8 DEF OneRequest
    <3> QED BY <2>0, <3>9 DEF Step, TransitionWrites, SupersedeNames, SupersedeRefused, PruneReads, PruneFails,
            RepairWrites, StatementFails
  <2> QED BY <2>0, <2>1 DEF UsageWrites, ReadIsCurrent, Record
<1>2. Spec => []ReadIsCurrent
  BY ReadsAreCurrent
<1> QED BY <1>1, <1>2, Invariance, PTL DEF Spec, EveryUseCounts
=============================================================================
