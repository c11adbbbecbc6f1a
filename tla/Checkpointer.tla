---------------------------- MODULE Checkpointer ----------------------------
(***************************************************************************)
(* The run journal: Append and Load of the run_checkpoints table           *)
(* (go/internal/store/checkpointer.go) and the RunState a loop resumes     *)
(* from (go/internal/checkpoint/checkpoint.go).                            *)
(*                                                                         *)
(* An append is one transaction at READ COMMITTED, one step per statement. *)
(* Appends of one run serialise on an advisory lock; the table's primary   *)
(* key and its (run, seq) constraint stay behind it.  A run stands for the *)
(* pair (tenant, run id); the lock hashes the run id alone, so that two    *)
(* runs may share one.                                                     *)
(***************************************************************************)
EXTENDS Integers

CONSTANTS
    Appends,   \* the calls of Append
    Runs,      \* (tenant, run id) pairs
    SubRuns,   \* delegation paths, the root's included
    Steps,     \* step ids
    Payloads,  \* JSON documents, NULL included
    LockOf,    \* hashtext(run_id)
    Nobody     \* the holder of a free lock

Phases == {"attempted", "completed"}

ASSUME NobodyAssumption == Nobody \notin Appends
ASSUME LockOfAssumption == LockOf \in [Runs -> Nat]

Locks == {LockOf[r] : r \in Runs}

Entry == [run : Runs, sub : SubRuns, step : Steps, phase : Phases, payload : Payloads]
Record == [run : Runs, sub : SubRuns, step : Steps, phase : Phases, payload : Payloads,
           seq : Nat]

VARIABLES
    table,     \* the committed rows of run_checkpoints
    holder,    \* holder[l]: the transaction that holds advisory lock l
    pc,        \* pc[a]: the next statement of append a
    entry,     \* entry[a]: the entry it appends
    tuple,     \* tuple[a]: the row it found or inserted, {} before
    answer,    \* answer[a]: the AppendResult or the error
    view       \* the last RunState a Load built, with the rows it was built from

vars == <<table, holder, pc, entry, tuple, answer, view>>

\* "ok" is an AppendResult; "conflict" is the error of a violated constraint.
Answers == [kind : {"none", "ok", "conflict", "error"}, seq : Nat,
            duplicate : BOOLEAN, diverged : BOOLEAN]
Failure(kind) == [kind |-> kind, seq |-> 0, duplicate |-> FALSE, diverged |-> FALSE]

NoEntry == [run |-> Nobody, sub |-> Nobody, step |-> Nobody, phase |-> Nobody,
            payload |-> Nobody]
NoView == [run |-> Nobody, sub |-> Nobody, records |-> {}, nextSeq |-> 0, known |-> {}]

Init ==
    /\ table = {}
    /\ holder = [l \in Locks |-> Nobody]
    /\ pc = [a \in Appends |-> "idle"]
    /\ entry = [a \in Appends |-> NoEntry]
    /\ tuple = [a \in Appends |-> {}]
    /\ answer = [a \in Appends |-> Failure("none")]
    /\ view = NoView

-----------------------------------------------------------------------------
(* The table. *)

RowsOf(rows, run) == {r \in rows : r.run = run}

\* PRIMARY KEY (tenant_id, run_id, sub_run_id, step_id, phase)
SameKey(r, e) == r.run = e.run /\ r.sub = e.sub /\ r.step = e.step /\ r.phase = e.phase

\* UNIQUE (tenant_id, run_id, seq)
SameSeq(r, q) == r.run = q.run /\ r.seq = q.seq

Clash(r, q) == SameKey(r, q) \/ SameSeq(r, q)

\* Mutant of NextSeqIn: COALESCE(MAX(seq), 0) + 1.
NextSeqFromOne(rows) ==
    IF rows = {} THEN 1
    ELSE (CHOOSE r \in rows : \A q \in rows : q.seq <= r.seq).seq + 1

\* COALESCE(MAX(seq), -1) + 1
NextSeqIn(rows) ==
    IF rows = {} THEN 0
    ELSE (CHOOSE r \in rows : \A q \in rows : q.seq <= r.seq).seq + 1

RowFor(e, n) ==
    [run |-> e.run, sub |-> e.sub, step |-> e.step, phase |-> e.phase,
     payload |-> e.payload, seq |-> n]

-----------------------------------------------------------------------------
(* Append. *)

LockFor(a) == LockOf[entry[a].run]

Goto(a, from, to) ==
    /\ pc[a] = from
    /\ pc' = [pc EXCEPT ![a] = to]

\* The end of the transaction, committed or rolled back, frees its lock.
Unlock(a) ==
    holder' = [l \in Locks |-> IF holder[l] = a THEN Nobody ELSE holder[l]]

Finish(a, r) == answer' = [answer EXCEPT ![a] = r]

Begin(a, e) ==
    /\ Goto(a, "idle", "lock")
    /\ entry' = [entry EXCEPT ![a] = e]
    /\ UNCHANGED <<table, holder, tuple, answer, view>>

\* Mutant of Lock: the append goes on without the lock.
LockSkipped(a) ==
    /\ Goto(a, "lock", "select")
    /\ UNCHANGED <<table, holder, entry, tuple, answer, view>>

\* pg_advisory_xact_lock waits.
Lock(a) ==
    /\ Goto(a, "lock", "select")
    /\ holder[LockFor(a)] = Nobody
    /\ holder' = [holder EXCEPT ![LockFor(a)] = a]
    /\ UNCHANGED <<table, entry, tuple, answer, view>>

SelectExisting(a) ==
    LET existing == {r \in table : SameKey(r, entry[a])}
    IN  /\ Goto(a, "select", IF existing = {} THEN "insert" ELSE "duplicate")
        /\ tuple' = [tuple EXCEPT ![a] = existing]
        /\ UNCHANGED <<table, holder, entry, answer, view>>

\* INSERT ... SELECT MAX(seq) + 1: the position is computed from the statement's
\* snapshot, and stays what it was.
Insert(a) ==
    /\ Goto(a, "insert", "index")
    /\ tuple' = [tuple EXCEPT ![a] = {RowFor(entry[a], NextSeqIn(RowsOf(table, entry[a].run)))}]
    /\ UNCHANGED <<table, holder, entry, answer, view>>

\* The row goes into the two unique indexes: an entry of an open transaction is
\* waited for; a committed one fails the statement, and with it the append.
Index(a) ==
    LET clashes(rows) == \E r \in rows, new \in tuple[a] : Clash(r, new)
    IN  /\ ~\E b \in Appends : pc[b] = "inserted" /\ clashes(tuple[b])
        /\ \/ /\ ~clashes(table)
              /\ Goto(a, "index", "inserted")
              /\ UNCHANGED <<holder, answer>>
           \/ /\ clashes(table)
              /\ Goto(a, "index", "done")
              /\ Finish(a, Failure("conflict"))
              /\ Unlock(a)
        /\ UNCHANGED <<table, entry, tuple, view>>

Commit(a) ==
    /\ Goto(a, "inserted", "done")
    /\ table' = table \cup tuple[a]
    /\ \E r \in tuple[a] :
           Finish(a, [kind |-> "ok", seq |-> r.seq, duplicate |-> FALSE, diverged |-> FALSE])
    /\ Unlock(a)
    /\ UNCHANGED <<entry, tuple, view>>

\* Mutant of CommitDuplicate: the divergence is swallowed.
CommitSwallowing(a) ==
    /\ Goto(a, "duplicate", "done")
    /\ \E r \in tuple[a] :
           Finish(a, [kind |-> "ok", seq |-> r.seq, duplicate |-> TRUE, diverged |-> FALSE])
    /\ Unlock(a)
    /\ UNCHANGED <<table, entry, tuple, view>>

\* The first write is the durable one: nothing is written, the divergence is
\* reported.
CommitDuplicate(a) ==
    /\ Goto(a, "duplicate", "done")
    /\ \E r \in tuple[a] :
           Finish(a, [kind |-> "ok", seq |-> r.seq, duplicate |-> TRUE,
                      diverged |-> r.payload # entry[a].payload])
    /\ Unlock(a)
    /\ UNCHANGED <<table, entry, tuple, view>>

\* Any statement fails, the caller hangs up or its process dies: the transaction
\* rolls back, except that a commit may have landed when its acknowledgement is lost.
Fail(a) ==
    /\ pc[a] \in {"lock", "select", "insert", "index", "duplicate", "inserted"}
    /\ pc' = [pc EXCEPT ![a] = "done"]
    /\ \/ UNCHANGED table
       \/ pc[a] = "inserted" /\ table' = table \cup tuple[a]
    /\ Finish(a, Failure("error"))
    /\ Unlock(a)
    /\ UNCHANGED <<entry, tuple, view>>

-----------------------------------------------------------------------------
(* Load and RunState. *)

\* Mutant of Load: NewRunState on the filtered records.
LoadFiltered(run, sub) ==
    LET rows == RowsOf(table, run)
        records == {r \in rows : r.sub = sub}
    IN  /\ view' = [run |-> run, sub |-> sub, records |-> records,
                    nextSeq |-> NextSeqIn(records), known |-> rows]
        /\ UNCHANGED <<table, holder, pc, entry, tuple, answer>>

\* One SELECT over the whole run: the records are filtered by sub-run, the next
\* sequence is not.
Load(run, sub) ==
    LET rows == RowsOf(table, run)
    IN  /\ view' = [run |-> run, sub |-> sub, records |-> {r \in rows : r.sub = sub},
                    nextSeq |-> NextSeqIn(rows), known |-> rows]
        /\ UNCHANGED <<table, holder, pc, entry, tuple, answer>>

HasRecord(records, sub, step, phase) ==
    \E r \in records : r.sub = sub /\ r.step = step /\ r.phase = phase

\* Mutant of StepCompleted: the phase is not looked at.
StepSeen(records, sub, step) == \E r \in records : r.sub = sub /\ r.step = step

StepCompleted(records, sub, step) == HasRecord(records, sub, step, "completed")

\* Mutant of StepAttempted: intent with a result.
StepAttemptedAndDone(records, sub, step) ==
    HasRecord(records, sub, step, "attempted") /\ HasRecord(records, sub, step, "completed")

\* Intent without a result: exclusive of StepCompleted.
StepAttempted(records, sub, step) ==
    HasRecord(records, sub, step, "attempted") /\ ~HasRecord(records, sub, step, "completed")

\* How a run was journalled, derived from its records.
DurabilityLevel(records) ==
    LET steps == {<<r.sub, r.step>> : r \in records}
        intent == {<<r.sub, r.step>> : r \in {q \in records : q.phase = "attempted"}}
    IN  CASE steps = {} -> "unknown"
          [] steps # {} /\ intent = steps -> "per_step"
          [] steps # {} /\ intent = {} -> "per_activity"
          [] OTHER -> "mixed"

-----------------------------------------------------------------------------
Step(a) == Lock(a) \/ SelectExisting(a) \/ Insert(a) \/ Index(a) \/ Commit(a) \/ CommitDuplicate(a)

Finished == (\A a \in Appends : pc[a] = "done") /\ UNCHANGED vars

Next ==
    \/ \E a \in Appends, e \in Entry : Begin(a, e)
    \/ \E a \in Appends : Step(a) \/ Fail(a)
    \/ \E run \in Runs, sub \in SubRuns : Load(run, sub)
    \/ Finished

Spec == Init /\ [][Next]_vars

-----------------------------------------------------------------------------
(* Properties. *)

Locations == {"idle", "lock", "select", "insert", "index", "inserted", "duplicate", "done"}

InTransaction(a) == pc[a] \in {"select", "insert", "index", "inserted", "duplicate"}

\* Type correctness of the journal and of the appends.
TypeOK ==
    /\ table \subseteq Record
    /\ holder \in [Locks -> Appends \cup {Nobody}]
    /\ pc \in [Appends -> Locations]
    /\ entry \in [Appends -> Entry \cup {NoEntry}]
    /\ tuple \in [Appends -> SUBSET Record]
    /\ answer \in [Appends -> Answers]

\* A run's appends go on one at a time, and a lock is never left behind: it is held
\* by the one transaction that is past it, also when that one dies.
LockIsHeld ==
    /\ \A a \in Appends : InTransaction(a) => holder[LockFor(a)] = a
    /\ \A l \in Locks : holder[l] # Nobody => InTransaction(holder[l])

\* "Serialising per run turns a retry loop into a wait" (Append): the position is
\* read in one statement and unique in another, and an append never loses to the
\* table's constraints, however the appends of a run interleave and fail.
NoAppendConflicts == \A a \in Appends : answer[a].kind # "conflict"

\* The positions of a run's journal are 0, 1, ... without a gap and without a
\* repetition, whatever failed, and a step has one record per phase.
SeqIsDense ==
    /\ \A r, q \in table : Clash(r, q) => r = q
    /\ \A r \in table : \A n \in 0 .. r.seq : \E q \in table : q.run = r.run /\ q.seq = n

\* The journal is append-only, and in the order of its positions: no step
\* changes or removes a row, and a row that appears comes after all of its run.
AppendOnly ==
    [][/\ table \subseteq table'
       /\ \A new \in table' \ table : \A old \in RowsOf(table, new.run) : old.seq < new.seq]_vars

\* What Append answers is in the journal and stays there: the position named
\* holds the caller's key, with the caller's payload unless diverged was said.
AcknowledgedIsDurable ==
    \A a \in Appends : answer[a].kind = "ok" =>
        \E r \in table :
            /\ SameKey(r, entry[a])
            /\ r.seq = answer[a].seq
            /\ answer[a].diverged <=> r.payload # entry[a].payload

\* A RunState stays a prefix of the journal after it is loaded: every row below
\* its NextSeq was seen, and the rows of the sub-run are in it.  A sub-run never
\* continues at a position a sibling had already written.
LoadedIsPrefix ==
    view # NoView =>
        /\ view.known = {r \in RowsOf(table, view.run) : r.seq < view.nextSeq}
        /\ view.records = {r \in view.known : r.sub = view.sub}

=============================================================================
