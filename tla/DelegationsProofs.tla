------------------------- MODULE DelegationsProofs -------------------------
(***************************************************************************)
(* Proofs about the delegation proxy for any number of concurrent calls,   *)
(* runs, remote agents and policies: the width of a run, what is taken for *)
(* over, and what the policy lets through.                                 *)
(***************************************************************************)
EXTENDS Delegations, FiniteSetTheorems, SequenceTheorems, TLAPS

-----------------------------------------------------------------------------
(* The types. *)

\* What the table keeps of a delegation, what a remote agent answers, and what
\* the handler of a call knows.
RowRec == [run : Runs \cup {NoRun}, task : TaskIds \cup {None}, open : BOOLEAN, stale : BOOLEAN]
AnswerRec == [kind : {"none", "task", "message", "error"}, task : TaskIds \cup {None},
              state : RemoteStates \cup TerminalStates \cup {"none"}]
CallRec == [pc : {"idle", "lock", "insert", "forward", "record"},
            asked : Requests \cup {NoRequest}, task : TaskIds \cup {None}, row : Nat,
            answer : AnswerRec]

\* The types, and that only a request with a run waits for the lock of one.
Shape ==
    /\ rows \in Seq(RowRec)
    /\ tasks \in [Tasks -> RemoteStates \cup TerminalStates \cup {"none"}]
    /\ calls \in [Calls -> CallRec]
    /\ lock \in [Runs -> Calls \cup {None}]
    /\ begun \subseteq [row : Nat, task : Tasks]
    /\ \A c \in Calls : calls[c].pc = "lock" => MaxInFlight > 0 /\ calls[c].asked.run \in Runs

\* A call that has opened a row has it to itself until it records: the row is
\* open and names no task yet.
OwnsItsRow ==
    \A c \in Calls : calls[c].row # None =>
        /\ calls[c].pc \in {"forward", "record"}
        /\ calls[c].row \in 1..Len(rows)
        /\ rows[calls[c].row].open /\ rows[calls[c].row].task = None
        /\ \A d \in Calls : calls[d].row = calls[c].row => d = c

\* What an answer says of a task is so at the remote agent that was asked, and only
\* a task has an id.
TellsTheTruth ==
    \A c \in Calls : calls[c].pc = "record" =>
        /\ calls[c].answer.kind # "task" => calls[c].answer.task = None
        /\ calls[c].answer.kind = "task" =>
            /\ <<calls[c].asked.remote, calls[c].answer.task>> \in Tasks
            /\ Terminal(calls[c].answer.state) => Terminal(tasks[<<calls[c].asked.remote, calls[c].answer.task>>])

\* A call that makes a remote agent work has a row, and a row under which a task was
\* begun belongs to nobody or to the call that is about to record the answer of that
\* task; the row names that task or none, and once it is closed it names none, or
\* some remote agent's task of that id has ended.
BegunByItsRow ==
    /\ \A c \in Calls : calls[c].pc = "forward" /\ StartsWork(calls[c].asked.method) => calls[c].row # None
    /\ \A b \in begun :
        /\ b.row \in 1..Len(rows)
        /\ rows[b.row].task \in {None, b.task[2]}
        /\ \/ rows[b.row].open
           \/ rows[b.row].task = None
           \/ \E r \in Remotes : Terminal(tasks[<<r, b.task[2]>>])
        /\ \A c \in Calls : calls[c].row = b.row =>
            /\ calls[c].pc = "record"
            /\ calls[c].answer.kind = "task" => calls[c].answer.task = b.task[2]

\* Who is about to insert holds the lock of its run and has found room.
Inserting(c, r) == calls[c].pc = "insert" /\ calls[c].asked.run = r /\ MaxInFlight > 0
FoundRoom ==
    \A c \in Calls, r \in Runs : Inserting(c, r) => lock[r] = c /\ InFlight(r) < MaxInFlight

-----------------------------------------------------------------------------
(* Lemmas about the table. *)

\* A request names a run or none.
LEMMA RunOfCall ==
  ASSUME Shape, NEW c \in Calls
  PROVE  calls[c].asked.run \in Runs \cup {NoRun}
  BY RequestsAssumption DEF Shape, CallRec, NoRequest

\* The rows are numbered.
LEMMA RowsAreNumbered ==
  ASSUME Shape
  PROVE  /\ Len(rows) \in Nat /\ DOMAIN rows = 1..Len(rows)
         /\ \A i \in 1..Len(rows) : rows[i] \in RowRec
  BY LenProperties DEF Shape

\* A new row goes to the end.
LEMMA AppendedRow ==
  ASSUME Shape, NEW row \in RowRec
  PROVE  /\ Append(rows, row) \in Seq(RowRec)
         /\ DOMAIN Append(rows, row) = 1..(Len(rows) + 1)
         /\ \A i \in 1..Len(rows) : Append(rows, row)[i] = rows[i]
         /\ Append(rows, row)[Len(rows) + 1] = row
  BY RowsAreNumbered DEF Shape

\* A statement that updates rows one by one leaves a table of as many rows.
LEMMA UpdatedRows ==
  ASSUME Shape, NEW R, DOMAIN R = DOMAIN rows, \A i \in DOMAIN rows : R[i] \in RowRec,
         R = [i \in DOMAIN R |-> R[i]]
  PROVE  R \in Seq(RowRec)
<1>1. R \in [1..Len(rows) -> RowRec] /\ Len(rows) \in Nat
  BY RowsAreNumbered
<1> QED BY <1>1

\* The rows that spend the width of a run are finitely many.
LEMMA InFlightCounts ==
  ASSUME Shape, NEW r
  PROVE  /\ InFlight(r) \in Nat
         /\ IsFiniteSet({i \in DOMAIN rows : Counts(rows[i], r)})
<1>1. IsFiniteSet(1..Len(rows))
  BY RowsAreNumbered, FS_Interval
<1>2. {i \in DOMAIN rows : Counts(rows[i], r)} \in SUBSET (1..Len(rows))
  BY RowsAreNumbered
<1>3. IsFiniteSet({i \in DOMAIN rows : Counts(rows[i], r)})
  BY <1>1, <1>2, FS_Subset
<1> QED BY <1>3, FS_CardinalityType DEF InFlight

\* The same, before and after a step.
WidthIsCounted == \A r \in Runs : InFlight(r) \in Nat

\* In the state before a step and in the state after it the width is a number.
LEMMA InFlightIsNat == Shape => WidthIsCounted
  BY InFlightCounts DEF WidthIsCounted

\* The same of the next state.
LEMMA InFlightIsNatNext == Shape' => WidthIsCounted'
  BY InFlightIsNat, PTL

\* A step after which no other row counts does not take width.
LEMMA NoMoreInFlight ==
  ASSUME Shape, NEW r,
         \A i \in DOMAIN rows' : Counts(rows[i], r)' => i \in DOMAIN rows /\ Counts(rows[i], r)
  PROVE  InFlight(r)' <= InFlight(r)
<1>1. {i \in DOMAIN rows : Counts(rows[i], r)}' \in SUBSET {i \in DOMAIN rows : Counts(rows[i], r)}
  OBVIOUS
<1> QED BY <1>1, InFlightCounts, FS_Subset DEF InFlight

\* What recording an answer does: rows keep their run and their age, no row
\* opens, only the call's own row learns a task, and a row is closed under a task
\* only when the task of that id is over at the remote agent that was asked.
LEMMA RecordedRows ==
  ASSUME Shape, OwnsItsRow, TellsTheTruth, NEW c \in Calls, calls[c].pc = "record"
  PROVE  /\ Recorded(c) \in Seq(RowRec) /\ DOMAIN Recorded(c) = DOMAIN rows
         /\ \A i \in DOMAIN rows :
              /\ Recorded(c)[i] \in RowRec
              /\ Recorded(c)[i].run = rows[i].run /\ Recorded(c)[i].stale = rows[i].stale
              /\ Recorded(c)[i].open => rows[i].open
              /\ i # calls[c].row /\ rows[i].task = None => Recorded(c)[i] = rows[i]
              /\ Recorded(c)[i].task = IF i = calls[c].row THEN calls[c].answer.task ELSE rows[i].task
              /\ \/ Recorded(c)[i] = rows[i]
                 \/ Recorded(c)[i].open
                 \/ Recorded(c)[i].task = None
                 \/ /\ <<calls[c].asked.remote, Recorded(c)[i].task>> \in Tasks
                    /\ Terminal(tasks[<<calls[c].asked.remote, Recorded(c)[i].task>>])
<1> DEFINE R == Recorded(c)
           mine == calls[c].row
           answer == calls[c].answer
           Ended(task) == <<calls[c].asked.remote, task>> \in Tasks /\ Terminal(tasks[<<calls[c].asked.remote, task>>])
<1>0. /\ DOMAIN rows = 1..Len(rows) /\ \A i \in DOMAIN rows : rows[i] \in RowRec
      /\ answer \in AnswerRec /\ mine \in Nat /\ None \notin DOMAIN rows
  BY RowsAreNumbered DEF Shape, CallRec, None
<1>1. /\ mine # None => mine \in DOMAIN rows /\ rows[mine].open /\ rows[mine].task = None
      /\ answer.kind # "task" => answer.task = None
      /\ answer.task # None /\ Finished(answer) => Ended(answer.task)
  BY <1>0 DEF OwnsItsRow, TellsTheTruth, Finished
<1> SUFFICES /\ DOMAIN R = DOMAIN rows /\ R = [i \in DOMAIN R |-> R[i]]
             /\ \A i \in DOMAIN rows :
                  /\ R[i] \in RowRec
                  /\ R[i].run = rows[i].run /\ R[i].stale = rows[i].stale
                  /\ R[i].open => rows[i].open
                  /\ i # mine /\ rows[i].task = None => R[i] = rows[i]
                  /\ R[i].task = IF i = mine THEN answer.task ELSE rows[i].task
                  /\ R[i] = rows[i] \/ R[i].open \/ R[i].task = None \/ Ended(R[i].task)
  BY UpdatedRows
\* The rows under the call's own number and under no other.
<1>2. ASSUME NEW e \in RowRec, R = [rows EXCEPT ![mine] = e], mine # None,
             e.run = rows[mine].run, e.stale = rows[mine].stale,
             e.task = answer.task, e.open \/ e.task = None \/ Ended(e.task)
      PROVE  /\ DOMAIN R = DOMAIN rows /\ R = [i \in DOMAIN R |-> R[i]]
             /\ \A i \in DOMAIN rows :
                  /\ R[i] \in RowRec
                  /\ R[i].run = rows[i].run /\ R[i].stale = rows[i].stale
                  /\ R[i].open => rows[i].open
                  /\ i # mine /\ rows[i].task = None => R[i] = rows[i]
                  /\ R[i].task = IF i = mine THEN answer.task ELSE rows[i].task
                  /\ R[i] = rows[i] \/ R[i].open \/ R[i].task = None \/ Ended(R[i].task)
  <2> HIDE DEF R, mine, answer, Ended
  <2> QED BY <1>0, <1>1, <1>2
<1>3. CASE mine # None /\ answer.kind = "none"
  <2> DEFINE e == [rows[mine] EXCEPT !.open = FALSE]
  <2>1. /\ e \in RowRec /\ e.run = rows[mine].run /\ e.stale = rows[mine].stale
        /\ e.task = None /\ answer.task = None
    BY <1>0, <1>1, <1>3 DEF RowRec
  <2>2. R = CloseRow(mine, None)
    BY <1>3 DEF Recorded, Finished
  <2>3. e = [Observed(rows[mine], None) EXCEPT !.open = FALSE]
    BY <1>0, <1>1, <1>3 DEF Observed, RowRec
  <2>4. R = [rows EXCEPT ![mine] = e]
    <3> HIDE DEF e, R, mine
    <3> QED BY <2>2, <2>3, Zenon DEF CloseRow
  <2> QED BY <1>2, <1>3, <2>1, <2>4
<1>4. CASE mine # None /\ answer.kind # "none" /\ Finished(answer)
  <2> DEFINE e == [rows[mine] EXCEPT !.task = answer.task, !.open = FALSE]
  <2>1. /\ e \in RowRec /\ e.run = rows[mine].run /\ e.stale = rows[mine].stale
        /\ e.task = answer.task /\ (e.task = None \/ Ended(e.task))
    BY <1>0, <1>1, <1>4 DEF RowRec, AnswerRec
  <2>2. R = CloseRow(mine, answer.task)
    BY <1>4 DEF Recorded
  <2>3. e = [Observed(rows[mine], answer.task) EXCEPT !.open = FALSE]
    BY <1>0, <1>1, <1>4 DEF Observed, RowRec, AnswerRec
  <2>4. R = [rows EXCEPT ![mine] = e]
    <3> HIDE DEF e, R, mine, answer
    <3> QED BY <2>2, <2>3, Zenon DEF CloseRow
  <2> QED BY <1>2, <1>4, <2>1, <2>4
<1>5. CASE mine # None /\ answer.kind # "none" /\ ~Finished(answer)
  <2> DEFINE e == [rows[mine] EXCEPT !.task = answer.task]
  <2>1. /\ e \in RowRec /\ e.run = rows[mine].run /\ e.stale = rows[mine].stale
        /\ e.open /\ e.task = answer.task
    BY <1>0, <1>1, <1>5 DEF RowRec, AnswerRec
  <2>2. R = Observe(mine, answer.task)
    BY <1>5 DEF Recorded
  <2>3. R = [rows EXCEPT ![mine] = e]
    BY <1>0, <1>1, <1>5, <2>2, ZenonT(30) DEF Observe, Observed, RowRec
  <2> QED BY <1>2, <1>5, <2>1, <2>3
<1>6. CASE mine = None /\ Finished(answer) /\ answer.task # None
  <2>1. R = CloseByTaskID(calls[c].asked.run, answer.task)
    BY <1>6 DEF Recorded
  <2>2. /\ DOMAIN R = DOMAIN rows /\ R = [i \in DOMAIN R |-> R[i]]
        /\ \A i \in DOMAIN rows : i # mine /\ (R[i] = rows[i] \/ R[i] = [rows[i] EXCEPT !.open = FALSE])
        /\ \A i \in DOMAIN rows : rows[i].task # answer.task => R[i] = rows[i]
    <3> HIDE DEF R, mine, answer
    <3> QED BY <1>0, <1>6, <2>1, ZenonT(30) DEF CloseByTaskID
  <2>3. ASSUME NEW i \in DOMAIN rows
        PROVE  /\ R[i] \in RowRec /\ R[i].run = rows[i].run /\ R[i].stale = rows[i].stale
               /\ R[i].task = rows[i].task /\ (R[i].open => rows[i].open)
    <3> DEFINE closed == [rows[i] EXCEPT !.open = FALSE]
    <3>1. /\ closed \in RowRec /\ closed.run = rows[i].run /\ closed.stale = rows[i].stale
          /\ closed.task = rows[i].task /\ ~closed.open
      BY <1>0 DEF RowRec
    <3> HIDE DEF R, mine, answer
    <3>2. R[i] = rows[i] \/ R[i] = closed
      BY <2>2
    <3> HIDE DEF closed
    <3> QED BY <1>0, <3>1, <3>2
  <2> HIDE DEF R, mine, answer, Ended
  <2> QED BY <1>0, <1>1, <1>6, <2>2, <2>3
<1>7. CASE mine = None /\ ~(Finished(answer) /\ answer.task # None)
  <2>1. R = rows
    BY <1>7 DEF Recorded
  <2> HIDE DEF R, mine, answer, Ended
  <2> QED BY <1>0, <1>7, <2>1, LenProperties DEF Shape
<1> QED BY <1>3, <1>4, <1>5, <1>6, <1>7

-----------------------------------------------------------------------------
(* One step. *)

\* The table is empty, nobody calls and no lock is taken.
LEMMA ShapeInit == Init => Shape
  BY EmptySeq DEF Init, Shape, IdleCall, NoRequest, Answer, CallRec, AnswerRec, None

\* A row as the handlers write it.
LEMMA RowIsRow ==
  ASSUME NEW run \in Runs \cup {NoRun}, NEW open \in BOOLEAN
  PROVE  Row(run, open) \in RowRec
  BY DEF Row, RowRec

\* A call that has ended is ready for the next request.
LEMMA IdleIsCall == IdleCall \in CallRec
  BY DEF IdleCall, NoRequest, Answer, CallRec, AnswerRec, None

\* Every step keeps the types; one step of the proof per action.
LEMMA ShapeNext == Shape /\ OwnsItsRow /\ TellsTheTruth /\ [Next]_vars => Shape'
<1> SUFFICES ASSUME Shape, OwnsItsRow, TellsTheTruth, [Next]_vars PROVE Shape'
  OBVIOUS
<1> USE IdleIsCall DEF Goes, Arrives
<1>0. /\ calls \in [Calls -> CallRec] /\ lock \in [Runs -> Calls \cup {None}]
      /\ rows \in Seq(RowRec) /\ Len(rows) \in Nat
      /\ tasks \in [Tasks -> RemoteStates \cup TerminalStates \cup {"none"}]
      /\ begun \subseteq [row : Nat, task : Tasks]
      /\ \A c \in Calls : calls[c].pc = "lock" => MaxInFlight > 0 /\ calls[c].asked.run \in Runs
      /\ \A c \in Calls : calls[c].asked.run \in Runs \cup {NoRun}
      /\ IdleCall.pc = "idle"
  BY RunOfCall, RowsAreNumbered DEF Shape, IdleCall
<1>1. CASE UNCHANGED vars
  BY <1>1 DEF vars, Shape
<1>2. ASSUME NEW c \in Calls, NEW q \in Requests, Refuse(c, q) PROVE Shape'
  <2>1. RecordDenial(q.run) \in Seq(RowRec)
    BY RequestsAssumption, RowIsRow, AppendedRow DEF RecordDenial
  <2> QED BY <1>2, <2>1 DEF Refuse, Shape
<1>3. ASSUME NEW c \in Calls, NEW q \in Requests, RefuseUnserved(c, q) PROVE Shape'
  BY <1>3 DEF RefuseUnserved, Shape
<1>4. ASSUME NEW c \in Calls, NEW q \in Requests, NEW task \in TaskIds \cup {None},
             Authorize(c, q, task)
      PROVE  Shape'
  <2>1. \E e \in CallRec : /\ calls' = [calls EXCEPT ![c] = e]
                           /\ e.pc = "lock" => MaxInFlight > 0 /\ e.asked.run \in Runs
    <3> DEFINE w == IF ~StartsWork(q.method) THEN "forward"
                    ELSE IF MaxInFlight = 0 \/ q.run = NoRun THEN "insert" ELSE "lock"
               e == [IdleCall EXCEPT !.asked = q, !.task = task, !.pc = w]
    <3>1. /\ w \in {"forward", "insert", "lock"}
          /\ w = "lock" => MaxInFlight > 0 /\ q.run \in Runs
      BY RequestsAssumption, WidthAssumption
    <3>2. calls' = [calls EXCEPT ![c] = e]
      BY <1>4 DEF Authorize
    <3> HIDE DEF w
    <3>3. e \in CallRec /\ e.pc = w /\ e.asked = q
      BY <3>1 DEF CallRec
    <3> QED BY <3>1, <3>2, <3>3
  <2> QED BY <1>0, <1>4, <2>1 DEF Authorize, Shape
<1>5. ASSUME NEW c \in Calls, OpenCounts(c) \/ DenyFanOut(c) PROVE Shape'
  <2>1. RecordDenial(calls[c].asked.run) \in Seq(RowRec)
    BY <1>0, RowIsRow, AppendedRow DEF RecordDenial
  <2>2. /\ rows' \in Seq(RowRec) /\ calls' \in [Calls -> CallRec]
        /\ lock' \in [Runs -> Calls \cup {None}] /\ UNCHANGED <<tasks, begun>>
        /\ \A d \in Calls : calls'[d].pc = "lock" => calls'[d] = calls[d]
    <3>1. CASE DenyFanOut(c)
      BY <1>0, <2>1, <3>1 DEF DenyFanOut
    <3>2. CASE OpenCounts(c)
      <4>1. [calls[c] EXCEPT !.pc = "insert"] \in CallRec
        BY <1>0 DEF CallRec
      <4> QED BY <1>0, <3>2, <4>1 DEF OpenCounts, CallRec
    <3> QED BY <1>5, <3>1, <3>2
  <2> QED BY <1>0, <2>2 DEF Shape
<1>6. ASSUME NEW c \in Calls, OpenInserts(c) PROVE Shape'
  <2>1. rows' \in Seq(RowRec)
    BY <1>0, <1>6, RowIsRow, AppendedRow DEF OpenInserts, InsertsRow
  <2> DEFINE e == [calls[c] EXCEPT !.pc = "forward", !.row = Len(rows) + 1]
  <2>3. e \in CallRec /\ e.pc = "forward"
    <3>1. ASSUME NEW n \in Nat
          PROVE  /\ [calls[c] EXCEPT !.pc = "forward", !.row = n] \in CallRec
                 /\ [calls[c] EXCEPT !.pc = "forward", !.row = n].pc = "forward"
      BY <1>0 DEF CallRec
    <3>2. Len(rows) + 1 \in Nat
      BY <1>0
    <3> QED BY <3>1, <3>2
  <2>4. calls' = [calls EXCEPT ![c] = e] /\ UNCHANGED <<tasks, begun>>
    BY <1>6 DEF OpenInserts
  <2>5. lock' \in [Runs -> Calls \cup {None}]
    BY <1>0, <1>6 DEF OpenInserts, InsertsRow, Unlocked
  <2> HIDE DEF e
  <2>2. /\ calls' \in [Calls -> CallRec]
        /\ lock' \in [Runs -> Calls \cup {None}] /\ UNCHANGED <<tasks, begun>>
        /\ \A d \in Calls : calls'[d].pc = "lock" => calls'[d] = calls[d]
    BY <1>0, <2>3, <2>4, <2>5
  <2> QED BY <1>0, <2>1, <2>2 DEF Shape
<1>7. ASSUME NEW c \in Calls, OpenFails(c) PROVE Shape'
  BY <1>0, <1>7 DEF OpenFails, Unlocked, Shape
<1>16. ASSUME NEW c \in Calls, OpenUnacknowledged(c) PROVE Shape'
  <2>1. rows' \in Seq(RowRec)
    BY <1>0, <1>16, RowIsRow, AppendedRow DEF OpenUnacknowledged, InsertsRow
  <2> QED BY <1>0, <1>16, <2>1 DEF OpenUnacknowledged, InsertsRow, Unlocked, Shape
<1>17. ASSUME NEW c \in Calls, ForwardFails(c) PROVE Shape'
  <2>1. Answer("none", None, "none") \in AnswerRec
    BY DEF Answer, AnswerRec
  <2>2. /\ calls' \in [Calls -> CallRec]
        /\ \A d \in Calls : calls'[d].pc = "lock" => calls'[d] = calls[d]
    BY <1>0, <1>17, <2>1 DEF ForwardFails, Answers, CallRec
  <2> QED BY <1>0, <1>17, <2>2 DEF ForwardFails, Shape
<1>8. ASSUME NEW c \in Calls, RemoteWorks(c) PROVE Shape'
  <2>1. PICK t \in TaskOf(c) : \E state \in StateAfter(tasks[t]) :
          /\ tasks' = [tasks EXCEPT ![t] = state]
          /\ begun' = begun \cup {[row |-> calls[c].row, task |-> t]}
          /\ \/ Answers(c, Answer("task", t[2], state)) /\ UNCHANGED faults
             \/ /\ faults < MaxFaults /\ faults' = faults + 1
                /\ \/ Answers(c, Answer("none", None, "none"))
                   \/ Goes(c, IdleCall)
    BY <1>8 DEF RemoteWorks
  <2>2. PICK state \in StateAfter(tasks[t]) :
          /\ tasks' = [tasks EXCEPT ![t] = state]
          /\ \/ Answers(c, Answer("task", t[2], state))
             \/ Answers(c, Answer("none", None, "none"))
             \/ Goes(c, IdleCall)
    BY <2>1
  <2>3. t \in Tasks /\ t[2] \in TaskIds
    BY DEF TaskOf, Tasks
  <2>4. state \in RemoteStates \cup TerminalStates
    BY DEF StateAfter
  <2>5. Answer("task", t[2], state) \in AnswerRec /\ Answer("none", None, "none") \in AnswerRec
    BY <2>3, <2>4 DEF Answer, AnswerRec
  <2>6. /\ calls' \in [Calls -> CallRec]
        /\ \A d \in Calls : calls'[d].pc = "lock" => calls'[d] = calls[d]
    <3>1. ASSUME NEW answer \in AnswerRec
          PROVE  /\ [calls[c] EXCEPT !.pc = "record", !.answer = answer] \in CallRec
                 /\ [calls[c] EXCEPT !.pc = "record", !.answer = answer].pc = "record"
      BY <1>0 DEF CallRec
    <3>2. CASE Goes(c, IdleCall)
      BY <1>0, <3>2
    <3>3. CASE Answers(c, Answer("task", t[2], state))
      BY <1>0, <2>5, <3>1, <3>3 DEF Answers
    <3>4. CASE Answers(c, Answer("none", None, "none"))
      BY <1>0, <2>5, <3>1, <3>4 DEF Answers
    <3> QED BY <2>2, <3>2, <3>3, <3>4
  <2>7. tasks' \in [Tasks -> RemoteStates \cup TerminalStates \cup {"none"}]
    BY <1>0, <2>2, <2>3, <2>4
  <2>8. begun' \subseteq [row : Nat, task : Tasks]
    <3>1. calls[c].row \in Nat
      BY <1>0 DEF CallRec
    <3> QED BY <1>0, <2>1, <2>3, <3>1
  <2> QED BY <1>0, <1>8, <2>6, <2>7, <2>8 DEF RemoteWorks, Shape
<1>9. ASSUME NEW c \in Calls, RemoteReplies(c) PROVE Shape'
  <2>1. PICK kind \in {"message", "error"} : Answers(c, Answer(kind, None, "none"))
    BY <1>9 DEF RemoteReplies
  <2>2. Answer(kind, None, "none") \in AnswerRec
    BY DEF Answer, AnswerRec
  <2>3. /\ calls' \in [Calls -> CallRec]
        /\ \A d \in Calls : calls'[d].pc = "lock" => calls'[d] = calls[d]
    BY <1>0, <2>1, <2>2 DEF Answers, CallRec
  <2> QED BY <1>0, <1>9, <2>3 DEF RemoteReplies, Shape
<1>10. ASSUME NEW c \in Calls, RemoteTells(c) PROVE Shape'
  <2>0. PICK t \in TaskOf(c) : \E state \in StateAfter(tasks[t]) :
          /\ tasks' = [tasks EXCEPT ![t] = state]
          /\ Answers(c, Answer("task", t[2], state))
    BY <1>10 DEF RemoteTells
  <2>1. PICK state \in StateAfter(tasks[t]) :
          /\ tasks' = [tasks EXCEPT ![t] = state]
          /\ Answers(c, Answer("task", t[2], state))
    BY <2>0
  <2>2. t \in Tasks /\ t[2] \in TaskIds /\ state \in RemoteStates \cup TerminalStates
    BY DEF TaskOf, Tasks, StateAfter
  <2>3. Answer("task", t[2], state) \in AnswerRec
    BY <2>2 DEF Answer, AnswerRec
  <2>4. /\ calls' \in [Calls -> CallRec]
        /\ \A d \in Calls : calls'[d].pc = "lock" => calls'[d] = calls[d]
        /\ tasks' \in [Tasks -> RemoteStates \cup TerminalStates \cup {"none"}]
    BY <1>0, <2>1, <2>2, <2>3 DEF Answers, CallRec
  <2> QED BY <1>0, <1>10, <2>4 DEF RemoteTells, Shape
<1>11. ASSUME NEW c \in Calls, Record(c) PROVE Shape'
  <2>1. rows' \in Seq(RowRec)
    BY <1>0, <1>11, RecordedRows DEF Record
  <2> QED BY <1>0, <1>11, <2>1 DEF Record, Shape
<1>12. ASSUME NEW id \in Remotes, DeclareRemote(id) PROVE Shape'
  BY <1>12 DEF DeclareRemote, Shape
<1>13. ASSUME NEW n, Start(n) PROVE Shape'
  BY <1>13 DEF Start, Shape
<1>14. CASE GoStale
  <2>1. PICK i \in DOMAIN rows : rows' = [rows EXCEPT ![i].stale = TRUE]
    BY <1>14 DEF GoStale
  <2>2. i \in 1..Len(rows) /\ [rows[i] EXCEPT !.stale = TRUE] \in RowRec
    BY RowsAreNumbered DEF RowRec
  <2>3. rows' \in Seq(RowRec)
    BY <1>0, <2>1, <2>2, ExceptSeq
  <2> QED BY <1>14, <2>3 DEF GoStale, Shape
<1>15. CASE Crash
  BY <1>0, <1>15 DEF Crash, Shape
<1> QED
  BY <1>1, <1>2, <1>3, <1>4, <1>5, <1>6, <1>7, <1>8, <1>9, <1>10, <1>11, <1>12, <1>13,
     <1>14, <1>15, <1>16, <1>17
  DEF Next, Request, Step

\* Terminal states are final: the remote agent leaves a task that has ended as it is.
LEMMA EndsAreFinal ==
  ASSUME Shape, OwnsItsRow, TellsTheTruth, [Next]_vars, NEW t \in Tasks, Terminal(tasks[t])
  PROVE  Terminal(tasks'[t])
<1>1. ASSUME NEW c \in Calls, RemoteWorks(c) \/ RemoteTells(c) PROVE Terminal(tasks'[t])
  <2>1. PICK u, state : state \in StateAfter(tasks[u]) /\ tasks' = [tasks EXCEPT ![u] = state]
    BY <1>1 DEF RemoteWorks, RemoteTells
  <2> QED BY <2>1 DEF StateAfter, Terminal, Shape
<1>2. CASE UNCHANGED tasks
  BY <1>2
<1> QED
  BY <1>1, <1>2
  DEF Next, Request, Step, vars, Refuse, RefuseUnserved, Authorize, OpenCounts, DenyFanOut, OpenInserts,
      OpenUnacknowledged, OpenFails, RemoteReplies, ForwardFails, Record, DeclareRemote, Start, GoStale, Crash

\* The inductive invariant behind FreedOnlyWhenOver: a row is closed under a task
\* only by the call that owns it or by a poll of a task of that id, and both know
\* an end.
OverInv == Shape /\ OwnsItsRow /\ TellsTheTruth /\ BegunByItsRow

\* Nothing has been said of any task.
LEMMA OverInit == Init => OverInv
<1> SUFFICES ASSUME Init PROVE OwnsItsRow /\ TellsTheTruth /\ BegunByItsRow
  BY ShapeInit DEF OverInv
<1> QED BY DEF Init, OwnsItsRow, TellsTheTruth, BegunByItsRow, IdleCall, None

\* A call whose record is not about an answer, or a table with one more row or
\* the same ones: what each call owns and knows stays as it was.
LEMMA OwnsNext == OverInv /\ [Next]_vars => OwnsItsRow'
<1> SUFFICES ASSUME OverInv, [Next]_vars PROVE OwnsItsRow'
  OBVIOUS
<1> USE DEF Goes, Arrives
<1>0. /\ Shape /\ OwnsItsRow /\ TellsTheTruth
      /\ calls \in [Calls -> CallRec] /\ Len(rows) \in Nat /\ DOMAIN rows = 1..Len(rows)
      /\ \A i \in DOMAIN rows : rows[i] \in RowRec
      /\ IdleCall.pc = "idle" /\ IdleCall.row = None
  BY RowsAreNumbered DEF OverInv, Shape, IdleCall
\* The rows that are there stay, and no call gets one.
<1>1. ASSUME /\ Len(rows') \in Nat /\ Len(rows') >= Len(rows)
             /\ \A i \in 1..Len(rows) : rows'[i].open = rows[i].open /\ rows'[i].task = rows[i].task
             /\ \A c \in Calls : calls'[c].row # None =>
                  calls'[c].row = calls[c].row /\ calls'[c].pc \in {"forward", "record"}
      PROVE  OwnsItsRow'
  BY <1>0, <1>1 DEF OwnsItsRow
<1>2. ASSUME UNCHANGED <<rows, calls>> PROVE OwnsItsRow'
  BY <1>2 DEF OwnsItsRow, OverInv
<1>3. ASSUME NEW run \in Runs \cup {NoRun}, NEW open \in BOOLEAN, rows' = Append(rows, Row(run, open))
      PROVE  /\ Len(rows') \in Nat /\ Len(rows') >= Len(rows)
             /\ \A i \in 1..Len(rows) : rows'[i].open = rows[i].open /\ rows'[i].task = rows[i].task
  <2>1. Row(run, open) \in RowRec
    BY RowIsRow
  <2>2. rows' = Append(rows, Row(run, open)) /\ rows \in Seq(RowRec)
    BY <1>0, <1>3 DEF Shape
  <2>3. Len(rows') = Len(rows) + 1 /\ \A i \in 1..Len(rows) : rows'[i] = rows[i]
    BY <2>1, <2>2
  <2>4. Len(rows') \in Nat /\ Len(rows') >= Len(rows)
    BY <1>0, <2>3
  <2> QED BY <2>3, <2>4
<1>4. ASSUME NEW c \in Calls, NEW q \in Requests, Refuse(c, q) PROVE OwnsItsRow'
  <2>1. CASE rows' = RecordDenial(q.run)
    <3>1. \A d \in Calls : calls'[d].row # None =>
            calls'[d].row = calls[d].row /\ calls'[d].pc \in {"forward", "record"}
      BY <1>0, <1>4 DEF Refuse, OwnsItsRow
    <3> QED BY <1>1, <1>3, <2>1, <3>1, RequestsAssumption DEF RecordDenial
  <2>2. CASE UNCHANGED rows
    BY <1>2, <1>4, <2>2 DEF Refuse
  <2> QED BY <1>4, <2>1, <2>2 DEF Refuse
<1>5. ASSUME NEW c \in Calls, NEW q, NEW task, RefuseUnserved(c, q) PROVE OwnsItsRow'
  BY <1>2, <1>5 DEF RefuseUnserved
<1>6. ASSUME NEW c \in Calls, NEW q, NEW task, Authorize(c, q, task) PROVE OwnsItsRow'
  <2>1. \A d \in Calls : calls'[d].row # None => calls'[d] = calls[d]
    BY <1>0, <1>6 DEF Authorize, IdleCall
  <2> QED BY <1>0, <1>6, <2>1 DEF Authorize, OwnsItsRow
<1>7. ASSUME NEW c \in Calls, OpenCounts(c) \/ DenyFanOut(c) PROVE OwnsItsRow'
  <2>1. \A d \in Calls : calls'[d].row # None => d # c /\ calls'[d] = calls[d]
    <3>1. calls[c].row = None
      BY <1>0, <1>7 DEF OpenCounts, DenyFanOut, OwnsItsRow
    <3>2. [calls[c] EXCEPT !.pc = "insert"].row = None
      BY <1>0, <3>1 DEF CallRec
    <3> QED BY <1>0, <1>7, <3>2 DEF OpenCounts, DenyFanOut
  <2>2. \A d \in Calls : calls'[d].row # None =>
            calls'[d].row = calls[d].row /\ calls'[d].pc \in {"forward", "record"}
    BY <1>0, <2>1 DEF OwnsItsRow
  <2>3. CASE rows' = RecordDenial(calls[c].asked.run)
    BY <1>0, <1>1, <1>3, <2>2, <2>3, RunOfCall DEF RecordDenial
  <2>4. CASE UNCHANGED rows
    BY <1>0, <1>1, <2>2, <2>4
  <2> QED BY <1>7, <2>3, <2>4 DEF OpenCounts, DenyFanOut
\* The number of the new row is nobody else's.
<1>8. ASSUME NEW c \in Calls, OpenInserts(c) PROVE OwnsItsRow'
  <2> DEFINE row == Row(calls[c].asked.run, TRUE)
  <2>1. row \in RowRec /\ row.open /\ row.task = None
    <3>1. row \in RowRec
      BY <1>0, RowIsRow, RunOfCall
    <3> QED BY <3>1 DEF Row
  <2>2. rows' = Append(rows, row) /\ rows \in Seq(RowRec)
    BY <1>0, <1>8 DEF OpenInserts, InsertsRow, Shape
  <2> HIDE DEF row
  <2>3. /\ Len(rows') = Len(rows) + 1 /\ rows'[Len(rows) + 1] = row
        /\ \A i \in 1..Len(rows) : rows'[i] = rows[i]
    BY <2>1, <2>2
  <2>4. calls'[c].row = Len(rows) + 1 /\ calls'[c].pc = "forward"
    BY <1>0, <1>8 DEF OpenInserts, CallRec
  <2>5. \A d \in Calls \ {c} : calls'[d] = calls[d]
    BY <1>0, <1>8 DEF OpenInserts
  <2> SUFFICES ASSUME NEW d \in Calls, calls'[d].row # None
               PROVE  /\ calls'[d].pc \in {"forward", "record"}
                      /\ calls'[d].row \in 1..Len(rows')
                      /\ rows'[calls'[d].row].open /\ rows'[calls'[d].row].task = None
                      /\ \A e \in Calls : calls'[e].row = calls'[d].row => e = d
    BY DEF OwnsItsRow
  <2>6. \A e \in Calls \ {c} : calls'[e].row # Len(rows) + 1
    BY <1>0, <2>5 DEF OwnsItsRow, None
  <2>7. CASE d = c
    BY <1>0, <2>1, <2>3, <2>4, <2>6, <2>7
  <2>8. CASE d # c
    <3>1. calls'[d] = calls[d] /\ calls[d].row \in 1..Len(rows) /\ calls'[d].row # Len(rows) + 1
      BY <1>0, <2>5, <2>6, <2>8 DEF OwnsItsRow
    <3>2. calls[d].row \in 1..Len(rows') /\ rows'[calls[d].row] = rows[calls[d].row]
      BY <1>0, <2>3, <3>1
    <3>3. \A e \in Calls : calls'[e].row = calls'[d].row => e = d
      BY <1>0, <2>4, <2>5, <3>1 DEF OwnsItsRow
    <3> QED BY <1>0, <3>1, <3>2, <3>3 DEF OwnsItsRow
  <2> QED BY <2>7, <2>8
<1>9. ASSUME NEW c \in Calls, OpenFails(c) PROVE OwnsItsRow'
  <2>1. UNCHANGED rows /\ \A d \in Calls : calls'[d].row # None => calls'[d] = calls[d]
    BY <1>0, <1>9 DEF OpenFails
  <2> QED BY <1>0, <2>1 DEF OwnsItsRow
<1>15. ASSUME NEW c \in Calls, OpenUnacknowledged(c) PROVE OwnsItsRow'
  <2>1. \A d \in Calls : calls'[d].row # None =>
            calls'[d].row = calls[d].row /\ calls'[d].pc \in {"forward", "record"}
    BY <1>0, <1>15 DEF OpenUnacknowledged, OwnsItsRow
  <2> QED BY <1>0, <1>1, <1>3, <1>15, <2>1, RunOfCall DEF OpenUnacknowledged, InsertsRow
<1>10. ASSUME NEW c \in Calls, RemoteWorks(c) \/ RemoteReplies(c) \/ RemoteTells(c) \/ ForwardFails(c)
       PROVE  OwnsItsRow'
  <2>1. UNCHANGED rows
    BY <1>10 DEF RemoteWorks, RemoteReplies, RemoteTells, ForwardFails
  <2>2. \/ calls' = [calls EXCEPT ![c] = IdleCall]
        \/ \E answer :
            calls' = [calls EXCEPT ![c] = [calls[c] EXCEPT !.pc = "record", !.answer = answer]]
    BY <1>10 DEF RemoteWorks, RemoteReplies, RemoteTells, ForwardFails, Answers
  <2>3. \A d \in Calls : calls'[d].row # None =>
            calls'[d].row = calls[d].row /\ calls'[d].pc \in {"forward", "record"}
    <3>1. CASE calls' = [calls EXCEPT ![c] = IdleCall]
      BY <1>0, <3>1 DEF OwnsItsRow
    <3>2. ASSUME NEW answer,
                 calls' = [calls EXCEPT ![c] = [calls[c] EXCEPT !.pc = "record", !.answer = answer]]
          PROVE  calls'[c].row = calls[c].row /\ calls'[c].pc = "record"
                 /\ \A d \in Calls \ {c} : calls'[d] = calls[d]
      BY <1>0, <3>2 DEF CallRec
    <3> QED BY <1>0, <2>2, <3>1, <3>2 DEF OwnsItsRow
  <2> QED BY <1>0, <1>1, <2>1, <2>3
<1>11. ASSUME NEW c \in Calls, Record(c) PROVE OwnsItsRow'
  <2>1. \A d \in Calls : calls'[d].row # None => d # c /\ calls'[d] = calls[d]
    BY <1>0, <1>11 DEF Record
  <2>2. CASE UNCHANGED rows
    BY <1>0, <2>1, <2>2 DEF OwnsItsRow
  <2>3. CASE rows' = Recorded(c)
    <3>1. /\ rows' \in Seq(RowRec) /\ DOMAIN rows' = DOMAIN rows
          /\ \A i \in DOMAIN rows : i # calls[c].row /\ rows[i].task = None => rows'[i] = rows[i]
      BY <1>0, <1>11, <2>3, RecordedRows DEF Record
    <3>2. Len(rows') = Len(rows)
      BY <1>0, <3>1, LenProperties
    <3>3. \A d \in Calls : calls'[d].row # None => calls'[d].row # calls[c].row
      BY <1>0, <2>1 DEF OwnsItsRow
    <3> QED BY <1>0, <2>1, <3>1, <3>2, <3>3 DEF OwnsItsRow
  <2> QED BY <1>11, <2>2, <2>3 DEF Record
<1>12. CASE GoStale
  <2>1. PICK i \in DOMAIN rows : rows' = [rows EXCEPT ![i].stale = TRUE]
    BY <1>12 DEF GoStale
  <2>2. [rows[i] EXCEPT !.stale = TRUE] \in RowRec /\ i \in 1..Len(rows) /\ rows \in Seq(RowRec)
    BY <1>0 DEF RowRec, Shape
  <2>3. /\ Len(rows') = Len(rows)
        /\ \A j \in 1..Len(rows) : rows'[j] = IF j = i THEN [rows[i] EXCEPT !.stale = TRUE] ELSE rows[j]
    BY <2>1, <2>2, ExceptSeq
  <2>4. \A j \in 1..Len(rows) : rows'[j].open = rows[j].open /\ rows'[j].task = rows[j].task
    BY <1>0, <2>3 DEF RowRec
  <2>5. UNCHANGED calls
    BY <1>12 DEF GoStale
  <2> QED BY <1>0, <2>3, <2>4, <2>5 DEF OwnsItsRow
<1>13. CASE Crash
  BY <1>0, <1>13 DEF Crash, OwnsItsRow
<1>14. ASSUME NEW id, NEW n, DeclareRemote(id) \/ Start(n) \/ UNCHANGED vars PROVE OwnsItsRow'
  BY <1>2, <1>14 DEF DeclareRemote, Start, vars
<1> QED
  BY <1>4, <1>5, <1>6, <1>7, <1>8, <1>9, <1>10, <1>11, <1>12, <1>13, <1>14, <1>15 DEF Next,
     Request, Step

\* Who answers tells how the task stands, and what has ended stays ended.
LEMMA TruthNext == OverInv /\ [Next]_vars => TellsTheTruth'
<1> SUFFICES ASSUME OverInv, [Next]_vars PROVE TellsTheTruth'
  OBVIOUS
<1> USE DEF Goes, Arrives
<1>0. /\ Shape /\ OwnsItsRow /\ TellsTheTruth
      /\ calls \in [Calls -> CallRec] /\ DOMAIN tasks = Tasks
      /\ IdleCall.pc = "idle"
  BY DEF OverInv, Shape, IdleCall
<1>1. \A t \in Tasks : Terminal(tasks[t]) => Terminal(tasks'[t])
  BY <1>0, EndsAreFinal
\* Nobody has heard anything new.
<1>2. ASSUME \A c \in Calls : calls'[c].pc = "record" => calls'[c] = calls[c] PROVE TellsTheTruth'
  BY <1>0, <1>1, <1>2 DEF TellsTheTruth
<1>3. ASSUME NEW c \in Calls, NEW answer,
             calls' = [calls EXCEPT ![c] = [calls[c] EXCEPT !.pc = "record", !.answer = answer]],
             answer.kind # "task" => answer.task = None,
             answer.kind = "task" => <<calls[c].asked.remote, answer.task>> \in Tasks
                /\ (Terminal(answer.state) => Terminal(tasks'[<<calls[c].asked.remote, answer.task>>]))
      PROVE  TellsTheTruth'
  <2>1. calls'[c].answer = answer /\ calls'[c].asked = calls[c].asked /\ \A d \in Calls \ {c} : calls'[d] = calls[d]
    BY <1>0, <1>3 DEF CallRec
  <2> QED BY <1>0, <1>1, <1>3, <2>1 DEF TellsTheTruth
<1>4. ASSUME NEW c \in Calls, NEW t \in TaskOf(c), NEW state \in StateAfter(tasks[t]),
             tasks' = [tasks EXCEPT ![t] = state], Answers(c, Answer("task", t[2], state))
      PROVE  TellsTheTruth'
  <2> DEFINE answer == Answer("task", t[2], state)
  <2>0. t \in Tasks /\ t = <<calls[c].asked.remote, t[2]>>
    BY DEF TaskOf, Tasks
  <2>1. /\ answer.kind = "task" /\ answer.task = t[2] /\ answer.state = state
        /\ <<calls[c].asked.remote, answer.task>> \in Tasks
        /\ tasks'[<<calls[c].asked.remote, answer.task>>] = state
    BY <1>0, <1>4, <2>0 DEF Answer
  <2>2. calls' = [calls EXCEPT ![c] = [calls[c] EXCEPT !.pc = "record", !.answer = answer]]
    BY <1>4 DEF Answers
  <2> HIDE DEF answer
  <2> QED BY <1>3, <2>1, <2>2
<1>5. ASSUME NEW c \in Calls, NEW kind \in {"none", "message", "error"},
             Answers(c, Answer(kind, None, "none"))
      PROVE  TellsTheTruth'
  <2> DEFINE answer == Answer(kind, None, "none")
  <2>1. answer.kind # "task" /\ answer.task = None
    BY <1>5 DEF Answer
  <2>2. calls' = [calls EXCEPT ![c] = [calls[c] EXCEPT !.pc = "record", !.answer = answer]]
    BY <1>5 DEF Answers
  <2> HIDE DEF answer
  <2> QED BY <1>3, <2>1, <2>2
<1>6. ASSUME NEW c \in Calls, NEW q, NEW task, Authorize(c, q, task) PROVE TellsTheTruth'
  <2>1. \A d \in Calls : calls'[d].pc = "record" => calls'[d] = calls[d]
    BY <1>0, <1>6 DEF Authorize, IdleCall
  <2> QED BY <1>2, <2>1
<1>7. ASSUME NEW c \in Calls, OpenCounts(c) \/ DenyFanOut(c) \/ OpenInserts(c) PROVE TellsTheTruth'
  <2>1. \A d \in Calls : calls'[d].pc = "record" => calls'[d] = calls[d]
    <3>1. /\ [calls[c] EXCEPT !.pc = "insert"].pc = "insert"
          /\ [calls[c] EXCEPT !.pc = "forward", !.row = Len(rows) + 1].pc = "forward"
      BY <1>0 DEF CallRec
    <3> QED BY <1>0, <1>7, <3>1 DEF OpenCounts, DenyFanOut, OpenInserts
  <2> QED BY <1>2, <2>1
<1>8. ASSUME NEW c \in Calls, OpenFails(c) \/ OpenUnacknowledged(c) \/ Record(c) PROVE TellsTheTruth'
  <2>1. \A d \in Calls : calls'[d].pc = "record" => calls'[d] = calls[d]
    BY <1>0, <1>8 DEF OpenFails, OpenUnacknowledged, Record
  <2> QED BY <1>2, <2>1
<1>9. ASSUME NEW c \in Calls, RemoteWorks(c) PROVE TellsTheTruth'
  <2>1. PICK t \in TaskOf(c) : \E state \in StateAfter(tasks[t]) :
          /\ tasks' = [tasks EXCEPT ![t] = state]
          /\ \/ Answers(c, Answer("task", t[2], state))
             \/ Answers(c, Answer("none", None, "none"))
             \/ Goes(c, IdleCall)
    BY <1>9 DEF RemoteWorks
  <2>2. CASE Goes(c, IdleCall)
    BY <1>0, <1>2, <2>2
  <2> QED BY <1>4, <1>5, <2>1, <2>2
<1>10. ASSUME NEW c \in Calls, RemoteReplies(c) \/ ForwardFails(c) PROVE TellsTheTruth'
  BY <1>5, <1>10 DEF RemoteReplies, ForwardFails
<1>11. ASSUME NEW c \in Calls, RemoteTells(c) PROVE TellsTheTruth'
  BY <1>4, <1>11 DEF RemoteTells
<1>12. CASE Crash
  BY <1>0, <1>2, <1>12 DEF Crash
<1>13. CASE UNCHANGED calls
  BY <1>2, <1>13
<1> QED
  BY <1>6, <1>7, <1>8, <1>9, <1>10, <1>11, <1>12, <1>13
  DEF Next, Request, Step, vars, Refuse, RefuseUnserved, DeclareRemote, Start, GoStale

\* A row that stands for a task is closed under its id only by an end.
LEMMA BegunNext == OverInv /\ OwnsItsRow' /\ [Next]_vars => BegunByItsRow'
<1> SUFFICES ASSUME OverInv, OwnsItsRow', [Next]_vars PROVE BegunByItsRow'
  OBVIOUS
<1> DEFINE HasRow(c) == calls[c].pc = "forward" /\ StartsWork(calls[c].asked.method) => calls[c].row # None
           Stands(b) == /\ b.row \in 1..Len(rows)
                        /\ rows[b.row].task \in {None, b.task[2]}
                        /\ \/ rows[b.row].open
                           \/ rows[b.row].task = None
                           \/ \E r \in Remotes : Terminal(tasks[<<r, b.task[2]>>])
           Held(b, c) == calls[c].row = b.row => /\ calls[c].pc = "record"
                                                 /\ calls[c].answer.kind = "task" => calls[c].answer.task = b.task[2]
<1>0. /\ Shape /\ OwnsItsRow /\ TellsTheTruth
      /\ calls \in [Calls -> CallRec] /\ Len(rows) \in Nat /\ DOMAIN rows = 1..Len(rows)
      /\ \A i \in DOMAIN rows : rows[i] \in RowRec
      /\ begun \subseteq [row : Nat, task : Tasks] /\ \A b \in begun : b.task[2] \in TaskIds
      /\ IdleCall.pc = "idle" /\ IdleCall.row = None /\ None \notin 1..Len(rows)
      /\ \A c \in Calls : HasRow(c)
      /\ \A b \in begun : Stands(b) /\ \A c \in Calls : Held(b, c)
  <2>1. Shape /\ OwnsItsRow /\ TellsTheTruth /\ BegunByItsRow
    BY DEF OverInv
  <2>2. /\ calls \in [Calls -> CallRec] /\ Len(rows) \in Nat /\ DOMAIN rows = 1..Len(rows)
        /\ \A i \in DOMAIN rows : rows[i] \in RowRec
        /\ begun \subseteq [row : Nat, task : Tasks] /\ None \notin 1..Len(rows)
    BY <2>1, RowsAreNumbered DEF Shape, None
  <2>3. \A b \in begun : b.task[2] \in TaskIds
    BY <2>2 DEF Tasks
  <2>4. IdleCall.pc = "idle" /\ IdleCall.row = None
    BY DEF IdleCall
  <2>5. /\ \A c \in Calls : HasRow(c)
        /\ \A b \in begun : Stands(b) /\ \A c \in Calls : Held(b, c)
    BY <2>1 DEF BegunByItsRow
  <2> QED BY <2>1, <2>2, <2>3, <2>4, <2>5
<1>1. \A t \in Tasks : Terminal(tasks[t]) => Terminal(tasks'[t])
  BY <1>0, EndsAreFinal
<1>2. ASSUME \A c \in Calls : HasRow(c)', \A b \in begun' : Stands(b)' /\ \A c \in Calls : Held(b, c)'
      PROVE  BegunByItsRow'
  BY <1>2 DEF BegunByItsRow
\* A row that nothing was done to, or that only grew older, stands for what it did.
<1>3. ASSUME NEW b \in begun, Len(rows') \in Nat, Len(rows') >= Len(rows),
             rows'[b.row].open = rows[b.row].open, rows'[b.row].task = rows[b.row].task
      PROVE  Stands(b)'
  <2>1. \A r \in Remotes : <<r, b.task[2]>> \in Tasks
    BY <1>0 DEF Tasks
  <2> QED BY <1>0, <1>1, <1>3, <2>1
\* A call that is where it was, has ended or is new has what it had of the begun tasks.
<1>4. ASSUME NEW b \in begun, NEW c \in Calls, calls'[c] = calls[c] \/ calls'[c].row = None PROVE Held(b, c)'
  BY <1>0, <1>4
<1>5. ASSUME begun' = begun, Len(rows') \in Nat, Len(rows') >= Len(rows),
             \A i \in 1..Len(rows) : rows'[i].open = rows[i].open /\ rows'[i].task = rows[i].task,
             \A c \in Calls : calls'[c] = calls[c] \/ (calls'[c].row = None /\ HasRow(c)')
      PROVE  BegunByItsRow'
  <2>1. \A c \in Calls : HasRow(c)'
    BY <1>0, <1>5
  <2>2. ASSUME NEW b \in begun PROVE Stands(b)' /\ \A c \in Calls : Held(b, c)'
    <3>1. b.row \in 1..Len(rows)
      BY <1>0
    <3>2. Stands(b)'
      BY <1>3, <1>5, <3>1
    <3> HIDE DEF Stands, Held
    <3> QED BY <1>4, <1>5, <3>2
  <2> HIDE DEF HasRow, Stands, Held
  <2> QED BY <1>2, <1>5, <2>1, <2>2
<1>6. ASSUME NEW run \in Runs \cup {NoRun}, NEW open \in BOOLEAN, rows' = Append(rows, Row(run, open))
      PROVE  /\ Len(rows') = Len(rows) + 1 /\ Len(rows') \in Nat /\ Len(rows') >= Len(rows)
             /\ \A i \in 1..Len(rows) : rows'[i] = rows[i]
  <2>1. Row(run, open) \in RowRec /\ rows \in Seq(RowRec)
    BY <1>0, RowIsRow DEF Shape
  <2>2. Len(rows') = Len(rows) + 1 /\ \A i \in 1..Len(rows) : rows'[i] = rows[i]
    BY <1>6, <2>1
  <2> QED BY <1>0, <2>2
<1>7. ASSUME NEW c \in Calls, NEW q \in Requests, Refuse(c, q) PROVE BegunByItsRow'
  <2>1. UNCHANGED <<calls, begun>>
    BY <1>7 DEF Refuse
  <2>2. CASE rows' = RecordDenial(q.run)
    <3> HIDE DEF HasRow, Stands, Held
    <3> QED BY <1>5, <1>6, <2>1, <2>2, RequestsAssumption DEF RecordDenial
  <2>3. CASE UNCHANGED rows
    <3> HIDE DEF HasRow, Stands, Held
    <3> QED BY <1>0, <1>5, <2>1, <2>3
  <2> QED BY <1>7, <2>2, <2>3 DEF Refuse
<1>8. ASSUME NEW c \in Calls, NEW q, NEW task, Authorize(c, q, task) PROVE BegunByItsRow'
  <2>1. UNCHANGED <<rows, begun>> /\ \A d \in Calls \ {c} : calls'[d] = calls[d]
    BY <1>0, <1>8 DEF Authorize, Goes
  <2>2. calls'[c].row = None /\ HasRow(c)'
    BY <1>0, <1>8 DEF Authorize, Goes, IdleCall
  <2> HIDE DEF HasRow, Stands, Held
  <2> QED BY <1>0, <1>5, <2>1, <2>2
<1>9. ASSUME NEW c \in Calls, OpenCounts(c) \/ DenyFanOut(c) \/ OpenFails(c) \/ OpenUnacknowledged(c)
      PROVE  BegunByItsRow'
  <2>1. UNCHANGED begun /\ \A d \in Calls \ {c} : calls'[d] = calls[d]
    BY <1>0, <1>9 DEF OpenCounts, DenyFanOut, OpenFails, OpenUnacknowledged, Goes
  <2>2. calls'[c].row = None /\ calls'[c].pc # "forward"
    <3>1. calls[c].row = None
      BY <1>0, <1>9 DEF OpenCounts, DenyFanOut, OpenFails, OpenUnacknowledged, InsertsRow, OwnsItsRow
    <3>2. [calls[c] EXCEPT !.pc = "insert"].row = None /\ [calls[c] EXCEPT !.pc = "insert"].pc = "insert"
      BY <1>0, <3>1 DEF CallRec
    <3> QED BY <1>0, <1>9, <3>2 DEF OpenCounts, DenyFanOut, OpenFails, OpenUnacknowledged, Goes
  <2>3. calls[c].asked.run \in Runs \cup {NoRun}
    BY <1>0, RunOfCall
  <2>4. /\ Len(rows') \in Nat /\ Len(rows') >= Len(rows)
        /\ \A i \in 1..Len(rows) : rows'[i] = rows[i]
    <3>1. CASE UNCHANGED rows
      BY <1>0, <3>1
    <3>2. ASSUME NEW open \in BOOLEAN, rows' = Append(rows, Row(calls[c].asked.run, open))
          PROVE  /\ Len(rows') \in Nat /\ Len(rows') >= Len(rows)
                 /\ \A i \in 1..Len(rows) : rows'[i] = rows[i]
      BY <1>6, <2>3, <3>2
    <3> QED BY <1>9, <3>1, <3>2 DEF OpenCounts, DenyFanOut, OpenFails, OpenUnacknowledged, InsertsRow, RecordDenial
  <2>5. HasRow(c)'
    BY <2>2
  <2> HIDE DEF HasRow, Stands, Held
  <2> QED BY <1>5, <2>1, <2>2, <2>4, <2>5
\* No task has been begun under the number of a new row.
<1>10. ASSUME NEW c \in Calls, OpenInserts(c) PROVE BegunByItsRow'
  <2>1. UNCHANGED begun /\ \A d \in Calls \ {c} : calls'[d] = calls[d]
    BY <1>0, <1>10 DEF OpenInserts, Goes
  <2>2. calls'[c].row = Len(rows) + 1
    BY <1>0, <1>10 DEF OpenInserts, Goes, CallRec
  <2>3. /\ Len(rows') \in Nat /\ Len(rows') >= Len(rows)
        /\ \A i \in 1..Len(rows) : rows'[i] = rows[i]
    BY <1>0, <1>6, <1>10, RunOfCall DEF OpenInserts, InsertsRow
  <2>4. \A d \in Calls : HasRow(d)'
    BY <1>0, <2>1, <2>2 DEF None
  <2>5. ASSUME NEW b \in begun PROVE Stands(b)' /\ \A d \in Calls : Held(b, d)'
    <3>1. b.row \in 1..Len(rows)
      BY <1>0
    <3>2. Stands(b)'
      BY <1>3, <2>3, <3>1
    <3>3. ASSUME NEW d \in Calls PROVE Held(b, d)'
      <4>1. CASE d = c
        BY <1>0, <2>2, <3>1, <4>1
      <4>2. CASE d # c
        BY <1>4, <2>1, <4>2
      <4> QED BY <4>1, <4>2
    <3> QED BY <3>2, <3>3
  <2> HIDE DEF HasRow, Stands, Held
  <2> QED BY <1>2, <2>1, <2>4, <2>5
\* The remote agent begins or joins a task: the row is the call's own, and still open.
<1>11. ASSUME NEW c \in Calls, RemoteWorks(c) PROVE BegunByItsRow'
  <2>1. PICK t \in TaskOf(c) : \E state \in StateAfter(tasks[t]) :
          /\ begun' = begun \cup {[row |-> calls[c].row, task |-> t]}
          /\ \/ Answers(c, Answer("task", t[2], state))
             \/ Answers(c, Answer("none", None, "none"))
             \/ Goes(c, IdleCall)
    BY <1>11 DEF RemoteWorks
  <2>2. /\ UNCHANGED rows /\ calls[c].pc = "forward" /\ calls[c].row # None
        /\ calls[c].row \in 1..Len(rows) /\ rows[calls[c].row].task = None
        /\ \A d \in Calls : calls[d].row = calls[c].row => d = c
    BY <1>0, <1>11 DEF RemoteWorks, OwnsItsRow
  <2>3. /\ \A d \in Calls \ {c} : calls'[d] = calls[d]
        /\ \/ calls'[c].row = None /\ calls'[c].pc = "idle"
           \/ /\ calls'[c].row = calls[c].row /\ calls'[c].pc = "record"
              /\ calls'[c].answer.kind = "task" => calls'[c].answer.task = t[2]
    <3>1. CASE Goes(c, IdleCall)
      BY <1>0, <3>1 DEF Goes
    <3>2. ASSUME NEW answer, Answers(c, answer), answer.kind = "task" => answer.task = t[2]
          PROVE  /\ \A d \in Calls \ {c} : calls'[d] = calls[d]
                 /\ calls'[c].row = calls[c].row /\ calls'[c].pc = "record" /\ calls'[c].answer = answer
      BY <1>0, <3>2 DEF Answers, Goes, CallRec
    <3>3. ASSUME NEW state PROVE Answer("task", t[2], state).task = t[2]
      BY DEF Answer
    <3>4. Answer("none", None, "none").kind # "task"
      BY DEF Answer
    <3> QED BY <2>1, <3>1, <3>2, <3>3, <3>4
  <2>4. \A d \in Calls : HasRow(d)'
    BY <1>0, <2>3
  <2>5. ASSUME NEW b \in begun PROVE Stands(b)' /\ \A d \in Calls : Held(b, d)'
    <3>1. Stands(b)' /\ b.row # calls[c].row
      BY <1>0, <1>3, <2>2
    <3>2. ASSUME NEW d \in Calls PROVE Held(b, d)'
      <4>1. CASE d = c
        BY <1>0, <2>3, <3>1, <4>1
      <4>2. CASE d # c
        BY <1>4, <2>3, <4>2
      <4> QED BY <4>1, <4>2
    <3> QED BY <3>1, <3>2
  <2>6. ASSUME NEW b, b = [row |-> calls[c].row, task |-> t]
        PROVE  Stands(b)' /\ \A d \in Calls : Held(b, d)'
    <3>1. b.row = calls[c].row /\ b.task = t
      BY <2>6
    <3>2. Stands(b)'
      BY <2>2, <3>1
    <3>3. ASSUME NEW d \in Calls PROVE Held(b, d)'
      BY <1>0, <2>2, <2>3, <3>1
    <3> QED BY <3>2, <3>3
  <2>7. \A b \in begun' : b \in begun \/ b = [row |-> calls[c].row, task |-> t]
    BY <2>1
  <2> HIDE DEF HasRow, Stands, Held
  <2> QED BY <1>2, <2>4, <2>5, <2>6, <2>7
<1>12. ASSUME NEW c \in Calls, RemoteReplies(c) \/ RemoteTells(c) \/ ForwardFails(c) PROVE BegunByItsRow'
  <2>1. /\ UNCHANGED <<rows, begun>> /\ calls[c].pc = "forward"
        /\ \E answer : calls' = [calls EXCEPT ![c] = [calls[c] EXCEPT !.pc = "record", !.answer = answer]]
    BY <1>12 DEF RemoteReplies, RemoteTells, ForwardFails, Answers, Goes
  <2>2. /\ \A d \in Calls \ {c} : calls'[d] = calls[d]
        /\ calls'[c].row = calls[c].row /\ calls'[c].pc = "record"
    BY <1>0, <2>1 DEF CallRec
  <2>3. \A d \in Calls : HasRow(d)'
    BY <1>0, <2>2
  <2>4. ASSUME NEW b \in begun PROVE Stands(b)' /\ \A d \in Calls : Held(b, d)'
    <3>1. Stands(b)' /\ b.row # calls[c].row
      BY <1>0, <1>3, <2>1
    <3>2. ASSUME NEW d \in Calls PROVE Held(b, d)'
      <4>1. CASE d = c
        BY <2>2, <3>1, <4>1
      <4>2. CASE d # c
        BY <1>4, <2>2, <4>2
      <4> QED BY <4>1, <4>2
    <3> QED BY <3>1, <3>2
  <2> HIDE DEF HasRow, Stands, Held
  <2> QED BY <1>2, <2>1, <2>3, <2>4
<1>13. ASSUME NEW c \in Calls, Record(c) PROVE BegunByItsRow'
  <2>1. /\ UNCHANGED begun /\ calls[c].pc = "record" /\ \A d \in Calls \ {c} : calls'[d] = calls[d]
        /\ calls'[c].row = None /\ calls'[c].pc = "idle"
    BY <1>0, <1>13 DEF Record, Goes
  <2>2. \A d \in Calls : HasRow(d)'
    BY <1>0, <2>1
  <2>3. CASE UNCHANGED rows
    <3> HIDE DEF HasRow, Stands, Held
    <3> QED BY <1>0, <1>5, <2>1, <2>2, <2>3
  <2>4. ASSUME rows' = Recorded(c), NEW b \in begun PROVE Stands(b)'
    <3> DEFINE i == b.row
    <3>1. /\ i \in DOMAIN rows /\ rows[i].task \in {None, b.task[2]}
          /\ \/ rows[i].open \/ rows[i].task = None \/ \E r \in Remotes : Terminal(tasks[<<r, b.task[2]>>])
      BY <1>0
    <3>2. /\ rows' \in Seq(RowRec) /\ DOMAIN rows' = DOMAIN rows
          /\ rows'[i].task = IF i = calls[c].row THEN calls[c].answer.task ELSE rows[i].task
          /\ \/ rows'[i] = rows[i]
             \/ rows'[i].open
             \/ rows'[i].task = None
             \/ /\ <<calls[c].asked.remote, rows'[i].task>> \in Tasks
                /\ Terminal(tasks[<<calls[c].asked.remote, rows'[i].task>>])
      BY <1>0, <2>1, <2>4, <3>1, RecordedRows
    <3>3. Len(rows') = Len(rows)
      BY <1>0, <3>2, LenProperties
    <3>4. i = calls[c].row => calls[c].answer.task \in {None, b.task[2]}
      BY <1>0, <2>1 DEF TellsTheTruth
    <3>5. rows'[i].task \in {None, b.task[2]}
      BY <3>1, <3>2, <3>4
    <3>6. \A r \in Remotes : <<r, b.task[2]>> \in Tasks
      BY <1>0 DEF Tasks
    <3>7. CASE rows'[i] = rows[i]
      BY <1>0, <1>1, <3>1, <3>3, <3>6, <3>7
    <3>8. CASE rows'[i].open \/ rows'[i].task = None
      BY <1>0, <3>1, <3>3, <3>5, <3>8
    <3>9. CASE /\ <<calls[c].asked.remote, rows'[i].task>> \in Tasks
               /\ Terminal(tasks[<<calls[c].asked.remote, rows'[i].task>>])
      <4>1. calls[c].asked.remote \in Remotes /\ Terminal(tasks'[<<calls[c].asked.remote, rows'[i].task>>])
        BY <1>1, <3>9 DEF Tasks
      <4> QED BY <1>0, <3>1, <3>3, <3>5, <4>1
    <3> QED BY <3>2, <3>7, <3>8, <3>9
  <2>5. ASSUME NEW b \in begun, NEW d \in Calls PROVE Held(b, d)'
    BY <1>4, <2>1
  <2> HIDE DEF HasRow, Stands, Held
  <2> QED BY <1>2, <1>13, <2>1, <2>2, <2>3, <2>4, <2>5 DEF Record
<1>14. CASE GoStale
  <2>1. PICK i \in DOMAIN rows : rows' = [rows EXCEPT ![i].stale = TRUE]
    BY <1>14 DEF GoStale
  <2>2. [rows[i] EXCEPT !.stale = TRUE] \in RowRec /\ i \in 1..Len(rows) /\ rows \in Seq(RowRec)
    BY <1>0 DEF RowRec, Shape
  <2>3. Len(rows') = Len(rows) /\ \A j \in 1..Len(rows) : rows'[j].open = rows[j].open /\ rows'[j].task = rows[j].task
    BY <1>0, <2>1, <2>2, ExceptSeq DEF RowRec
  <2>4. UNCHANGED <<calls, begun>>
    BY <1>14 DEF GoStale
  <2> HIDE DEF HasRow, Stands, Held
  <2> QED BY <1>0, <1>5, <2>3, <2>4
<1>15. CASE Crash
  <2>1. UNCHANGED <<rows, begun>> /\ \A d \in Calls : calls'[d].row = None /\ calls'[d].pc = "idle"
    BY <1>0, <1>15 DEF Crash
  <2>2. \A d \in Calls : HasRow(d)'
    BY <2>1
  <2> HIDE DEF HasRow, Stands, Held
  <2> QED BY <1>0, <1>5, <2>1, <2>2
<1>16. CASE UNCHANGED <<rows, calls, begun>>
  <2> HIDE DEF HasRow, Stands, Held
  <2> QED BY <1>0, <1>5, <1>16
<1> HIDE DEF HasRow, Stands, Held
<1> QED
  BY <1>7, <1>8, <1>9, <1>10, <1>11, <1>12, <1>13, <1>14, <1>15, <1>16
  DEF Next, Request, Step, vars, RefuseUnserved, DeclareRemote, Start

\* The state a caller reads is one it knows, and it is an end only when it was one.
LEMMA RelayedState ==
  ASSUME NEW answer, answer.kind = "task"
  PROVE  /\ Relayed(answer) \in KnownStates
         /\ Relayed(answer) \in TerminalStates => Terminal(answer.state)
  BY DEF Relayed, EffectiveState, Terminal, Recognised, KnownStates, TerminalStates

-----------------------------------------------------------------------------
(* The width. *)

\* A call whose row is committed, whether it hears of it or not.
Admits(c) == OpenInserts(c) \/ OpenUnacknowledged(c)

\* Whatever step is taken, a run's width is taken only by a call that inserts.
LEMMA WidthIsOnlyInserted ==
  ASSUME OverInv, [Next]_vars, NEW r \in Runs,
         \A c \in Calls : Admits(c) => calls[c].asked.run # r
  PROVE  InFlight(r)' <= InFlight(r)
<1>0. /\ Shape /\ OwnsItsRow /\ TellsTheTruth
      /\ Len(rows) \in Nat /\ DOMAIN rows = 1..Len(rows)
      /\ \A i \in DOMAIN rows : rows[i] \in RowRec
  BY RowsAreNumbered DEF OverInv
<1>1. CASE UNCHANGED rows
  BY <1>0, <1>1, NoMoreInFlight
<1>2. ASSUME NEW run \in Runs \cup {NoRun}, NEW open \in BOOLEAN,
             rows' = Append(rows, Row(run, open)),
             open => run # r
      PROVE  InFlight(r)' <= InFlight(r)
  <2>1. Row(run, open) \in RowRec /\ ~Counts(Row(run, open), r)
    <3>1. Row(run, open) \in RowRec
      BY RowIsRow
    <3> QED BY <1>2, <3>1 DEF Row, Counts
  <2>2. /\ DOMAIN rows' = 1..(Len(rows) + 1) /\ rows'[Len(rows) + 1] = Row(run, open)
        /\ \A i \in 1..Len(rows) : rows'[i] = rows[i]
    BY <1>0, <1>2, <2>1, AppendedRow
  <2>3. \A i \in DOMAIN rows' : Counts(rows[i], r)' => i \in DOMAIN rows /\ Counts(rows[i], r)
    BY <1>0, <2>1, <2>2
  <2> QED BY <1>0, <2>3, NoMoreInFlight
<1>3. ASSUME NEW c \in Calls, Record(c) PROVE InFlight(r)' <= InFlight(r)
  <2> SUFFICES ASSUME rows' = Recorded(c) PROVE InFlight(r)' <= InFlight(r)
    BY <1>1, <1>3 DEF Record
  <2>1. /\ DOMAIN rows' = DOMAIN rows
        /\ \A i \in DOMAIN rows : /\ rows'[i].run = rows[i].run /\ rows'[i].stale = rows[i].stale
                                  /\ rows'[i].open => rows[i].open
    BY <1>0, <1>3, RecordedRows, ZenonT(40) DEF Record
  <2>2. \A i \in DOMAIN rows' : Counts(rows[i], r)' => i \in DOMAIN rows /\ Counts(rows[i], r)
    BY <2>1 DEF Counts
  <2> QED BY <1>0, <2>2, NoMoreInFlight
<1>4. CASE GoStale
  <2>1. PICK i \in DOMAIN rows : rows' = [rows EXCEPT ![i].stale = TRUE]
    BY <1>4 DEF GoStale
  <2>2. \A j \in DOMAIN rows' : Counts(rows[j], r)' => j \in DOMAIN rows /\ Counts(rows[j], r)
    BY <1>0, <2>1 DEF RowRec, Counts
  <2> QED BY <1>0, <2>2, NoMoreInFlight
<1>5. ASSUME NEW c \in Calls,
             NEW q \in Requests, Refuse(c, q)
      PROVE  InFlight(r)' <= InFlight(r)
  BY <1>1, <1>2, <1>5, RequestsAssumption DEF Refuse, RecordDenial
<1>6. ASSUME NEW c \in Calls,
             DenyFanOut(c) \/ Admits(c)
      PROVE  InFlight(r)' <= InFlight(r)
  <2>1. calls[c].asked.run \in Runs \cup {NoRun}
    BY <1>0, RunOfCall
  <2>2. CASE DenyFanOut(c)
    BY <1>1, <1>2, <2>1, <2>2 DEF DenyFanOut, RecordDenial
  <2>3. CASE Admits(c)
    BY <1>2, <2>1, <2>3 DEF Admits, OpenInserts, OpenUnacknowledged, InsertsRow
  <2> QED BY <1>6, <2>2, <2>3
<1> QED
  BY <1>1, <1>3, <1>4, <1>5, <1>6
  DEF Next, Request, Step, vars, Admits, RefuseUnserved, Authorize, OpenCounts, OpenFails, RemoteWorks,
      RemoteReplies, RemoteTells, ForwardFails, DeclareRemote, Start, Crash

\* One insert takes one.
LEMMA InsertTakesOne ==
  ASSUME OverInv, NEW c \in Calls, Admits(c), NEW r \in Runs
  PROVE  InFlight(r)' <= InFlight(r) + 1
<1> DEFINE row == Row(calls[c].asked.run, TRUE)
<1>0. /\ Shape /\ Len(rows) \in Nat /\ DOMAIN rows = 1..Len(rows)
  BY RowsAreNumbered DEF OverInv
<1>1. row \in RowRec
  BY <1>0, RowIsRow, RunOfCall
<1>2. rows' = Append(rows, row)
  BY DEF Admits, OpenInserts, OpenUnacknowledged, InsertsRow
<1> HIDE DEF row
<1>3. /\ DOMAIN rows' = 1..(Len(rows) + 1)
      /\ \A i \in 1..Len(rows) : rows'[i] = rows[i]
  BY <1>0, <1>1, <1>2, AppendedRow
<1> DEFINE before == {i \in DOMAIN rows : Counts(rows[i], r)}
           after == {i \in DOMAIN rows' : Counts(rows'[i], r)}
<1>4. after \in SUBSET (before \cup {Len(rows) + 1})
  BY <1>0, <1>3
<1>5. IsFiniteSet(before) /\ InFlight(r) = Cardinality(before) /\ InFlight(r) \in Nat
  BY <1>0, InFlightCounts DEF InFlight
<1>6. InFlight(r)' = Cardinality(after)
  BY DEF InFlight
<1>7. Len(rows) + 1 \notin before
  BY <1>0
<1> HIDE DEF before, after
<1>8. /\ IsFiniteSet(before \cup {Len(rows) + 1})
      /\ Cardinality(before \cup {Len(rows) + 1}) = Cardinality(before) + 1
  BY <1>5, <1>7, FS_AddElement
<1>9. Cardinality(after) <= Cardinality(before) + 1
  BY <1>4, <1>8, FS_Subset
<1> QED BY <1>5, <1>6, <1>9

\* Between two calls of one run the lock keeps the count and the insert together.
LEMMA WidthNext ==
  OverInv /\ OverInv' /\ FoundRoom /\ WidthIsBounded /\ [Next]_vars => FoundRoom' /\ WidthIsBounded'
<1> SUFFICES ASSUME OverInv, OverInv', FoundRoom, WidthIsBounded, [Next]_vars
             PROVE  FoundRoom' /\ WidthIsBounded'
  OBVIOUS
<1>0. /\ Shape /\ calls \in [Calls -> CallRec] /\ lock \in [Runs -> Calls \cup {None}]
      /\ None \notin Calls /\ NoRun \notin Runs /\ MaxInFlight \in Nat
      /\ \A c \in Calls : calls[c].asked.run \in Runs \cup {NoRun}
      /\ \A r \in Runs : InFlight(r) \in Nat
      /\ IdleCall.pc = "idle"
      /\ \A r \in Runs : InFlight(r)' \in Nat
  BY NamesAssumption, WidthAssumption, RunOfCall, InFlightIsNat, InFlightIsNatNext
  DEF OverInv, Shape, IdleCall, WidthIsCounted
\* Nobody's width grows, and who is inserting was inserting.
<1>1. ASSUME \A r \in Runs : InFlight(r)' <= InFlight(r),
             \A d \in Calls, r \in Runs : Inserting(d, r)' => Inserting(d, r) /\ lock'[r] = lock[r]
      PROVE  FoundRoom' /\ WidthIsBounded'
  <2>1. WidthIsBounded'
    BY <1>0, <1>1 DEF WidthIsBounded
  <2>2. ASSUME NEW d \in Calls, NEW r \in Runs, Inserting(d, r)'
        PROVE  lock'[r] = d /\ InFlight(r)' < MaxInFlight
    BY <1>0, <1>1, <2>2 DEF FoundRoom
  <2> QED BY <2>1, <2>2 DEF FoundRoom
\* The calls of one run insert one at a time.
<1>2. \A c, d \in Calls, r \in Runs : Inserting(c, r) /\ Inserting(d, r) => c = d
  BY DEF FoundRoom
<1>3. ASSUME NEW c \in Calls, Admits(c) PROVE FoundRoom' /\ WidthIsBounded'
  <2>1. /\ \A d \in Calls \ {c} : calls'[d] = calls[d]
        /\ calls'[c].pc # "insert" /\ calls[c].pc = "insert"
        /\ \A r \in Runs : r # calls[c].asked.run => lock'[r] = lock[r]
    BY <1>0, <1>3 DEF Admits, OpenInserts, OpenUnacknowledged, InsertsRow, Goes, Unlocked, CallRec
  <2>2. \A d \in Calls, r \in Runs : Inserting(d, r)' => d # c /\ Inserting(d, r)
    BY <2>1 DEF Inserting
  <2>3. \A r \in Runs : r # calls[c].asked.run => InFlight(r)' <= InFlight(r)
    <3>1. \A d \in Calls : Admits(d) => calls[d].asked.run = calls[c].asked.run
      <4>1. ASSUME NEW d \in Calls, Admits(d), d # c PROVE FALSE
        <5>1. calls'[d].pc # "insert" /\ calls[d].pc = "insert"
          BY <1>0, <4>1 DEF Admits, OpenInserts, OpenUnacknowledged, InsertsRow, Goes, CallRec
        <5> QED BY <2>1, <4>1, <5>1
      <4> QED BY <4>1
    <3> QED BY <3>1, WidthIsOnlyInserted
  <2>4. ASSUME NEW r \in Runs, MaxInFlight > 0 PROVE InFlight(r)' <= MaxInFlight
    <3>1. CASE r = calls[c].asked.run
      <4>1. InFlight(r) < MaxInFlight
        BY <2>1, <2>4, <3>1 DEF FoundRoom, Inserting
      <4> QED BY <1>0, <1>3, <4>1, InsertTakesOne
    <3>2. CASE r # calls[c].asked.run
      BY <1>0, <2>3, <2>4, <3>2 DEF WidthIsBounded
    <3> QED BY <3>1, <3>2
  <2>5. ASSUME NEW d \in Calls, NEW r \in Runs, Inserting(d, r)'
        PROVE  lock'[r] = d /\ InFlight(r)' < MaxInFlight
    <3>1. d # c /\ Inserting(d, r)
      BY <2>2, <2>5
    <3>2. r # calls[c].asked.run
      BY <1>2, <2>1, <3>1 DEF Inserting
    <3> QED BY <1>0, <2>1, <2>3, <3>1, <3>2 DEF FoundRoom
  <2> QED BY <2>4, <2>5 DEF FoundRoom, WidthIsBounded
<1>4. ASSUME \A c \in Calls : ~Admits(c) PROVE \A r \in Runs : InFlight(r)' <= InFlight(r)
  BY <1>4, WidthIsOnlyInserted
<1>5. ASSUME NEW c \in Calls, OpenCounts(c), \A d \in Calls : ~Admits(d)
      PROVE  FoundRoom' /\ WidthIsBounded'
  <2>1. \A r \in Runs : InFlight(r)' <= InFlight(r)
    BY <1>4, <1>5
  <2>2. PICK s \in Runs : s = calls[c].asked.run
    BY <1>0, <1>5 DEF OpenCounts, Shape
  <2>3. InFlight(s) < MaxInFlight /\ lock[s] = None
    BY <1>0, <1>5, <2>2 DEF OpenCounts, TakesLock
  <2>4. /\ \A d \in Calls \ {c} : calls'[d] = calls[d]
        /\ calls'[c].asked = calls[c].asked
        /\ lock' = [lock EXCEPT ![s] = c]
    BY <1>0, <1>5, <2>2 DEF OpenCounts, Goes, CallRec
  <2>5. ASSUME NEW d \in Calls, NEW r \in Runs, Inserting(d, r)'
        PROVE  lock'[r] = d /\ InFlight(r)' < MaxInFlight
    <3>1. CASE d = c
      BY <1>0, <2>1, <2>2, <2>3, <2>4, <2>5, <3>1 DEF Inserting
    <3>2. CASE d # c
      <4>1. Inserting(d, r) /\ lock[r] = d /\ InFlight(r) < MaxInFlight
        BY <2>4, <2>5, <3>2 DEF Inserting, FoundRoom
      <4>2. r # s
        BY <1>0, <2>3, <4>1
      <4> QED BY <1>0, <2>1, <2>4, <4>1, <4>2
    <3> QED BY <3>1, <3>2
  <2>6. WidthIsBounded'
    BY <1>0, <2>1 DEF WidthIsBounded
  <2> QED BY <2>5, <2>6 DEF FoundRoom
<1>6. ASSUME NEW c \in Calls, OpenFails(c) PROVE FoundRoom' /\ WidthIsBounded'
  <2>1. \A r \in Runs : InFlight(r)' <= InFlight(r)
    <3>1. UNCHANGED rows
      BY <1>6 DEF OpenFails
    <3> QED BY <1>0, <3>1, NoMoreInFlight
  <2>2. /\ calls'[c].pc = "idle" /\ \A d \in Calls \ {c} : calls'[d] = calls[d]
        /\ \A r \in Runs : r # calls[c].asked.run \/ calls[c].pc = "lock" => lock'[r] = lock[r]
    BY <1>0, <1>6 DEF OpenFails, Goes, Unlocked
  <2>3. ASSUME NEW d \in Calls, NEW r \in Runs, Inserting(d, r)'
        PROVE  Inserting(d, r) /\ lock'[r] = lock[r]
    <3>1. d # c /\ Inserting(d, r)
      BY <2>2, <2>3 DEF Inserting
    <3>2. r # calls[c].asked.run \/ calls[c].pc = "lock"
      BY <1>2, <1>6, <3>1 DEF Inserting, OpenFails
    <3> QED BY <2>2, <3>1, <3>2
  <2> QED BY <1>1, <2>1, <2>3
\* Every other step leaves the locks alone, and nobody begins to insert under one.
<1>7. ASSUME \A c \in Calls : ~Admits(c),
             \A d \in Calls, r \in Runs : Inserting(d, r)' => Inserting(d, r) /\ lock'[r] = lock[r]
      PROVE  FoundRoom' /\ WidthIsBounded'
  BY <1>1, <1>4, <1>7
<1>8. ASSUME NEW c \in Calls, NEW q \in Requests, NEW task, Authorize(c, q, task),
             \A d \in Calls : ~Admits(d)
      PROVE  FoundRoom' /\ WidthIsBounded'
  <2>1. /\ UNCHANGED lock /\ \A d \in Calls \ {c} : calls'[d] = calls[d]
        /\ calls'[c].pc = "insert" => MaxInFlight = 0 \/ calls'[c].asked.run = NoRun
    BY <1>0, <1>8 DEF Authorize, Goes, IdleCall
  <2>2. \A d \in Calls, r \in Runs : Inserting(d, r)' => Inserting(d, r) /\ lock'[r] = lock[r]
    BY <1>0, <2>1 DEF Inserting
  <2> QED BY <1>7, <1>8, <2>2
<1>9. ASSUME NEW c \in Calls,
             RemoteWorks(c) \/ RemoteReplies(c) \/ RemoteTells(c) \/ ForwardFails(c) \/ DenyFanOut(c) \/ Record(c),
             \A d \in Calls : ~Admits(d)
      PROVE  FoundRoom' /\ WidthIsBounded'
  <2>1. \/ calls' = [calls EXCEPT ![c] = IdleCall]
        \/ \E answer :
            calls' = [calls EXCEPT ![c] = [calls[c] EXCEPT !.pc = "record", !.answer = answer]]
    BY <1>9 DEF RemoteWorks, RemoteReplies, RemoteTells, ForwardFails, DenyFanOut, Record, Answers, Goes
  <2>2. UNCHANGED lock
    BY <1>9 DEF RemoteWorks, RemoteReplies, RemoteTells, ForwardFails, DenyFanOut, Record
  <2>3. /\ \A d \in Calls \ {c} : calls'[d] = calls[d]
        /\ calls'[c].pc \in {"idle", "record"}
    <3>1. CASE calls' = [calls EXCEPT ![c] = IdleCall]
      BY <1>0, <3>1
    <3>2. ASSUME NEW answer,
                 calls' = [calls EXCEPT ![c] = [calls[c] EXCEPT !.pc = "record", !.answer = answer]]
          PROVE  calls'[c].pc = "record" /\ \A d \in Calls \ {c} : calls'[d] = calls[d]
      BY <1>0, <3>2 DEF CallRec
    <3> QED BY <2>1, <3>1, <3>2
  <2>4. \A d \in Calls, r \in Runs : Inserting(d, r)' => Inserting(d, r) /\ lock'[r] = lock[r]
    BY <2>2, <2>3 DEF Inserting
  <2> QED BY <1>7, <1>9, <2>4
<1>10. ASSUME Crash, \A d \in Calls : ~Admits(d) PROVE FoundRoom' /\ WidthIsBounded'
  <2>1. \A d \in Calls : calls'[d].pc = "idle"
    BY <1>0, <1>10 DEF Crash
  <2> QED BY <1>7, <1>10, <2>1 DEF Inserting
<1>11. ASSUME UNCHANGED <<calls, lock>>, \A d \in Calls : ~Admits(d)
       PROVE  FoundRoom' /\ WidthIsBounded'
  BY <1>7, <1>11 DEF Inserting
<1>12. CASE \E c \in Calls : Admits(c)
  BY <1>3, <1>12
<1>13. CASE \A c \in Calls : ~Admits(c)
  BY <1>5, <1>6, <1>8, <1>9, <1>10, <1>11, <1>13
  DEF Admits, Next, Request, Step, vars, Refuse, RefuseUnserved, DeclareRemote, Start, GoStale
<1> QED BY <1>12, <1>13

\* An empty table spends no width.
LEMMA WidthInit == Init => FoundRoom /\ WidthIsBounded
<1> SUFFICES ASSUME Init PROVE FoundRoom /\ WidthIsBounded
  OBVIOUS
<1>1. FoundRoom
  BY DEF Init, FoundRoom, Inserting, IdleCall
<1>2. \A r : {i \in DOMAIN rows : Counts(rows[i], r)} = {}
  BY EmptySeq DEF Init
<1>3. \A r : InFlight(r) = 0
  BY <1>2, FS_EmptySet DEF InFlight
<1> QED BY <1>1, <1>3, WidthAssumption DEF WidthIsBounded

-----------------------------------------------------------------------------
(* The policy. *)

\* The gateway has loaded a directory, whole, before any call is served, and what is
\* being served was permitted by it.
PolicyInv ==
    /\ policies # None => policies \in DOMAIN Dirs /\ LoadSetAccepts(Dirs[policies])
    /\ \A c \in Calls : calls[c].pc # "idle" =>
        policies # None /\ HasEngine(calls[c].asked.tenant) /\ Permitted(calls[c].asked)

\* Every policy of every entry of a bundle that loads is in the engine: none has
\* replaced another.
LEMMA NothingIsLost ==
  ASSUME NEW bundle, DOMAIN bundle \subseteq Nat, LoadEngineAccepts(bundle),
         NEW i \in DOMAIN bundle
  PROVE  PoliciesOf(bundle[i]) \subseteq LoadEngine(bundle)
<1> SUFFICES ASSUME NEW p \in PoliciesOf(bundle[i]) PROVE p \in LoadEngine(bundle)
  OBVIOUS
<1>1. p.id \in Range(IdsOf(bundle[i]))
  BY DEF PoliciesOf, IdsOf, Range
<1>2. ASSUME NEW j \in DOMAIN bundle, i < j PROVE p.id \notin Range(IdsOf(bundle[j]))
  <2>1. i # j
    BY <1>2
  <2> QED BY <1>1, <2>1 DEF LoadEngineAccepts, UniqueIds
<1> QED BY <1>2 DEF LoadEngine

\* And nothing else is.
LEMMA NothingIsAdded ==
  ASSUME NEW bundle, NEW p \in LoadEngine(bundle)
  PROVE  \E i \in DOMAIN bundle : p \in PoliciesOf(bundle[i])
  BY DEF LoadEngine

\* The strictest of some dispositions is one of them, and as strict as each.
LEMMA StrictestIs ==
  ASSUME NEW D \in SUBSET DOMAIN Strictness, D # {}
  PROVE  Strictest(D) \in D /\ \A e \in D : Strictness[e] <= Strictness[Strictest(D)]
<1>1. /\ DOMAIN Strictness = {"allow", "require_approval", "deny_step", "terminate_run"}
      /\ \A d \in DOMAIN Strictness : Strictness[d] \in Nat
  BY DEF Strictness
<1>2. \A d, e \in DOMAIN Strictness : Stricter(d, e) = d <=> Strictness[e] <= Strictness[d]
  BY DEF Strictness, Stricter
<1>3. \E d \in D : \A e \in D : Strictness[e] <= Strictness[d]
  <2>1. CASE "terminate_run" \in D
    BY <2>1, <1>1 DEF Strictness
  <2>2. CASE "terminate_run" \notin D /\ "deny_step" \in D
    BY <2>2, <1>1 DEF Strictness
  <2>3. CASE "terminate_run" \notin D /\ "deny_step" \notin D /\ "require_approval" \in D
    BY <2>3, <1>1 DEF Strictness
  <2>4. CASE "terminate_run" \notin D /\ "deny_step" \notin D /\ "require_approval" \notin D
    BY <2>4, <1>1 DEF Strictness
  <2> QED BY <2>1, <2>2, <2>3, <2>4
<1>4. \E d \in D : \A e \in D : Stricter(d, e) = d
  BY <1>2, <1>3
<1>5. Strictest(D) \in D /\ \A e \in D : Stricter(Strictest(D), e) = Strictest(D)
  BY <1>4 DEF Strictest
<1> QED BY <1>2, <1>5

\* What determining policies declare are dispositions.
LEMMA DeclaredAreValid ==
  ASSUME NEW bundle, LoadEngineAccepts(bundle), NEW request
  PROVE  Declared(Reasons(LoadEngine(bundle), request)) \subseteq DOMAIN Strictness
<1>1. ASSUME NEW p \in LoadEngine(bundle), p.disposition # Undeclared
      PROVE  p.disposition \in DOMAIN Strictness
  <2>1. PICK i \in DOMAIN bundle : p \in PoliciesOf(bundle[i])
    BY NothingIsAdded
  <2>2. p.disposition = bundle[i].disposition
    BY <2>1 DEF PoliciesOf
  <2> QED BY <1>1, <2>2 DEF LoadEngineAccepts, ValidDeclared, Valid
<1>2. Reasons(LoadEngine(bundle), request) \subseteq LoadEngine(bundle)
  BY DEF Reasons, Matching
<1> QED BY <1>1, <1>2 DEF Declared

\* A bundle that loads and permits a request has a permit for it, no forbid, and no permit
\* that asks for a person, in whatever entry.
LEMMA PermittedByTheFile ==
  ASSUME NEW bundle, DOMAIN bundle \subseteq Nat, LoadEngineAccepts(bundle),
         NEW request, IsAllowed(LoadEngine(bundle), request)
  PROVE  /\ \E i \in DOMAIN bundle : \E n \in DOMAIN bundle[i].source :
                bundle[i].source[n].effect = "permit" /\ request \in bundle[i].source[n].matches
         /\ \A i \in DOMAIN bundle : \A n \in DOMAIN bundle[i].source :
                request \in bundle[i].source[n].matches =>
                    /\ bundle[i].source[n].effect # "forbid"
                    /\ bundle[i].source[n].effect = "permit" =>
                           bundle[i].disposition # "require_approval"
<1> DEFINE engine == LoadEngine(bundle)
           P(i, n) == [id |-> IdsOf(bundle[i])[n], effect |-> bundle[i].source[n].effect,
                       matches |-> bundle[i].source[n].matches,
                       disposition |-> bundle[i].disposition]
<1>1. /\ Matching(engine, request, "forbid") = {}
      /\ Matching(engine, request, "permit") # {}
      /\ DispositionOf(engine, request) = "allow"
  BY DEF IsAllowed, CedarAllows, PermitsExecution
<1>2. PICK p \in engine : p.effect = "permit" /\ request \in p.matches
  BY <1>1 DEF Matching
<1>3. PICK i \in DOMAIN bundle : p \in PoliciesOf(bundle[i])
  BY NothingIsAdded
<1>4. PICK n \in DOMAIN bundle[i].source : p = P(i, n)
  BY <1>3 DEF PoliciesOf
<1>5. bundle[i].source[n].effect = "permit" /\ request \in bundle[i].source[n].matches
  BY <1>2, <1>4
<1>6. ASSUME NEW j \in DOMAIN bundle, NEW m \in DOMAIN bundle[j].source,
             request \in bundle[j].source[m].matches
      PROVE  /\ bundle[j].source[m].effect # "forbid"
             /\ bundle[j].source[m].effect = "permit" => bundle[j].disposition # "require_approval"
  <2>1. P(j, m) \in engine
    <3>1. P(j, m) \in PoliciesOf(bundle[j])
      BY DEF PoliciesOf
    <3> QED BY <3>1, NothingIsLost
  <2>2. bundle[j].source[m].effect # "forbid"
    BY <1>1, <1>6, <2>1 DEF Matching
  <2>3. ASSUME bundle[j].source[m].effect = "permit", bundle[j].disposition = "require_approval"
        PROVE  FALSE
    <3> DEFINE D == {DerivedDisposition(CedarAllows(engine, request))}
                        \cup Declared(Reasons(engine, request))
    <3>1. P(j, m) \in Reasons(engine, request)
      BY <1>1, <1>6, <2>1, <2>3 DEF Reasons, Matching
    <3>2. "require_approval" \in Declared(Reasons(engine, request))
      BY <2>3, <3>1 DEF Declared, Undeclared
    <3>3. D \subseteq DOMAIN Strictness
      BY DeclaredAreValid DEF DerivedDisposition, Strictness
    <3>4. Strictest(D) = "allow"
      BY <1>1 DEF DispositionOf
    <3>5. Strictness["require_approval"] <= Strictness[Strictest(D)]
      BY <3>2, <3>3, StrictestIs
    <3> QED BY <3>4, <3>5 DEF Strictness
  <2> QED BY <2>2, <2>3
<1> QED BY <1>5, <1>6

\* Before anything is loaded nobody is served.
LEMMA PolicyInit == Init => PolicyInv
  BY DEF Init, PolicyInv, IdleCall

\* A call is let past the policy once; the policy stays while it is served.
LEMMA PolicyNext == Shape /\ PolicyInv /\ [Next]_vars => PolicyInv'
<1> SUFFICES ASSUME Shape, PolicyInv, [Next]_vars PROVE PolicyInv'
  OBVIOUS
<1>0. calls \in [Calls -> CallRec]
  BY DEF Shape
<1>1. ASSUME UNCHANGED policies,
             \A c \in Calls : calls'[c].pc # "idle" =>
                 \/ calls[c].pc # "idle" /\ calls'[c].asked = calls[c].asked
                 \/ policies # None /\ HasEngine(calls'[c].asked.tenant) /\ Permitted(calls'[c].asked)
      PROVE  PolicyInv'
  BY <1>1 DEF PolicyInv, HasEngine, Permitted, Engines
<1>2. CASE UNCHANGED vars
  BY <1>1, <1>2 DEF vars
<1>3. ASSUME NEW c \in Calls, Request(c) PROVE PolicyInv'
  <2>1. ASSUME NEW q \in Requests, Refuse(c, q) \/ RefuseUnserved(c, q) PROVE PolicyInv'
    BY <1>1, <2>1 DEF Refuse, RefuseUnserved
  <2>2. ASSUME NEW q \in Requests, NEW task \in TaskIds \cup {None}, Authorize(c, q, task)
        PROVE  PolicyInv'
    <3>1. /\ UNCHANGED policies /\ policies # None /\ HasEngine(q.tenant) /\ Permitted(q)
          /\ \A d \in Calls \ {c} : calls'[d] = calls[d]
          /\ calls'[c].asked = q
      BY <1>0, <2>2 DEF Authorize, Arrives, Goes, IdleCall
    <3> QED BY <1>1, <3>1
  <2> QED BY <1>3, <2>1, <2>2 DEF Request
<1>4. ASSUME NEW c \in Calls, Step(c) PROVE PolicyInv'
  <2>1. UNCHANGED policies
    BY <1>4 DEF Step, OpenCounts, DenyFanOut, OpenInserts, OpenUnacknowledged, OpenFails,
                RemoteWorks, RemoteReplies, RemoteTells, ForwardFails, Record
  <2>2. /\ calls[c].pc # "idle"
        /\ \/ calls' = [calls EXCEPT ![c] = IdleCall]
           \/ calls' = [calls EXCEPT ![c] = [calls[c] EXCEPT !.pc = "insert"]]
           \/ calls' = [calls EXCEPT ![c] = [calls[c] EXCEPT !.pc = "forward", !.row = Len(rows) + 1]]
           \/ \E answer :
               calls' = [calls EXCEPT ![c] = [calls[c] EXCEPT !.pc = "record", !.answer = answer]]
    BY <1>4 DEF Step, OpenCounts, DenyFanOut, OpenInserts, InsertsRow, OpenUnacknowledged, OpenFails,
                RemoteWorks, RemoteReplies, RemoteTells, ForwardFails, Record, Answers, Goes
  <2>3. /\ \A d \in Calls \ {c} : calls'[d] = calls[d]
        /\ calls'[c].pc = "idle" \/ calls'[c].asked = calls[c].asked
    <3>1. CASE calls' = [calls EXCEPT ![c] = IdleCall]
      BY <1>0, <3>1 DEF IdleCall
    <3>2. CASE calls' = [calls EXCEPT ![c] = [calls[c] EXCEPT !.pc = "insert"]]
      BY <1>0, <3>2 DEF CallRec
    <3>3. CASE calls' = [calls EXCEPT ![c] = [calls[c] EXCEPT !.pc = "forward", !.row = Len(rows) + 1]]
      BY <1>0, <3>3 DEF CallRec
    <3>4. ASSUME NEW answer,
                 calls' = [calls EXCEPT ![c] = [calls[c] EXCEPT !.pc = "record", !.answer = answer]]
          PROVE  calls'[c].asked = calls[c].asked /\ \A d \in Calls \ {c} : calls'[d] = calls[d]
      BY <1>0, <3>4 DEF CallRec
    <3> QED BY <2>2, <3>1, <3>2, <3>3, <3>4
  <2> QED BY <1>1, <2>1, <2>2, <2>3
<1>5. ASSUME NEW n \in DOMAIN Dirs, Start(n) PROVE PolicyInv'
  BY <1>5, DirsAssumption DEF Start, PolicyInv
<1>6. CASE Crash
  BY <1>0, <1>6 DEF Crash, PolicyInv, IdleCall
<1>7. CASE GoStale \/ \E id \in Remotes : DeclareRemote(id)
  BY <1>1, <1>7 DEF GoStale, DeclareRemote
<1> QED BY <1>2, <1>3, <1>4, <1>5, <1>6, <1>7 DEF Next

-----------------------------------------------------------------------------
(* The theorems. *)

\* The proxy's handlers and the store (Close, Observe, CloseByTaskID) keep it, whatever
\* fails and whenever the gateway dies.
THEOREM OverInvariance == Spec => []OverInv
<1>1. OverInv /\ [Next]_vars => OverInv'
  BY ShapeNext, OwnsNext, TruthNext, BegunNext DEF OverInv
<1> QED BY OverInit, <1>1, PTL DEF Spec

\* Close, Observe and CloseByTaskID, for any remote agents, any ids and states they
\* invent, and any failures: the row of a task is closed by the end of the task, by a
\* transport failure that left it without the id, or by the end of another remote
\* agent's task of that id, and by nothing else; RelayResponse relays no end but one.
THEOREM OnlyTheEndFreesWidth == Spec => [](FreedOnlyWhenOver /\ RelayedIsSo)
<1>1. OverInv => FreedOnlyWhenOver
  <2> SUFFICES ASSUME OverInv, NEW b \in begun, ~rows[b.row].open, rows[b.row].task # None
               PROVE  Over(b.task) \/ \E r \in Remotes \ {b.task[1]} : Over(<<r, b.task[2]>>)
    BY DEF FreedOnlyWhenOver
  <2>1. b.task = <<b.task[1], b.task[2]>>
    BY DEF OverInv, Shape, Tasks
  <2>2. PICK r \in Remotes : Terminal(tasks[<<r, b.task[2]>>])
    BY DEF OverInv, BegunByItsRow
  <2> QED BY <2>1, <2>2 DEF Over, Terminal
<1>2. OverInv => RelayedIsSo
  BY RelayedState DEF OverInv, TellsTheTruth, RelayedIsSo, Over, Terminal
<1> QED BY <1>1, <1>2, OverInvariance, PTL

\* Open counts and inserts under the advisory lock of the run: however many calls
\* race and fail, no run has more than MaxInFlightPerRun delegations open and fresh.
THEOREM WidthHolds == Spec => []WidthIsBounded
<1>1. Spec => [](FoundRoom /\ WidthIsBounded)
  BY OverInvariance, WidthInit, WidthNext, PTL DEF Spec
<1> QED BY <1>1, PTL

\* LoadEngine and authorize, for any directory of bundles, any number of entries and any
\* dispositions they declare: what is forwarded had a permit in its tenant's file, no forbid
\* and no permit that asks for a person first.
THEOREM OnlyApprovedIsForwarded == Spec => []ForwardedIsApproved
<1>1. Spec => []PolicyInv
  <2>1. PolicyInv /\ OverInv /\ [Next]_vars => PolicyInv'
    BY PolicyNext DEF OverInv
  <2> QED BY <2>1, PolicyInit, OverInvariance, PTL DEF Spec
<1>2. PolicyInv => ForwardedIsApproved
  <2> SUFFICES ASSUME PolicyInv, NEW c \in Calls, calls[c].pc # "idle"
               PROVE  LET q == calls[c].asked
                          file == Dirs[policies][q.tenant]
                          Covers(i, effect) ==
                              \E n \in DOMAIN file[i].source :
                                  /\ file[i].source[n].effect = effect
                                  /\ <<q.agent, "RemoteAgent", q.remote>> \in file[i].source[n].matches
                      IN  /\ q.tenant \in DOMAIN Dirs[policies]
                          /\ \E i \in DOMAIN file : Covers(i, "permit")
                          /\ \A i \in DOMAIN file :
                              /\ ~Covers(i, "forbid")
                              /\ Covers(i, "permit") => file[i].disposition # "require_approval"
    BY DEF ForwardedIsApproved
  <2> DEFINE q == calls[c].asked
             file == Dirs[policies][q.tenant]
             asked == <<q.agent, "RemoteAgent", q.remote>>
  <2>1. /\ policies \in DOMAIN Dirs /\ q.tenant \in DOMAIN Dirs[policies]
        /\ LoadEngineAccepts(file) /\ DOMAIN file \subseteq Nat
    BY DirsAssumption DEF PolicyInv, HasEngine, LoadSetAccepts
  <2>2. IsAllowed(LoadEngine(file), asked)
    BY <2>1 DEF PolicyInv, Permitted, Engines, IsAllowedToDelegate
  <2>3. /\ \E i \in DOMAIN file : \E n \in DOMAIN file[i].source :
               file[i].source[n].effect = "permit" /\ asked \in file[i].source[n].matches
        /\ \A i \in DOMAIN file : \A n \in DOMAIN file[i].source :
               asked \in file[i].source[n].matches =>
                   /\ file[i].source[n].effect # "forbid"
                   /\ file[i].source[n].effect = "permit" => file[i].disposition # "require_approval"
    <3> HIDE DEF file, asked
    <3> QED BY <2>1, <2>2, PermittedByTheFile
  <2> QED BY <2>1, <2>3, Zenon
<1> QED BY <1>1, <1>2, PTL
=============================================================================
