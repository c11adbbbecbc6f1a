------------------------- MODULE ToolGatewayProofs -------------------------
(***************************************************************************)
(* Proofs about the Tool Gateway for any number of calls, keys and         *)
(* arguments, with every database failure and crash of module ToolGateway; *)
(* and, at the end, about a step of a run that retries through it (module  *)
(* ToolStep).                                                              *)
(***************************************************************************)
EXTENDS ToolStep, TLAPS

-----------------------------------------------------------------------------
(* The inductive invariant. *)

\* A handler that deals with a row deals with an existing key, and with one
\* that has a row once the INSERT is behind it.
Located ==
    \A c \in Calls :
        /\ pc[c] \in {"insert", "select", "reclaim", "replay"} => req[c].key \in Keys
        /\ pc[c] \in {"select", "reclaim", "replay"} => row[req[c].key].state # "absent"
        /\ pc[c] = "settle" => outcome[c] \in {"ok", "error"}
        /\ pc[c] = "record" => outcome[c] \in {"ok", "error"}

\* A key without a row has had no effect.
AbsentIsNew ==
    \A k \in Keys : row[k].state = "absent" => row[k].failed = 0 /\ effects[k] = 0

\* The execution that has not begun leaves the effects to the failed attempts.
NotRunYet ==
    \A k \in Keys, c \in Calls :
        Holds(c, k) /\ pc[c] = "run" => effects[k] <= row[k].failed

\* A call about to replay holds the result of the completed row.
ReplayIsCurrent ==
    \A c \in Calls :
        pc[c] = "replay" => /\ row[req[c].key].state = "completed"
                            /\ row[req[c].key].result = claim[c].completed

\* Once a result is out, the key is completed with it, or in flight for ever
\* with its caller as the only one answered.
AnsweredIsSettled ==
    \A c \in Calls :
        GaveResult(c) /\ req[c].key # NoKey =>
            /\ pc[c] = "done"
            /\ \A d \in Calls : ~Holds(d, req[c].key)
            /\ \/ /\ row[req[c].key].state = "completed"
                  /\ row[req[c].key].result = resp[c].result
               \/ /\ row[req[c].key].state = "in_flight"
                  /\ resp[c].result = c
                  /\ \A d \in Calls : GaveResult(d) /\ req[d].key = req[c].key => d = c

\* A call that has not been answered has no answer, and one that has not
\* arrived has no key.
Unanswered ==
    \A c \in Calls : /\ pc[c] # "done" => resp[c] = NoResponse
                     /\ pc[c] = "idle" => req[c].key = NoKey

IInv ==
    /\ TypeOK
    /\ Located
    /\ AbsentIsNew
    /\ KeyHeldOnce
    /\ NotRunYet
    /\ EffectsCounted
    /\ ReplayIsCurrent
    /\ Unanswered
    /\ AnsweredIsSettled

-----------------------------------------------------------------------------
(* What each action does to the invariant. *)

\* A step that gives no result, changes only rows nobody was answered from and
\* hands keys out only from such rows keeps the answers settled.
LEMMA QuietStep ==
  ASSUME IInv,
         UNCHANGED req,
         \A d \in Calls : GaveResult(d)' /\ req[d].key # NoKey
                             => GaveResult(d) /\ resp'[d] = resp[d] /\ pc'[d] = pc[d],
         \A h \in Keys : row'[h] = row[h] \/ row[h].state \in {"absent", "released"},
         \A d \in Calls, h \in Keys :
             Holds(d, h)' => Holds(d, h) \/ row[h].state \in {"absent", "released"}
  PROVE  AnsweredIsSettled'
<1> SUFFICES ASSUME NEW e \in Calls, GaveResult(e)', req[e].key # NoKey
             PROVE  /\ pc'[e] = "done"
                    /\ \A d \in Calls : ~Holds(d, req[e].key)'
                    /\ \/ /\ row'[req[e].key].state = "completed"
                          /\ row'[req[e].key].result = resp'[e].result
                       \/ /\ row'[req[e].key].state = "in_flight"
                          /\ resp'[e].result = e
                          /\ \A d \in Calls : GaveResult(d)' /\ req[d].key = req[e].key => d = e
  BY DEF AnsweredIsSettled, Holds
<1>1. req[e].key \in Keys /\ GaveResult(e) /\ resp'[e] = resp[e] /\ pc'[e] = pc[e]
  BY DEF IInv, TypeOK, Requests
<1>2. row[req[e].key].state \in {"completed", "in_flight"} /\ row'[req[e].key] = row[req[e].key]
  BY <1>1 DEF IInv, AnsweredIsSettled
<1> QED
  BY <1>1, <1>2 DEF IInv, AnsweredIsSettled

\* A request arrives: only the caller's own state moves.
LEMMA ArrivalPreserves ==
  ASSUME IInv, NEW c \in Calls, Arrival(c)
  PROVE  IInv'
<1>1. TypeOK'
  <2>1. req' \in [Calls -> Requests]
    BY DEF IInv, TypeOK, Requests, Arrival, Arrive
  <2>2. pc' \in [Calls -> Locations]
    BY DEF IInv, TypeOK, Locations, Arrival, Arrive, Goto
  <2>3. resp' \in [Calls -> Responses]
    BY ResultsAssumption DEF IInv, TypeOK, Responses, ResponseKinds, Arrival, Arrive, Answer
  <2> QED BY <2>1, <2>2, <2>3 DEF IInv, TypeOK, Arrival, Arrive
<1>2. Located' /\ Unanswered'
  BY DEF IInv, TypeOK, Located, Unanswered, Arrival, Arrive, IsDenial, Answer, Goto
<1>3. AbsentIsNew' /\ EffectsCounted'
  BY DEF IInv, TypeOK, AbsentIsNew, EffectsCounted, Arrival, Arrive, IsDenial, Answer, Goto
<1>4. KeyHeldOnce' /\ NotRunYet'
  BY NoKeyAssumption DEF IInv, TypeOK, Located, AbsentIsNew, KeyHeldOnce, NotRunYet,
     EffectsCounted, Holds, Arrival, Arrive, IsDenial, Answer, Goto
<1>5. ReplayIsCurrent'
  BY DEF IInv, TypeOK, ReplayIsCurrent, Arrival, Arrive, IsDenial, Answer, Goto
<1>6. AnsweredIsSettled'
  BY DEF IInv, TypeOK, ReplayIsCurrent, Unanswered, AnsweredIsSettled, Holds, GaveResult,
     Row, Requests, Responses, NoResponse, Claims, Arrival, Arrive, IsDenial, Answer, Goto
<1> QED BY <1>1, <1>2, <1>3, <1>4, <1>5, <1>6 DEF IInv

\* The journal takes the denial or does not.
LEMMA JournalDenialPreserves ==
  ASSUME IInv, NEW c \in Calls, JournalDenial(c)
  PROVE  IInv'
<1>1. TypeOK'
  BY DEF IInv, TypeOK, Responses, Locations, JournalDenial, Goto
<1>2. Located' /\ Unanswered'
  BY DEF IInv, TypeOK, Located, Unanswered, JournalDenial, Goto
<1>3. AbsentIsNew' /\ EffectsCounted'
  BY DEF IInv, TypeOK, AbsentIsNew, EffectsCounted, JournalDenial, Goto
<1>4. KeyHeldOnce' /\ NotRunYet'
  BY NoKeyAssumption DEF IInv, TypeOK, Located, AbsentIsNew, KeyHeldOnce, NotRunYet,
     EffectsCounted, Holds, JournalDenial, Goto
<1>5. ReplayIsCurrent'
  BY DEF IInv, TypeOK, ReplayIsCurrent, JournalDenial, Goto
<1>6. AnsweredIsSettled'
  BY DEF IInv, TypeOK, ReplayIsCurrent, Unanswered, AnsweredIsSettled, Holds, GaveResult,
     Row, JournalDenial, Goto
<1> QED BY <1>1, <1>2, <1>3, <1>4, <1>5, <1>6 DEF IInv

\* The audit log takes the refusal or does not.
LEMMA RecordRefusalPreserves ==
  ASSUME IInv, NEW c \in Calls, RecordRefusal(c)
  PROVE  IInv'
<1>1. TypeOK'
  BY DEF IInv, TypeOK, RowStates, Dispositions, Requests, Claims, ResponseKinds, Responses,
     Locations, RecordRefusal, Goto, Answer
<1>2. Located' /\ Unanswered'
  BY DEF IInv, TypeOK, Located, Unanswered, RecordRefusal, Goto, Answer
<1>3. AbsentIsNew' /\ EffectsCounted'
  BY DEF IInv, TypeOK, AbsentIsNew, EffectsCounted, RecordRefusal, Goto, Answer
<1>4. KeyHeldOnce' /\ NotRunYet'
  BY NoKeyAssumption DEF IInv, TypeOK, Located, AbsentIsNew, KeyHeldOnce, NotRunYet,
     EffectsCounted, Holds, RecordRefusal, Goto, Answer
<1>5. ReplayIsCurrent'
  BY DEF IInv, TypeOK, ReplayIsCurrent, RecordRefusal, Goto, Answer
<1>6. AnsweredIsSettled'
  BY DEF IInv, TypeOK, ReplayIsCurrent, Unanswered, AnsweredIsSettled, Holds, GaveResult,
     Row, RecordRefusal, Goto, Answer
<1> QED BY <1>1, <1>2, <1>3, <1>4, <1>5, <1>6 DEF IInv

\* The INSERT: a key without a row gets its first holder.
LEMMA ClaimInsertPreserves ==
  ASSUME IInv, NEW c \in Calls, ClaimInsert(c)
  PROVE  IInv'
<1> DEFINE k == req[c].key
<1>0. /\ k \in Keys /\ row[k] \in Row /\ effects' = effects /\ req' = req
      /\ \/ /\ row[k].state = "absent"
            /\ row' = [row EXCEPT ![k] = Inserted(row[k], req[c].args)]
            /\ pc' = [pc EXCEPT ![c] = "run"]
         \/ /\ UNCHANGED row
            /\ pc' = [pc EXCEPT ![c] = "select"]
  BY DEF IInv, TypeOK, Located, Requests, ClaimInsert, Goto, RowOf, SetRow, Inserts
<1>1. TypeOK'
  <2>1. req[c].args \in Args \cup {NoArgs}
    BY DEF IInv, TypeOK, Requests
  <2>2. row' \in [Keys -> Row]
    BY <1>0, <2>1 DEF IInv, TypeOK, Row, RowStates, Inserted
  <2>3. pc' \in [Calls -> Locations]
    BY <1>0 DEF IInv, TypeOK, Locations
  <2> QED BY <2>2, <2>3 DEF IInv, TypeOK, ClaimInsert
<1>2. Located' /\ Unanswered'
  BY DEF IInv, TypeOK, Located, Unanswered, NoResponse, Requests, Row, ClaimInsert, Goto,
     RowOf, SetRow, Inserts, Inserted
<1>3. AbsentIsNew' /\ EffectsCounted'
  <2>1. AbsentIsNew'
    BY <1>0 DEF IInv, TypeOK, AbsentIsNew, Inserted
  <2>2. EffectsCounted'
    BY <1>0 DEF IInv, TypeOK, AbsentIsNew, EffectsCounted, Inserted, Row
  <2> QED BY <2>1, <2>2
<1>4. KeyHeldOnce' /\ NotRunYet'
  <2>1. KeyHeldOnce'
    BY <1>0 DEF IInv, TypeOK, KeyHeldOnce, Holds, Inserted
  <2>2. NotRunYet'
    BY <1>0 DEF IInv, TypeOK, AbsentIsNew, NotRunYet, Holds, Inserted, Row
  <2> QED BY <2>1, <2>2
<1>5. ReplayIsCurrent'
  BY NoKeyAssumption, SMTT(30) DEF IInv, TypeOK, Located, KeyHeldOnce, ReplayIsCurrent, Holds, Row,
     Requests, Claims, ClaimInsert, Goto, RowOf, SetRow, Inserts, Inserted
<1>6. AnsweredIsSettled'
  BY ResultsAssumption, NoKeyAssumption, NoResultAssumption, SMTT(30) DEF IInv, TypeOK, Located,
     KeyHeldOnce, ReplayIsCurrent, Unanswered, AnsweredIsSettled, Holds, GaveResult, Row,
     Requests, Responses, NoResponse, Claims, ClaimInsert, Goto, RowOf, SetRow, Inserts,
     Inserted
<1> QED BY <1>1, <1>2, <1>3, <1>4, <1>5, <1>6 DEF IInv

\* The SELECT reads the row; a completed row is final from here on.
LEMMA ClaimSelectPreserves ==
  ASSUME IInv, NEW c \in Calls, ClaimSelect(c)
  PROVE  IInv'
<1>1. TypeOK'
  <2>1. pc' \in [Calls -> Locations]
    BY DEF IInv, TypeOK, Locations, ClaimSelect, Goto
  <2>2. claim' \in [Calls -> Claims]
    BY DEF IInv, TypeOK, Located, Claims, Row, Requests, ClaimSelect, RowOf
  <2>3. resp' \in [Calls -> Responses]
    BY ResultsAssumption DEF IInv, TypeOK, Responses, ResponseKinds, ClaimSelect, Conflict,
       Answer
  <2> QED BY <2>1, <2>2, <2>3 DEF IInv, TypeOK, ClaimSelect
<1>2. Located' /\ Unanswered'
  BY DEF IInv, TypeOK, Located, Unanswered, ClaimSelect, Goto, Conflict, Answer
<1>3. AbsentIsNew' /\ EffectsCounted'
  BY DEF IInv, TypeOK, AbsentIsNew, EffectsCounted, ClaimSelect, Goto, Conflict, Answer
<1>4. KeyHeldOnce' /\ NotRunYet'
  BY NoKeyAssumption DEF IInv, TypeOK, Located, AbsentIsNew, KeyHeldOnce, NotRunYet,
     EffectsCounted, Holds, ClaimSelect, Goto, Conflict, Answer
<1>5. ReplayIsCurrent'
  BY DEF IInv, TypeOK, ReplayIsCurrent, Requests, Claims, ClaimSelect, Goto, RowOf,
     SameArgs, Conflict, Answer
<1>6. AnsweredIsSettled'
  <2>1. \A e \in Calls : GaveResult(e)' /\ req[e].key # NoKey
                          => GaveResult(e) /\ resp'[e] = resp[e] /\ pc'[e] = pc[e]
    BY DEF IInv, TypeOK, Unanswered, NoResponse, Responses, GaveResult, ClaimSelect, Goto,
       Conflict, Answer
  <2>2. \A h \in Keys : row'[h] = row[h] \/ row[h].state \in {"absent", "released"}
    BY DEF IInv, TypeOK, ClaimSelect
  <2>3. \A e \in Calls, h \in Keys :
            Holds(e, h)' => Holds(e, h) \/ row[h].state \in {"absent", "released"}
    BY DEF IInv, TypeOK, Holds, ClaimSelect, Goto
  <2> QED BY <2>1, <2>2, <2>3, QuietStep DEF ClaimSelect
<1> QED BY <1>1, <1>2, <1>3, <1>4, <1>5, <1>6 DEF IInv

\* The conditional UPDATE: only a released row gets a new holder.
LEMMA ClaimReclaimPreserves ==
  ASSUME IInv, NEW c \in Calls, ClaimReclaim(c)
  PROVE  IInv'
<1> DEFINE k == req[c].key
<1>0. /\ k \in Keys /\ row[k] \in Row /\ effects' = effects /\ req' = req /\ outcome' = outcome
      /\ \/ /\ row[k].state = "released"
            /\ row' = [row EXCEPT ![k] = Reclaimed(row[k])]
            /\ pc' = [pc EXCEPT ![c] = "run"] \/ pc' = [pc EXCEPT ![c] = "done"]
         \/ /\ UNCHANGED row
            /\ pc' = [pc EXCEPT ![c] = "done"]
  BY DEF IInv, TypeOK, Located, Requests, ClaimReclaim, Goto, RowOf, SetRow, Reclaims
<1>1. TypeOK'
  <2>1. row' \in [Keys -> Row]
    BY NoKeyAssumption DEF IInv, TypeOK, Row, RowStates, Located, Requests, ClaimReclaim,
       RowOf, SetRow, Reclaims, Reclaimed
  <2>2. pc' \in [Calls -> Locations]
    BY DEF IInv, TypeOK, Locations, ClaimReclaim, Goto
  <2>3. resp' \in [Calls -> Responses]
    BY ResultsAssumption DEF IInv, TypeOK, Responses, ResponseKinds, ClaimReclaim, Conflict,
       Answer
  <2> QED BY <2>1, <2>2, <2>3 DEF IInv, TypeOK, ClaimReclaim
<1>2. Located' /\ Unanswered'
  <2>1. Located'
    BY <1>0 DEF IInv, TypeOK, Located, Reclaimed
  <2>2. Unanswered'
    BY DEF IInv, TypeOK, Unanswered, ClaimReclaim, Goto, Conflict, Answer
  <2> QED BY <2>1, <2>2
<1>3. AbsentIsNew' /\ EffectsCounted'
  <2>1. AbsentIsNew'
    BY <1>0 DEF IInv, TypeOK, AbsentIsNew, Reclaimed
  <2>2. EffectsCounted'
    BY <1>0 DEF IInv, TypeOK, EffectsCounted, Reclaimed, Row
  <2> QED BY <2>1, <2>2
<1>4. KeyHeldOnce' /\ NotRunYet'
  <2>1. KeyHeldOnce'
    BY <1>0 DEF IInv, TypeOK, KeyHeldOnce, Holds, Reclaimed
  <2>2. NotRunYet'
    BY <1>0 DEF IInv, TypeOK, EffectsCounted, NotRunYet, Holds, Reclaimed, Row
  <2> QED BY <2>1, <2>2
<1>5. ReplayIsCurrent'
  BY NoKeyAssumption DEF IInv, TypeOK, Located, KeyHeldOnce, ReplayIsCurrent, Holds, Row,
     Requests, Claims, ClaimReclaim, Goto, RowOf, SetRow, Reclaims, Reclaimed, Conflict,
     Answer
<1>6. AnsweredIsSettled'
  <2>1. \A e \in Calls : GaveResult(e)' /\ req[e].key # NoKey
                          => GaveResult(e) /\ resp'[e] = resp[e] /\ pc'[e] = pc[e]
    BY DEF IInv, TypeOK, Unanswered, NoResponse, Responses, GaveResult, ClaimReclaim, Goto,
       Conflict, Answer
  <2>2. \A h \in Keys : row'[h] = row[h] \/ row[h].state \in {"absent", "released"}
    BY DEF IInv, TypeOK, ClaimReclaim, RowOf, SetRow, Reclaims
  <2>3. \A e \in Calls, h \in Keys :
            Holds(e, h)' => Holds(e, h) \/ row[h].state \in {"absent", "released"}
    BY DEF IInv, TypeOK, Holds, ClaimReclaim, Goto, RowOf, Reclaims
  <2> QED BY <2>1, <2>2, <2>3, QuietStep DEF ClaimReclaim
<1> QED BY <1>1, <1>2, <1>3, <1>4, <1>5, <1>6 DEF IInv

\* The recorded result is served.
LEMMA ReplayPreserves ==
  ASSUME IInv, NEW c \in Calls, Replay(c)
  PROVE  IInv'
<1>1. TypeOK'
  BY DEF IInv, TypeOK, RowStates, Dispositions, Requests, Claims, ResponseKinds, Responses,
     Locations, Replay, Goto, Answer
<1>2. Located' /\ Unanswered'
  BY DEF IInv, TypeOK, Located, Unanswered, Replay, Goto, Answer
<1>3. AbsentIsNew' /\ EffectsCounted'
  BY DEF IInv, TypeOK, AbsentIsNew, EffectsCounted, Replay, Goto, Answer
<1>4. KeyHeldOnce' /\ NotRunYet'
  BY NoKeyAssumption DEF IInv, TypeOK, Located, AbsentIsNew, KeyHeldOnce, NotRunYet,
     EffectsCounted, Holds, Replay, Goto, Answer
<1>5. ReplayIsCurrent'
  BY DEF IInv, TypeOK, ReplayIsCurrent, Replay, Goto, Answer
<1>6. AnsweredIsSettled'
  BY ResultsAssumption, NoKeyAssumption, NoResultAssumption DEF IInv, TypeOK, Located,
     KeyHeldOnce, ReplayIsCurrent, Unanswered, AnsweredIsSettled, Holds, GaveResult, Row,
     Replay, Goto, Answer
<1> QED BY <1>1, <1>2, <1>3, <1>4, <1>5, <1>6 DEF IInv

\* The tool runs, once per holder.
LEMMA RunToolPreserves ==
  ASSUME IInv, NEW c \in Calls, RunTool(c)
  PROVE  IInv'
<1>1. TypeOK'
  <2>1. pc' \in [Calls -> Locations]
    BY DEF IInv, TypeOK, Locations, RunTool, Goto
  <2>2. outcome' \in [Calls -> {"none", "ok", "error"}]
    BY DEF IInv, TypeOK, RunTool
  <2>3. effects' \in [Keys -> Nat]
    BY DEF IInv, TypeOK, RunTool, Lands
  <2> QED BY <2>1, <2>2, <2>3 DEF IInv, TypeOK, RunTool
<1>2. Located' /\ Unanswered'
  BY DEF IInv, TypeOK, Located, Unanswered, RunTool, Goto, Lands
<1>3. AbsentIsNew' /\ EffectsCounted'
  BY NoKeyAssumption DEF IInv, TypeOK, Located, AbsentIsNew, KeyHeldOnce, NotRunYet,
     EffectsCounted, Holds, Row, Requests, RunTool, Goto, Lands
<1>4. KeyHeldOnce' /\ NotRunYet'
  BY NoKeyAssumption, SMTT(30) DEF IInv, TypeOK, Located, AbsentIsNew, KeyHeldOnce, NotRunYet,
     EffectsCounted, Holds, Row, Requests, RunTool, Goto, Lands
<1>5. ReplayIsCurrent'
  BY DEF IInv, TypeOK, ReplayIsCurrent, RunTool, Goto, Lands
<1>6. AnsweredIsSettled'
  BY DEF IInv, TypeOK, ReplayIsCurrent, Unanswered, AnsweredIsSettled, Holds, GaveResult,
     Row, RunTool, Goto, Lands
<1> QED BY <1>1, <1>2, <1>3, <1>4, <1>5, <1>6 DEF IInv

\* The audit log takes the invocation or does not.
LEMMA RecordInvocationPreserves ==
  ASSUME IInv, NEW c \in Calls, RecordInvocation(c)
  PROVE  IInv'
<1>1. TypeOK'
  BY ResultsAssumption, NoKeyAssumption, NoResultAssumption DEF IInv, TypeOK, Located, Row,
     Responses, Locations, RecordInvocation, Goto
<1>2. Located' /\ Unanswered'
  BY DEF IInv, TypeOK, Located, Unanswered, RecordInvocation, Goto
<1>3. AbsentIsNew' /\ EffectsCounted'
  BY DEF IInv, TypeOK, AbsentIsNew, EffectsCounted, RecordInvocation, Goto
<1>4. KeyHeldOnce' /\ NotRunYet'
  BY NoKeyAssumption DEF IInv, TypeOK, Located, AbsentIsNew, KeyHeldOnce, NotRunYet,
     EffectsCounted, Holds, RecordInvocation, Goto
<1>5. ReplayIsCurrent'
  BY DEF IInv, TypeOK, ReplayIsCurrent, RecordInvocation, Goto
<1>6. AnsweredIsSettled'
  BY DEF IInv, TypeOK, ReplayIsCurrent, Unanswered, AnsweredIsSettled, Holds, GaveResult,
     Row, RecordInvocation, Goto
<1> QED BY <1>1, <1>2, <1>3, <1>4, <1>5, <1>6 DEF IInv

\* A call without a key is answered.
LEMMA AnswerUnkeyedPreserves ==
  ASSUME IInv, NEW c \in Calls, AnswerUnkeyed(c)
  PROVE  IInv'
<1>1. TypeOK'
  <2>1. pc' \in [Calls -> Locations]
    BY DEF IInv, TypeOK, Locations, AnswerUnkeyed, Goto
  <2>2. resp' \in [Calls -> Responses]
    BY ResultsAssumption DEF IInv, TypeOK, Responses, ResponseKinds, AnswerUnkeyed, Answer
  <2> QED BY <2>1, <2>2 DEF IInv, TypeOK, AnswerUnkeyed
<1>2. Located' /\ Unanswered'
  BY DEF IInv, TypeOK, Located, Unanswered, AnswerUnkeyed, Goto, Answer
<1>3. AbsentIsNew' /\ EffectsCounted'
  BY DEF IInv, TypeOK, AbsentIsNew, EffectsCounted, AnswerUnkeyed, Goto, Answer
<1>4. KeyHeldOnce' /\ NotRunYet'
  BY NoKeyAssumption DEF IInv, TypeOK, Located, AbsentIsNew, KeyHeldOnce, NotRunYet,
     EffectsCounted, Holds, AnswerUnkeyed, Goto, Answer
<1>5. ReplayIsCurrent'
  BY DEF IInv, TypeOK, ReplayIsCurrent, AnswerUnkeyed, Goto, Answer
<1>6. AnsweredIsSettled'
  <2>1. \A e \in Calls : GaveResult(e)' /\ req[e].key # NoKey
                          => GaveResult(e) /\ resp'[e] = resp[e] /\ pc'[e] = pc[e]
    BY DEF IInv, TypeOK, GaveResult, AnswerUnkeyed, Goto, Answer
  <2>2. \A h \in Keys : row'[h] = row[h] \/ row[h].state \in {"absent", "released"}
    BY DEF IInv, TypeOK, AnswerUnkeyed
  <2>3. \A e \in Calls, h \in Keys :
            Holds(e, h)' => Holds(e, h) \/ row[h].state \in {"absent", "released"}
    BY DEF IInv, TypeOK, Holds, AnswerUnkeyed, Goto
  <2> QED BY <2>1, <2>2, <2>3, QuietStep DEF AnswerUnkeyed
<1> QED BY <1>1, <1>2, <1>3, <1>4, <1>5, <1>6 DEF IInv

\* The holder records its result.
LEMMA CompletePreserves ==
  ASSUME IInv, NEW c \in Calls, Complete(c)
  PROVE  IInv'
<1>1. TypeOK'
  BY ResultsAssumption, NoKeyAssumption, NoResultAssumption DEF IInv, TypeOK, Located, Row,
     RowStates, Dispositions, Requests, Claims, ResponseKinds, Responses, Locations,
     Complete, Goto, Answer, SetRow, RowOf, Completed
<1>2. Located' /\ Unanswered'
  BY DEF IInv, TypeOK, Located, Unanswered, Complete, Goto, Answer, SetRow, Completed
<1>3. AbsentIsNew' /\ EffectsCounted'
  BY DEF IInv, TypeOK, AbsentIsNew, EffectsCounted, Row, Requests, Complete, Goto, Answer,
     SetRow, RowOf, Completed
<1>4. KeyHeldOnce' /\ NotRunYet'
  BY NoKeyAssumption DEF IInv, TypeOK, Located, AbsentIsNew, KeyHeldOnce, NotRunYet,
     EffectsCounted, Holds, Complete, Goto, Answer, SetRow, Completed
<1>5. ReplayIsCurrent'
  BY NoKeyAssumption DEF IInv, TypeOK, Located, KeyHeldOnce, ReplayIsCurrent, Holds, Row,
     Complete, Goto, Answer, SetRow, Completed
<1>6. AnsweredIsSettled'
  BY ResultsAssumption, NoKeyAssumption, NoResultAssumption DEF IInv, TypeOK, Located,
     KeyHeldOnce, ReplayIsCurrent, Unanswered, AnsweredIsSettled, Holds, GaveResult, Row,
     Requests, Responses, NoResponse, Claims, Complete, Goto, Answer, SetRow, RowOf,
     Completed
<1> QED BY <1>1, <1>2, <1>3, <1>4, <1>5, <1>6 DEF IInv

\* The holder gives the key back.
LEMMA ReleasePreserves ==
  ASSUME IInv, NEW c \in Calls, Release(c)
  PROVE  IInv'
<1>1. TypeOK'
  BY ResultsAssumption, NoKeyAssumption, NoResultAssumption DEF IInv, TypeOK, Located, Row,
     RowStates, Dispositions, Requests, Claims, ResponseKinds, Responses, Locations,
     Release, Goto, Answer, SetRow, RowOf, Released
<1>2. Located' /\ Unanswered'
  BY DEF IInv, TypeOK, Located, Unanswered, Release, Goto, Answer, SetRow, Released
<1>3. AbsentIsNew' /\ EffectsCounted'
  BY DEF IInv, TypeOK, AbsentIsNew, EffectsCounted, Row, Requests, Release, Goto, Answer,
     SetRow, RowOf, Released
<1>4. KeyHeldOnce' /\ NotRunYet'
  BY NoKeyAssumption DEF IInv, TypeOK, Located, AbsentIsNew, KeyHeldOnce, NotRunYet,
     EffectsCounted, Holds, Release, Goto, Answer, SetRow, Released
<1>5. ReplayIsCurrent'
  BY NoKeyAssumption DEF IInv, TypeOK, Located, KeyHeldOnce, ReplayIsCurrent, Holds, Row,
     Release, Goto, Answer, SetRow, Released
<1>6. AnsweredIsSettled'
  BY DEF IInv, TypeOK, ReplayIsCurrent, Unanswered, AnsweredIsSettled, Holds, GaveResult,
     Row, Release, Goto, Answer, SetRow, Released
<1> QED BY <1>1, <1>2, <1>3, <1>4, <1>5, <1>6 DEF IInv

\* A statement of Claim reports an error, applied or not.
LEMMA ClaimFailsPreserves ==
  ASSUME IInv, NEW c \in Calls, ClaimFails(c)
  PROVE  IInv'
<1> DEFINE k == req[c].key
<1>0. /\ k \in Keys
      /\ \/ UNCHANGED row
         \/ /\ row[k].state \in {"absent", "released"}
            /\ \E r \in Row : /\ row' = [row EXCEPT ![k] = r]
                              /\ r.state = "in_flight"
                              /\ row[k].state = "released" => r.failed = row[k].failed
  <2>0. k \in Keys /\ row[k] \in Row /\ req[c].args \in Args \cup {NoArgs}
    BY DEF IInv, TypeOK, Located, ClaimFails, Requests
  <2>1. CASE UNCHANGED row
    BY <2>0, <2>1
  <2>2. CASE pc[c] = "insert" /\ Inserts(RowOf(c)) /\ SetRow(c, Inserted(RowOf(c), req[c].args))
    <3>1. Inserted(row[k], req[c].args) \in Row
      BY <2>0 DEF Inserted, Row, RowStates
    <3> QED BY <2>0, <2>2, <3>1 DEF RowOf, SetRow, Inserts, Inserted
  <2>3. CASE pc[c] = "reclaim" /\ Reclaims(RowOf(c)) /\ SetRow(c, Reclaimed(RowOf(c)))
    <3>1. Reclaimed(row[k]) \in Row
      BY <2>0 DEF Reclaimed, Row, RowStates
    <3> QED BY <2>0, <2>3, <3>1 DEF RowOf, SetRow, Reclaims, Reclaimed
  <2> QED BY <2>1, <2>2, <2>3 DEF ClaimFails
<1>1. TypeOK'
  <2>1. row' \in [Keys -> Row]
    BY <1>0 DEF IInv, TypeOK, ClaimFails
  <2>2. pc' \in [Calls -> Locations]
    BY DEF IInv, TypeOK, Locations, ClaimFails
  <2>3. resp' \in [Calls -> Responses]
    BY ResultsAssumption DEF IInv, TypeOK, Responses, ResponseKinds, ClaimFails, Answer
  <2> QED BY <2>1, <2>2, <2>3 DEF IInv, TypeOK, ClaimFails
<1>2. Located' /\ Unanswered'
  BY <1>0 DEF IInv, TypeOK, Located, Unanswered, ClaimFails, SetRow, Inserts, Inserted,
     Reclaims, Reclaimed, Answer
<1>3. AbsentIsNew' /\ EffectsCounted'
  <2>1. effects' = effects
    BY DEF ClaimFails
  <2>2. AbsentIsNew'
    BY <1>0, <2>1 DEF IInv, TypeOK, AbsentIsNew
  <2>3. EffectsCounted'
    BY <1>0, <2>1 DEF IInv, TypeOK, AbsentIsNew, EffectsCounted, Row
  <2> QED BY <2>2, <2>3
<1>4. KeyHeldOnce' /\ NotRunYet'
  BY <1>0, NoKeyAssumption DEF IInv, TypeOK, Located, AbsentIsNew, KeyHeldOnce, NotRunYet,
     EffectsCounted, Holds, ClaimFails, SetRow, Inserts, Inserted, Reclaims, Reclaimed,
     Answer
<1>5. ReplayIsCurrent'
  BY <1>0, NoKeyAssumption DEF IInv, TypeOK, Located, KeyHeldOnce, ReplayIsCurrent, Holds,
     Row, ClaimFails, SetRow, Inserts, Inserted, Reclaims, Reclaimed, Answer
<1>6. AnsweredIsSettled'
  <2>1. \A e \in Calls : GaveResult(e)' /\ req[e].key # NoKey
                          => GaveResult(e) /\ resp'[e] = resp[e] /\ pc'[e] = pc[e]
    BY DEF IInv, TypeOK, GaveResult, ClaimFails, Answer
  <2>2. \A h \in Keys : row'[h] = row[h] \/ row[h].state \in {"absent", "released"}
    BY <1>0 DEF IInv, TypeOK, ClaimFails
  <2>3. \A e \in Calls, h \in Keys :
            Holds(e, h)' => Holds(e, h) \/ row[h].state \in {"absent", "released"}
    BY DEF IInv, TypeOK, Holds, ClaimFails
  <2> QED BY <2>1, <2>2, <2>3, QuietStep DEF ClaimFails
<1> QED BY <1>1, <1>2, <1>3, <1>4, <1>5, <1>6 DEF IInv

\* Complete reports an error: the key is completed, or lost.
LEMMA CompleteFailsPreserves ==
  ASSUME IInv, NEW c \in Calls, CompleteFails(c)
  PROVE  IInv'
<1>1. TypeOK'
  <2>1. row' \in [Keys -> Row]
    BY ResultsAssumption DEF IInv, TypeOK, Requests, Row, RowStates, CompleteFails, RowOf,
       SetRow, Completed
  <2>2. pc' \in [Calls -> Locations]
    BY DEF IInv, TypeOK, Locations, CompleteFails, Goto
  <2>3. resp' \in [Calls -> Responses]
    BY ResultsAssumption DEF IInv, TypeOK, Responses, ResponseKinds, CompleteFails, Answer
  <2> QED BY <2>1, <2>2, <2>3 DEF IInv, TypeOK, CompleteFails
<1>2. Located' /\ Unanswered'
  BY DEF IInv, TypeOK, Located, Unanswered, CompleteFails, Goto, Answer, SetRow, Completed
<1>3. AbsentIsNew' /\ EffectsCounted'
  BY NoKeyAssumption, SMTT(30) DEF IInv, TypeOK, Located, AbsentIsNew, KeyHeldOnce, NotRunYet,
     EffectsCounted, Holds, Row, Requests, CompleteFails, Goto, Answer, SetRow, RowOf,
     Completed
<1>4. KeyHeldOnce' /\ NotRunYet'
  BY NoKeyAssumption DEF IInv, TypeOK, Located, AbsentIsNew, KeyHeldOnce, NotRunYet,
     EffectsCounted, Holds, CompleteFails, Goto, Answer, SetRow, Completed
<1>5. ReplayIsCurrent'
  BY NoKeyAssumption, SMTT(30) DEF IInv, TypeOK, Located, KeyHeldOnce, ReplayIsCurrent, Holds, Row,
     Requests, Claims, CompleteFails, Goto, Answer, SetRow, RowOf, Completed
<1>6. AnsweredIsSettled'
  BY ResultsAssumption, NoKeyAssumption, NoResultAssumption DEF IInv, TypeOK, Located,
     KeyHeldOnce, ReplayIsCurrent, Unanswered, AnsweredIsSettled, Holds, GaveResult, Row,
     Requests, Responses, NoResponse, Claims, CompleteFails, Goto, Answer, SetRow, RowOf,
     Completed
<1> QED BY <1>1, <1>2, <1>3, <1>4, <1>5, <1>6 DEF IInv

\* Release reports an error, applied or not.
LEMMA ReleaseFailsPreserves ==
  ASSUME IInv, NEW c \in Calls, ReleaseFails(c)
  PROVE  IInv'
<1>1. TypeOK'
  BY ResultsAssumption, NoKeyAssumption, NoResultAssumption, SMTT(30) DEF IInv, TypeOK, Located, Row,
     RowStates, Dispositions, Requests, Claims, ResponseKinds, Responses, Locations,
     ReleaseFails, Goto, Answer, SetRow, RowOf, Released
<1>2. Located' /\ Unanswered'
  BY DEF IInv, TypeOK, Located, Unanswered, ReleaseFails, Goto, Answer, SetRow, Released
<1>3. AbsentIsNew' /\ EffectsCounted'
  <2>1. /\ effects' = effects
        /\ \/ UNCHANGED row
           \/ /\ row[req[c].key].state = "in_flight"
              /\ row' = [row EXCEPT ![req[c].key] = Released(row[req[c].key])]
    BY DEF IInv, TypeOK, KeyHeldOnce, Holds, Requests, ReleaseFails, Goto, RowOf, SetRow
  <2>2. AbsentIsNew'
    BY <2>1 DEF IInv, TypeOK, AbsentIsNew, Released
  <2>3. EffectsCounted'
    BY <2>1 DEF IInv, TypeOK, EffectsCounted, Released, Row
  <2> QED BY <2>2, <2>3
<1>4. KeyHeldOnce' /\ NotRunYet'
  BY NoKeyAssumption DEF IInv, TypeOK, Located, AbsentIsNew, KeyHeldOnce, NotRunYet,
     EffectsCounted, Holds, ReleaseFails, Goto, Answer, SetRow, Released
<1>5. ReplayIsCurrent'
  BY NoKeyAssumption DEF IInv, TypeOK, Located, KeyHeldOnce, ReplayIsCurrent, Holds, Row,
     ReleaseFails, Goto, Answer, SetRow, Released
<1>6. AnsweredIsSettled'
  BY DEF IInv, TypeOK, ReplayIsCurrent, Unanswered, AnsweredIsSettled, Holds, GaveResult,
     Row, Requests, Responses, NoResponse, Claims, ReleaseFails, Goto, Answer, SetRow,
     RowOf, Released
<1> QED BY <1>1, <1>2, <1>3, <1>4, <1>5, <1>6 DEF IInv

\* The handler dies.
LEMMA CrashPreserves ==
  ASSUME IInv, NEW c \in Calls, Crash(c)
  PROVE  IInv'
<1>1. TypeOK'
  BY DEF IInv, TypeOK, Responses, Locations, Crash
<1>2. Located' /\ Unanswered'
  BY DEF IInv, TypeOK, Located, Unanswered, Crash
<1>3. AbsentIsNew' /\ EffectsCounted'
  BY DEF IInv, TypeOK, AbsentIsNew, EffectsCounted, Crash
<1>4. KeyHeldOnce' /\ NotRunYet'
  BY NoKeyAssumption DEF IInv, TypeOK, Located, AbsentIsNew, KeyHeldOnce, NotRunYet,
     EffectsCounted, Holds, Crash
<1>5. ReplayIsCurrent'
  BY DEF IInv, TypeOK, ReplayIsCurrent, Crash
<1>6. AnsweredIsSettled'
  BY DEF IInv, TypeOK, ReplayIsCurrent, Unanswered, AnsweredIsSettled, Holds, GaveResult,
     Row, Crash
<1> QED BY <1>1, <1>2, <1>3, <1>4, <1>5, <1>6 DEF IInv

-----------------------------------------------------------------------------
(* The theorems. *)

\* No request has arrived and no key has a row.
LEMMA InitInv == Init => IInv
  BY DEF Init, IInv, TypeOK, Located, AbsentIsNew, KeyHeldOnce, NotRunYet, EffectsCounted,
     ReplayIsCurrent, Unanswered, AnsweredIsSettled, Holds, GaveResult, Row, RowStates,
     AbsentRow, NoRequest, Requests, Dispositions, NoClaim, Claims, NoResponse, Responses,
     ResponseKinds, Locations

\* Every statement of a handler, and every fault, keeps the invariant.
LEMMA NextInv == IInv /\ [Next]_vars => IInv'
<1> SUFFICES ASSUME IInv, [Next]_vars PROVE IInv'
  OBVIOUS
<1>1. CASE UNCHANGED vars
  BY <1>1 DEF vars, IInv, TypeOK, Located, AbsentIsNew, KeyHeldOnce, NotRunYet,
     EffectsCounted, ReplayIsCurrent, Unanswered, AnsweredIsSettled, Holds, GaveResult
<1>2. ASSUME NEW c \in Calls, Arrival(c) PROVE IInv'
  BY <1>2, ArrivalPreserves
<1>3. ASSUME NEW c \in Calls, Step(c) PROVE IInv'
  BY <1>3, JournalDenialPreserves, RecordRefusalPreserves, ClaimInsertPreserves,
     ClaimSelectPreserves, ClaimReclaimPreserves, ReplayPreserves, RunToolPreserves,
     RecordInvocationPreserves, AnswerUnkeyedPreserves, CompletePreserves, ReleasePreserves
     DEF Step
<1>4. ASSUME NEW c \in Calls, Fault(c) PROVE IInv'
  BY <1>4, ClaimFailsPreserves, CompleteFailsPreserves, ReleaseFailsPreserves,
     CrashPreserves DEF Fault
<1> QED
  BY <1>1, <1>2, <1>3, <1>4 DEF Next, Finished

\* The inductive invariant holds in every reachable state of the gateway.
THEOREM Invariance == Spec => []IInv
  BY InitInv, NextInv, PTL DEF Spec

\* The gateway's state keeps its type (TypeOK).
THEOREM TypeCorrect == Spec => []TypeOK
<1>1. IInv => TypeOK
  BY DEF IInv
<1> QED BY <1>1, Invariance, PTL

\* For any number of concurrent requests, crashes and failed statements, a key
\* has at most one executor (the claims of tool_executions.go).
THEOREM OneExecutorPerKey == Spec => []KeyHeldOnce
<1>1. IInv => KeyHeldOnce
  BY DEF IInv
<1> QED BY <1>1, Invariance, PTL

\* failed_attempts never understates how often an effect may have landed.
THEOREM EffectsAreCounted == Spec => []EffectsCounted
<1>1. IInv => EffectsCounted
  BY DEF IInv
<1> QED BY <1>1, Invariance, PTL

\* Two callers given a result for one key were given the same result.
THEOREM OneResultPerKey == Spec => []AnswersAgree
<1>1. IInv => AnswersAgree
  BY DEF IInv, AnsweredIsSettled, AnswersAgree
<1> QED BY <1>1, Invariance, PTL

\* No step changes a completed row: not the unconditional UPDATEs of Complete
\* and Release either, because only a holder issues them.
THEOREM CompletedRowsAreFinal == Spec => CompletedIsFinal
<1>1. IInv /\ [Next]_vars => [\A k \in Keys : row[k].state = "completed" => row'[k] = row[k]]_vars
  <2> SUFFICES ASSUME IInv, NEW c \in Calls, Arrival(c) \/ Step(c) \/ Fault(c),
                      NEW k \in Keys, row[k].state = "completed"
               PROVE  row'[k] = row[k]
    BY DEF Next, Finished, vars
  <2>1. CASE Arrival(c) \/ JournalDenial(c) \/ RecordRefusal(c) \/ ClaimSelect(c) \/ Replay(c)
             \/ RunTool(c) \/ RecordInvocation(c) \/ AnswerUnkeyed(c) \/ Crash(c)
    BY <2>1 DEF Arrival, Arrive, JournalDenial, RecordRefusal, ClaimSelect, Replay, RunTool,
       RecordInvocation, AnswerUnkeyed, Crash
  <2>2. CASE ClaimInsert(c) \/ ClaimReclaim(c) \/ ClaimFails(c)
    BY <2>2 DEF IInv, TypeOK, ClaimInsert, ClaimReclaim, ClaimFails, SetRow, RowOf, Inserts,
       Reclaims
  <2>3. CASE Complete(c) \/ Release(c) \/ CompleteFails(c) \/ ReleaseFails(c)
    <3>1. Holds(c, req[c].key) /\ req[c].key \in Keys
      BY <2>3 DEF IInv, TypeOK, Requests, Holds, Complete, Release, CompleteFails,
         ReleaseFails, Goto
    <3>2. row[req[c].key].state = "in_flight"
      BY <3>1 DEF IInv, KeyHeldOnce
    <3> QED BY <2>3, <3>2 DEF IInv, TypeOK, Complete, Release, CompleteFails, ReleaseFails,
       SetRow
  <2> QED BY <2>1, <2>2, <2>3 DEF Step, Fault
<1> QED BY <1>1, Invariance, PTL DEF Spec, CompletedIsFinal

\* docs/adr/0001: once a result has been given for a key, its effect does not
\* land again.
THEOREM ConfirmedWritesAreNotRepeated == Spec => ConfirmedNotRepeated
<1>1. IInv /\ [Next]_vars
      => [\A c \in Calls : GaveResult(c) /\ req[c].key # NoKey
             => effects'[req[c].key] = effects[req[c].key]]_vars
  <2> SUFFICES ASSUME IInv, NEW d \in Calls, Arrival(d) \/ Step(d) \/ Fault(d),
                      NEW c \in Calls, GaveResult(c), req[c].key # NoKey
               PROVE  effects'[req[c].key] = effects[req[c].key]
    BY DEF Next, Finished, vars
  <2>1. CASE RunTool(d)
    <3>1. ~Holds(d, req[c].key)
      BY DEF IInv, AnsweredIsSettled
    <3>2. req[d].key # req[c].key
      BY <2>1, <3>1 DEF RunTool, Goto, Holds
    <3>3. UNCHANGED effects \/ effects' = [effects EXCEPT ![req[d].key] = @ + 1]
      BY <2>1 DEF RunTool, Lands
    <3>4. req[c].key \in Keys
      BY DEF IInv, TypeOK, Requests
    <3> QED BY <3>2, <3>3, <3>4 DEF IInv, TypeOK
  <2>2. CASE ~RunTool(d)
    BY <2>2 DEF Arrival, Arrive, Step, Fault, JournalDenial, RecordRefusal, ClaimInsert,
       ClaimSelect, ClaimReclaim, Replay, RecordInvocation, AnswerUnkeyed, Complete,
       Release, ClaimFails, CompleteFails, ReleaseFails, Crash
  <2> QED BY <2>1, <2>2
<1> QED BY <1>1, Invariance, PTL DEF Spec, ConfirmedNotRepeated

-----------------------------------------------------------------------------
(* What a result was produced with, and what the audit log says of it. *)

\* The call a result is identified with, if it has arrived and asked with a.
ProducedWith(v, a) == v \in Calls /\ pc[v] # "idle" /\ req[v].args = a

\* A row keeps the arguments it was inserted with; who holds it, is about to
\* re-claim it or to replay it has the same ones.
ArgumentsKept ==
    /\ \A k \in Keys, c \in Calls : Holds(c, k) => row[k].args = req[c].args
    /\ \A c \in Calls :
        pc[c] = "replay" \/ (pc[c] = "reclaim" /\ ~claim[c].diverged)
            => row[req[c].key].args = req[c].args
    /\ \A k \in Keys : row[k].state = "completed" => ProducedWith(row[k].result, row[k].args)
    /\ \A c \in Calls :
        GaveResult(c) => pc[c] # "idle" /\ ProducedWith(resp[c].result, req[c].args)

\* Where each request came from, and that it is in the log once it is past the
\* statement that writes there.
AuditTrail ==
    /\ AuditIsConsistent
    /\ \A c \in Calls :
        /\ pc[c] \in {"refusal", "journal"} => req[c].disposition # "allow"
        /\ pc[c] \in {"insert", "select", "reclaim", "run", "record", "settle", "replay"}
            => req[c].disposition = "allow"
        /\ pc[c] = "idle" => outcome[c] = "none"
        /\ (\E e \in log : e[1] = c) => pc[c] \in {"settle", "done", "dead"}

\* The arguments stay with the row and with its holder, whatever a step does.
LEMMA ServedNext == IInv /\ ArgumentsKept /\ [Next]_vars => ArgumentsKept'
<1> SUFFICES ASSUME IInv, ArgumentsKept, [Next]_vars PROVE ArgumentsKept'
  OBVIOUS
<1> USE DEF IInv, TypeOK, ArgumentsKept, ProducedWith, Holds, GaveResult
<1>1. CASE UNCHANGED vars
  BY <1>1 DEF vars
<1>2. ASSUME NEW c \in Calls, Arrival(c) PROVE ArgumentsKept'
  BY <1>2, NoKeyAssumption DEF Arrival, Arrive, Goto, Answer, Located, Unanswered,
     Requests, Responses, NoResponse
<1>3. ASSUME NEW c \in Calls, JournalDenial(c) \/ RecordRefusal(c) PROVE ArgumentsKept'
  BY <1>3 DEF JournalDenial, RecordRefusal, Goto, Answer
<1>4. ASSUME NEW c \in Calls, ClaimInsert(c) PROVE ArgumentsKept'
  BY <1>4, SMTT(30) DEF ClaimInsert, Goto, Answer, Located, KeyHeldOnce, SetRow, RowOf, Inserts,
     Inserted, Unanswered
<1>5. ASSUME NEW c \in Calls, ClaimSelect(c) PROVE ArgumentsKept'
  <2>1. /\ row' = row /\ req' = req /\ req[c].key \in Keys
        /\ \A d \in Calls \ {c} : claim'[d] = claim[d]
        /\ ~claim'[c].diverged => row[req[c].key].args = req[c].args
        /\ \/ /\ row[req[c].key].args = req[c].args
              /\ pc' = [pc EXCEPT ![c] = "replay"] /\ resp' = resp
           \/ /\ pc' = [pc EXCEPT ![c] = "reclaim"] /\ resp' = resp
           \/ /\ pc' = [pc EXCEPT ![c] = "done"]
              /\ \E kind \in {"diverged", "in_flight"} :
                    resp' = [resp EXCEPT ![c] = [kind |-> kind, result |-> NoResult]]
    BY <1>5 DEF ClaimSelect, Goto, Answer, Conflict, Located, RowOf, SameArgs
  <2> QED BY <2>1 DEF Unanswered
<1>6. ASSUME NEW c \in Calls, ClaimReclaim(c) PROVE ArgumentsKept'
  BY <1>6, SMTT(30) DEF ClaimReclaim, Goto, Answer, Conflict, Located, KeyHeldOnce, SetRow, RowOf,
     Reclaims, Reclaimed, Unanswered
<1>7. ASSUME NEW c \in Calls, Replay(c) PROVE ArgumentsKept'
  BY <1>7 DEF Replay, Goto, Answer, Located, ReplayIsCurrent
<1>8. ASSUME NEW c \in Calls,
             RunTool(c) \/ RecordInvocation(c) \/ Crash(c)
      PROVE  ArgumentsKept'
  BY <1>8 DEF RunTool, RecordInvocation, Crash, Goto, Lands
<1>9. ASSUME NEW c \in Calls, AnswerUnkeyed(c) PROVE ArgumentsKept'
  BY <1>9, ResultsAssumption DEF AnswerUnkeyed, Goto, Answer
<1>10. ASSUME NEW c \in Calls, Complete(c) \/ CompleteFails(c) PROVE ArgumentsKept'
  <2>1. /\ req[c].key \in Keys /\ Holds(c, req[c].key) /\ req' = req /\ claim' = claim
        /\ pc' = [pc EXCEPT ![c] = "done"]
        /\ \/ row' = row
           \/ row' = [row EXCEPT ![req[c].key] = Completed(row[req[c].key], c)]
        /\ \E kind \in {"ok", "unprotected"} :
              resp' = [resp EXCEPT ![c] = [kind |-> kind, result |-> c]]
    BY <1>10 DEF Complete, CompleteFails, Goto, Answer, SetRow, RowOf, Requests
  <2> QED BY <2>1, NoKeyAssumption DEF Completed, Located
<1>11. ASSUME NEW c \in Calls, Release(c) \/ ReleaseFails(c) PROVE ArgumentsKept'
  <2>1. /\ req[c].key \in Keys /\ req' = req /\ claim' = claim
        /\ pc' = [pc EXCEPT ![c] = "done"] /\ pc[c] = "settle"
        /\ \/ row' = row
           \/ row' = [row EXCEPT ![req[c].key] = Released(row[req[c].key])]
        /\ \E kind \in {"tool_error", "unreleased"} :
              resp' = [resp EXCEPT ![c] = [kind |-> kind, result |-> NoResult]]
    BY <1>11 DEF Release, ReleaseFails, Goto, Answer, SetRow, RowOf, Requests
  <2> QED BY <2>1, NoKeyAssumption DEF Released, Located
<1>12. ASSUME NEW c \in Calls, ClaimFails(c) PROVE ArgumentsKept'
  BY <1>12, SMTT(30) DEF ClaimFails, Answer, Located, KeyHeldOnce, SetRow, RowOf, Inserts,
     Inserted, Reclaims, Reclaimed, Unanswered
<1> QED
  BY <1>1, <1>2, <1>3, <1>4, <1>5, <1>6, <1>7, <1>8, <1>9, <1>10, <1>11, <1>12 DEF Next,
     Step, Fault, Finished

\* A request is logged by the one statement that its path leads through.
LEMMA AuditNext == IInv /\ AuditTrail /\ [Next]_vars => AuditTrail'
<1> SUFFICES ASSUME IInv, AuditTrail, [Next]_vars PROVE AuditTrail'
  OBVIOUS
<1> USE DEF IInv, TypeOK, AuditTrail, AuditIsConsistent
<1>1. CASE UNCHANGED vars
  BY <1>1 DEF vars
<1>2. ASSUME NEW c \in Calls, Arrival(c) PROVE AuditTrail'
  BY <1>2, SMTT(30) DEF Arrival, Arrive, Goto, IsDenial, Dispositions, Requests
<1>3. ASSUME NEW c \in Calls, JournalDenial(c) \/ RecordRefusal(c) PROVE AuditTrail'
  BY <1>3 DEF JournalDenial, RecordRefusal, Goto
<1>4. ASSUME NEW c \in Calls, ClaimInsert(c) PROVE AuditTrail'
  BY <1>4 DEF ClaimInsert, Goto
<1>5. ASSUME NEW c \in Calls, ClaimSelect(c) PROVE AuditTrail'
  BY <1>5 DEF ClaimSelect, Goto
<1>6. ASSUME NEW c \in Calls, ClaimReclaim(c) PROVE AuditTrail'
  BY <1>6 DEF ClaimReclaim, Goto
<1>7. ASSUME NEW c \in Calls, Replay(c) PROVE AuditTrail'
  BY <1>7 DEF Replay, Goto
<1>8. ASSUME NEW c \in Calls, RunTool(c) PROVE AuditTrail'
  BY <1>8 DEF RunTool, Goto
<1>9. ASSUME NEW c \in Calls, RecordInvocation(c) PROVE AuditTrail'
  BY <1>9 DEF RecordInvocation, Goto, Located
<1>10. ASSUME NEW c \in Calls,
              AnswerUnkeyed(c) \/ Complete(c) \/ CompleteFails(c) \/ Release(c) \/ ReleaseFails(c)
       PROVE  AuditTrail'
  BY <1>10 DEF AnswerUnkeyed, Complete, CompleteFails, Release, ReleaseFails, Goto
<1>11. ASSUME NEW c \in Calls, ClaimFails(c) \/ Crash(c) PROVE AuditTrail'
  BY <1>11 DEF ClaimFails, Crash
<1> QED
  BY <1>1, <1>2, <1>3, <1>4, <1>5, <1>6, <1>7, <1>8, <1>9, <1>10, <1>11 DEF Next, Step,
     Fault, Finished

\* No request has arrived: nothing was served or logged.
LEMMA ServedInit == Init => ArgumentsKept /\ AuditTrail
  BY DEF Init, ArgumentsKept, AuditTrail, AuditIsConsistent, ProducedWith, Holds,
     GaveResult, AbsentRow, NoResponse, NoRequest

\* For every interleaving of claims, re-claims, replays and faults, a result is
\* served only to a call with the arguments that produced it (ArgsDiverged).
THEOREM ServedByArguments == Spec => []ServedOwnArguments
<1>1. ArgumentsKept => ServedOwnArguments
  BY DEF ArgumentsKept, ServedOwnArguments, ProducedWith
<1> QED BY <1>1, ServedInit, ServedNext, Invariance, PTL DEF Spec

\* The invocation log holds one row per call at most, and "denied" exactly for
\* the calls the policy kept from running the tool.
THEOREM AuditTrailIsConsistent == Spec => []AuditIsConsistent
<1>1. AuditTrail => AuditIsConsistent
  BY DEF AuditTrail
<1> QED BY <1>1, ServedInit, AuditNext, Invariance, PTL DEF Spec

-----------------------------------------------------------------------------
(* The refinement of IdempotentExecution.  A claim that wins is Take, a  *)
(* settled execution Finish or GiveBack, a replay Serve; every other step  *)
(* stutters.                                                               *)

\* c was given a result for k with the warning that it is not recorded.
Unprotected(c, k) == req[c].key = k /\ resp[c].kind = "unprotected"

\* What the refinement mapping makes of a key, by the state of its row.
Mapped ==
    /\ AbstractPhase \in [Keys -> {"free", "taken", "done", "lost"}]
    /\ AbstractValue \in [Keys -> Results \cup {NoResult}]
    /\ AbstractAnswer \in [Keys -> SUBSET (Results \cup {NoResult})]
    /\ \A k \in Keys :
        /\ row[k].state \in {"absent", "released"}
            => AbstractPhase[k] = "free" /\ AbstractValue[k] = NoResult
        /\ row[k].state = "completed"
            => AbstractPhase[k] = "done" /\ AbstractValue[k] = row[k].result
        /\ row[k].state = "in_flight" /\ (\A c \in Calls : ~Unprotected(c, k))
            => AbstractPhase[k] = "taken" /\ AbstractValue[k] = NoResult
        /\ \A c \in Calls : row[k].state = "in_flight" /\ Unprotected(c, k)
            => AbstractPhase[k] = "lost" /\ AbstractValue[k] = c

\* The mapping is a function of the row and of the one warned caller.
LEMMA MappedKeys == IInv => Mapped
<1> SUFFICES ASSUME IInv PROVE Mapped
  OBVIOUS
<1>1. ASSUME NEW k \in Keys PROVE LostOn(k) \subseteq Calls
  BY DEF LostOn
<1>2. ASSUME NEW k \in Keys, LostOn(k) = {}
      PROVE  AbstractValue[k] = IF row[k].state = "completed" THEN row[k].result ELSE NoResult
  BY <1>2 DEF AbstractValue
<1>3. ASSUME NEW k \in Keys, NEW c \in Calls, row[k].state = "in_flight", Unprotected(c, k)
      PROVE  AbstractPhase[k] = "lost" /\ AbstractValue[k] = c
  <2>1. LostOn(k) = {c}
    BY <1>3, NoKeyAssumption DEF LostOn, Unprotected, IInv, AnsweredIsSettled, GaveResult
  <2>2. (CHOOSE d \in LostOn(k) : TRUE) = c
    BY <2>1
  <2>3. AbstractValue[k] = c
    BY <1>3, <2>1, <2>2 DEF AbstractValue
  <2>4. AbstractPhase[k] = "lost"
    BY <1>3, <2>1 DEF AbstractPhase
  <2> QED BY <2>3, <2>4
<1>4. ASSUME NEW k \in Keys, row[k].state # "in_flight" \/ \A c \in Calls : ~Unprotected(c, k)
      PROVE  LostOn(k) = {}
  BY <1>4 DEF LostOn, Unprotected
<1>5. ASSUME NEW k \in Keys, LostOn(k) = {}
      PROVE  /\ row[k].state \in {"absent", "released"} => AbstractPhase[k] = "free"
             /\ row[k].state = "completed" => AbstractPhase[k] = "done"
             /\ row[k].state = "in_flight" => AbstractPhase[k] = "taken"
  BY <1>5 DEF AbstractPhase
<1>6. \A k \in Keys : row[k] \in Row
  BY DEF IInv, TypeOK
<1>7. AbstractPhase \in [Keys -> {"free", "taken", "done", "lost"}]
  BY <1>6 DEF AbstractPhase, Row, RowStates
<1>8. \A k \in Keys : AbstractValue[k] \in Results \cup {NoResult}
  BY <1>2, <1>3, <1>4, <1>6, ResultsAssumption DEF Row
<1>9. AbstractAnswer \in [Keys -> SUBSET (Results \cup {NoResult})]
  BY DEF AbstractAnswer, IInv, TypeOK, Responses
<1>10. AbstractValue \in [Keys -> Results \cup {NoResult}]
  BY <1>8 DEF AbstractValue
<1> QED
  BY <1>2, <1>3, <1>4, <1>5, <1>7, <1>9, <1>10 DEF Mapped

\* The same in the next state.
LEMMA MappedNext == IInv' => Mapped'
  BY MappedKeys, PTL

\* The answers given for key k are the same before and after the step.
AnswersKept(k) ==
    \A d \in Calls :
        /\ (req'[d].key = k /\ GaveResult(d)') <=> (req[d].key = k /\ GaveResult(d))
        /\ req[d].key = k /\ GaveResult(d) => resp'[d] = resp[d]

\* Key k looks the same to the promise before and after the step.
KeyKept(k) ==
    /\ AbstractPhase'[k] = AbstractPhase[k]
    /\ AbstractValue'[k] = AbstractValue[k]
    /\ AbstractAnswer'[k] = AbstractAnswer[k]

\* The promise sees of the answers only what AnswersKept keeps.
LEMMA AnswersFollow ==
  ASSUME NEW k \in Keys, AnswersKept(k)
  PROVE  /\ AbstractAnswer'[k] = AbstractAnswer[k]
         /\ \A c \in Calls : Unprotected(c, k)' <=> Unprotected(c, k)
<1>1. AbstractAnswer'[k] = AbstractAnswer[k]
  BY DEF AnswersKept, AbstractAnswer
<1>2. ASSUME NEW c \in Calls PROVE Unprotected(c, k)' <=> Unprotected(c, k)
  BY DEF AnswersKept, Unprotected, GaveResult
<1> QED BY <1>1, <1>2

\* A key whose row and answers stay is the same key to the promise.
LEMMA KeyUntouched ==
  ASSUME IInv, IInv', NEW k \in Keys, row'[k] = row[k], AnswersKept(k)
  PROVE  KeyKept(k)
<1>1. Mapped /\ Mapped' /\ row[k].state \in RowStates
  BY MappedKeys, MappedNext DEF IInv, TypeOK, Row
<1>2. \A c \in Calls : Unprotected(c, k)' <=> Unprotected(c, k)
  BY AnswersFollow
<1>3. AbstractPhase'[k] = AbstractPhase[k] /\ AbstractValue'[k] = AbstractValue[k]
  <2>1. CASE row[k].state # "in_flight" \/ \A c \in Calls : ~Unprotected(c, k)
    BY <1>1, <1>2, <2>1 DEF Mapped, RowStates
  <2>2. CASE row[k].state = "in_flight" /\ \E c \in Calls : Unprotected(c, k)
    BY <1>1, <1>2, <2>2 DEF Mapped
  <2> QED BY <2>1, <2>2
<1> QED BY <1>3, AnswersFollow DEF KeyKept

\* A step that touches one key at most changes the promise's variables there.
LEMMA OneKeyChanges ==
  ASSUME Mapped, Mapped', NEW k \in Keys, \A h \in Keys \ {k} : KeyKept(h)
  PROVE  /\ AbstractPhase' = [AbstractPhase EXCEPT ![k] = AbstractPhase'[k]]
         /\ AbstractValue' = [AbstractValue EXCEPT ![k] = AbstractValue'[k]]
         /\ AbstractAnswer' = [AbstractAnswer EXCEPT ![k] = AbstractAnswer'[k]]
  BY DEF Mapped, KeyKept

\* A step that touches no key is a stutter of the promise.
LEMMA NothingChanges ==
  ASSUME Mapped, Mapped', \A h \in Keys : KeyKept(h)
  PROVE  UNCHANGED Promise!promise
  BY DEF Mapped, KeyKept, Promise!promise

\* A step that leaves the rows and the answers alone stutters.
LEMMA QuietRefines ==
  ASSUME IInv, IInv', row' = row, \A k \in Keys : AnswersKept(k)
  PROVE  UNCHANGED Promise!promise
  BY KeyUntouched, NothingChanges, MappedKeys, MappedNext

\* The key of an answered call is settled: its row is in use.
LEMMA FreeIsUnanswered ==
  ASSUME IInv, NEW k \in Keys, row[k].state \in {"absent", "released"}, NEW c \in Calls
  PROVE  ~(GaveResult(c) /\ req[c].key = k)
  BY NoKeyAssumption DEF IInv, AnsweredIsSettled

\* A claim that wins the key takes it.
LEMMA TakeRefines ==
  ASSUME IInv, IInv', NEW k \in Keys,
         row[k].state \in {"absent", "released"}, row'[k].state = "in_flight",
         \A h \in Keys \ {k} : row'[h] = row[h], \A h \in Keys : AnswersKept(h)
  PROVE  Promise!Take(k)
<1>1. Mapped /\ Mapped'
  BY MappedKeys, MappedNext
<1>2. \A h \in Keys \ {k} : KeyKept(h)
  BY KeyUntouched
<1>3. AbstractPhase[k] = "free" /\ AbstractValue[k] = NoResult
  BY <1>1 DEF Mapped
<1>5. \A c \in Calls : ~Unprotected(c, k)'
  BY FreeIsUnanswered, AnswersFollow DEF Unprotected, GaveResult
<1>6. AbstractPhase'[k] = "taken" /\ AbstractValue'[k] = NoResult
  BY <1>1, <1>5 DEF Mapped
<1>7. AbstractAnswer'[k] = AbstractAnswer[k]
  BY AnswersFollow
<1>8. AbstractValue' = AbstractValue /\ AbstractAnswer' = AbstractAnswer
  BY <1>1, <1>2, <1>3, <1>6, <1>7, OneKeyChanges DEF Mapped
<1> QED
  BY <1>1, <1>2, <1>3, <1>6, <1>8, OneKeyChanges DEF Promise!Take

\* The key a call holds is taken and has no result yet.
LEMMA HeldIsTaken ==
  ASSUME IInv, NEW k \in Keys, NEW c \in Calls, Holds(c, k)
  PROVE  /\ row[k].state = "in_flight"
         /\ \A d \in Calls : ~(GaveResult(d) /\ req[d].key = k)
         /\ AbstractPhase[k] = "taken" /\ AbstractValue[k] = NoResult
         /\ AbstractAnswer[k] = {}
<1>1. row[k].state = "in_flight"
  BY DEF IInv, KeyHeldOnce
<1>2. \A d \in Calls : ~(GaveResult(d) /\ req[d].key = k)
  BY NoKeyAssumption DEF IInv, AnsweredIsSettled
<1>3. AbstractPhase[k] = "taken" /\ AbstractValue[k] = NoResult
  BY <1>1, <1>2, MappedKeys DEF Mapped, Unprotected, GaveResult
<1>4. AbstractAnswer[k] = {}
  BY <1>2 DEF AbstractAnswer
<1> QED BY <1>1, <1>2, <1>3, <1>4

\* A release gives the key back.
LEMMA GiveBackRefines ==
  ASSUME IInv, IInv', NEW k \in Keys, NEW c \in Calls, Holds(c, k),
         row'[k].state = "released",
         \A h \in Keys \ {k} : row'[h] = row[h], \A h \in Keys : AnswersKept(h)
  PROVE  Promise!GiveBack(k)
<1>1. Mapped /\ Mapped'
  BY MappedKeys, MappedNext
<1>2. \A h \in Keys \ {k} : KeyKept(h)
  BY KeyUntouched
<1>3. AbstractPhase[k] = "taken" /\ AbstractValue[k] = NoResult
  BY HeldIsTaken
<1>4. AbstractPhase'[k] = "free" /\ AbstractValue'[k] = NoResult
  BY <1>1 DEF Mapped
<1>5. AbstractAnswer'[k] = AbstractAnswer[k]
  BY AnswersFollow
<1>6. AbstractValue' = AbstractValue /\ AbstractAnswer' = AbstractAnswer
  BY <1>1, <1>2, <1>3, <1>4, <1>5, OneKeyChanges DEF Mapped
<1> QED
  BY <1>1, <1>2, <1>3, <1>4, <1>6, OneKeyChanges DEF Promise!GiveBack

\* An execution that succeeded finishes the key, recorded or lost, and its own
\* caller is given the result.
LEMMA FinishRefines ==
  ASSUME IInv, IInv', NEW k \in Keys, NEW c \in Calls, Holds(c, k),
         req' = req, GaveResult(c)', resp'[c].result = c,
         \A d \in Calls \ {c} : resp'[d] = resp[d],
         \A h \in Keys \ {k} : row'[h] = row[h],
         \/ row'[k].state = "completed" /\ row'[k].result = c
         \/ row'[k].state = "in_flight" /\ resp'[c].kind = "unprotected"
  PROVE  \E p \in {"done", "lost"} : Promise!Finish(k, c, p)
<1>1. Mapped /\ Mapped'
  BY MappedKeys, MappedNext
<1>2. \A h \in Keys \ {k} : KeyKept(h)
  <2> SUFFICES ASSUME NEW h \in Keys \ {k} PROVE AnswersKept(h)
    BY KeyUntouched
  <2> QED BY DEF AnswersKept, Holds, GaveResult
<1>3. AbstractPhase[k] = "taken" /\ AbstractAnswer[k] = {}
  BY HeldIsTaken
<1>4. AbstractPhase'[k] \in {"done", "lost"} /\ AbstractValue'[k] = c
  BY <1>1 DEF Mapped, Unprotected, Holds
<1>5. AbstractAnswer'[k] = {c}
  <2>1. {d \in Calls : req'[d].key = k /\ GaveResult(d)'} = {c}
    BY HeldIsTaken DEF GaveResult, Holds
  <2> QED BY <2>1 DEF AbstractAnswer
<1>6. /\ AbstractPhase' = [AbstractPhase EXCEPT ![k] = AbstractPhase'[k]]
      /\ AbstractValue' = [AbstractValue EXCEPT ![k] = c]
      /\ AbstractAnswer' = [AbstractAnswer EXCEPT ![k] = @ \cup {c}]
  BY <1>1, <1>2, <1>3, <1>4, <1>5, OneKeyChanges DEF Mapped
<1> QED
  BY <1>3, <1>4, <1>6 DEF Promise!Finish

\* A replay serves the result of the key.
LEMMA ServeRefines ==
  ASSUME IInv, IInv', NEW k \in Keys, NEW c \in Calls,
         row[k].state = "completed", row' = row, req' = req, req[c].key = k,
         ~GaveResult(c), resp'[c].kind = "replayed", resp'[c].result = row[k].result,
         \A d \in Calls \ {c} : resp'[d] = resp[d]
  PROVE  Promise!Serve(k)
<1>1. Mapped /\ Mapped'
  BY MappedKeys, MappedNext
<1>2. \A h \in Keys \ {k} : KeyKept(h)
  <2> SUFFICES ASSUME NEW h \in Keys \ {k} PROVE AnswersKept(h)
    BY KeyUntouched
  <2> QED BY DEF AnswersKept, GaveResult
<1>3. AbstractPhase[k] = "done" /\ AbstractValue[k] = row[k].result
  BY <1>1 DEF Mapped
<1>4. AbstractPhase'[k] = "done" /\ AbstractValue'[k] = row[k].result
  BY <1>1 DEF Mapped
<1>5. AbstractAnswer'[k] = AbstractAnswer[k] \cup {row[k].result}
  <2>1. {d \in Calls : req'[d].key = k /\ GaveResult(d)'}
          = {d \in Calls : req[d].key = k /\ GaveResult(d)} \cup {c}
    BY DEF GaveResult
  <2> QED BY <2>1 DEF AbstractAnswer
<1>6. /\ AbstractPhase' = AbstractPhase
      /\ AbstractValue' = AbstractValue
      /\ AbstractAnswer' = [AbstractAnswer EXCEPT ![k] = @ \cup {AbstractValue[k]}]
  BY <1>1, <1>2, <1>3, <1>4, <1>5, OneKeyChanges DEF Mapped
<1> QED
  BY <1>3, <1>6 DEF Promise!Serve

\* A step of one call that gives it no result keeps the answers of every key.
LEMMA NoResultGiven ==
  ASSUME IInv, NEW c \in Calls, pc[c] # "done",
         \A d \in Calls \ {c} : resp'[d] = resp[d] /\ req'[d] = req[d],
         ~GaveResult(c)'
  PROVE  \A k \in Keys : AnswersKept(k)
  BY DEF IInv, Unanswered, NoResponse, AnswersKept, GaveResult

\* Every step of the gateway is a step of the promise on the mapped state.
LEMMA StepRefines ==
  ASSUME IInv, IInv', [Next]_vars
  PROVE  [Promise!Next]_(Promise!promise)
<1> USE DEF IInv, TypeOK
<1>1. CASE UNCHANGED vars
  <2>1. \A k \in Keys : AnswersKept(k)
    BY <1>1 DEF vars, AnswersKept, GaveResult
  <2> QED BY <1>1, <2>1, QuietRefines DEF vars
<1>2. ASSUME NEW c \in Calls,
             Arrival(c) \/ JournalDenial(c) \/ RecordRefusal(c) \/ ClaimSelect(c)
             \/ RunTool(c) \/ RecordInvocation(c) \/ Crash(c)
      PROVE  [Promise!Next]_(Promise!promise)
  <2>1. /\ row' = row /\ pc[c] # "done"
        /\ \A d \in Calls \ {c} : resp'[d] = resp[d] /\ req'[d] = req[d]
        /\ resp'[c] = resp[c] \/ resp'[c].kind \notin {"ok", "replayed", "unprotected"}
    BY <1>2 DEF Arrival, Arrive, JournalDenial, RecordRefusal, ClaimSelect, RunTool,
       RecordInvocation, Crash, Goto, Answer, Conflict
  <2>2. ~GaveResult(c)'
    BY <2>1 DEF Unanswered, NoResponse, GaveResult
  <2> QED BY <2>1, <2>2, NoResultGiven, QuietRefines
<1>3. ASSUME NEW c \in Calls, AnswerUnkeyed(c) PROVE [Promise!Next]_(Promise!promise)
  <2>1. \A k \in Keys : AnswersKept(k)
    BY <1>3, NoKeyAssumption DEF AnswerUnkeyed, Answer, AnswersKept, GaveResult
  <2> QED BY <1>3, <2>1, QuietRefines DEF AnswerUnkeyed
<1>4. ASSUME NEW c \in Calls, ClaimInsert(c) \/ ClaimReclaim(c) \/ ClaimFails(c)
      PROVE  [Promise!Next]_(Promise!promise)
  <2> DEFINE k == req[c].key
  <2>1. /\ k \in Keys /\ pc[c] # "done"
        /\ \A d \in Calls \ {c} : resp'[d] = resp[d] /\ req'[d] = req[d]
        /\ resp'[c] = resp[c] \/ resp'[c].kind \notin {"ok", "replayed", "unprotected"}
        /\ \/ row' = row
           \/ /\ row[k].state \in {"absent", "released"} /\ row'[k].state = "in_flight"
              /\ \A h \in Keys \ {k} : row'[h] = row[h]
    BY <1>4 DEF ClaimInsert, ClaimReclaim, ClaimFails, Goto, Answer, Conflict, Located,
       SetRow, RowOf, Inserts, Inserted, Reclaims, Reclaimed
  <2>2. ~GaveResult(c)'
    BY <2>1 DEF Unanswered, NoResponse, GaveResult
  <2>3. \A h \in Keys : AnswersKept(h)
    BY <2>1, <2>2, NoResultGiven
  <2> QED BY <2>1, <2>3, QuietRefines, TakeRefines DEF Promise!Next
<1>5. ASSUME NEW c \in Calls, Release(c) \/ ReleaseFails(c)
      PROVE  [Promise!Next]_(Promise!promise)
  <2> DEFINE k == req[c].key
  <2>1. /\ k \in Keys /\ Holds(c, k) /\ pc[c] # "done"
        /\ \A d \in Calls \ {c} : resp'[d] = resp[d] /\ req'[d] = req[d]
        /\ resp'[c].kind \notin {"ok", "replayed", "unprotected"}
        /\ \/ row' = row
           \/ row'[k].state = "released" /\ \A h \in Keys \ {k} : row'[h] = row[h]
    BY <1>5 DEF Release, ReleaseFails, Goto, Answer, Requests, Holds, SetRow, RowOf,
       Released
  <2>2. \A h \in Keys : AnswersKept(h)
    BY <2>1, NoResultGiven DEF GaveResult
  <2> QED BY <2>1, <2>2, QuietRefines, GiveBackRefines DEF Promise!Next
<1>6. ASSUME NEW c \in Calls, Complete(c) \/ CompleteFails(c)
      PROVE  [Promise!Next]_(Promise!promise)
  <2> DEFINE k == req[c].key
  <2>1. /\ k \in Keys /\ Holds(c, k) /\ req' = req
        /\ GaveResult(c)' /\ resp'[c].result = c
        /\ \A d \in Calls \ {c} : resp'[d] = resp[d]
        /\ \A h \in Keys \ {k} : row'[h] = row[h]
    BY <1>6 DEF Complete, CompleteFails, Goto, Answer, Requests, Holds, GaveResult, SetRow
  <2>2. \/ row'[k].state = "completed" /\ row'[k].result = c
        \/ row' = row /\ resp'[c].kind = "unprotected"
    BY <1>6, <2>1 DEF Complete, CompleteFails, Answer, SetRow, RowOf, Completed
  <2>3. row[k].state = "in_flight"
    BY <2>1, HeldIsTaken
  <2> QED BY <2>1, <2>2, <2>3, FinishRefines DEF Promise!Next
<1>7. ASSUME NEW c \in Calls, Replay(c) PROVE [Promise!Next]_(Promise!promise)
  <2> DEFINE k == req[c].key
  <2>1. /\ k \in Keys /\ row[k].state = "completed" /\ row' = row /\ req' = req
        /\ ~GaveResult(c) /\ resp'[c].kind = "replayed" /\ resp'[c].result = row[k].result
        /\ \A d \in Calls \ {c} : resp'[d] = resp[d]
    BY <1>7 DEF Replay, Goto, Answer, Located, ReplayIsCurrent, Unanswered, NoResponse,
       GaveResult
  <2> QED BY <2>1, ServeRefines DEF Promise!Next
<1> QED
  BY <1>1, <1>2, <1>3, <1>4, <1>5, <1>6, <1>7 DEF Next, Step, Fault, Finished

\* With no row and no answer every key is free.
LEMMA InitRefines == Init => Promise!Init
<1> SUFFICES ASSUME Init PROVE Promise!Init
  OBVIOUS
<1>1. Mapped /\ \A k \in Keys : row[k].state = "absent"
  BY InitInv, MappedKeys DEF Init, AbsentRow
<1>2. \A k \in Keys : AbstractAnswer[k] = {}
  BY DEF Init, AbstractAnswer, GaveResult, NoResponse
<1> QED BY <1>1, <1>2 DEF Mapped, Promise!Init

\* The handlers of /execute, with the failed statements and the crashes,
\* implement IdempotentExecution for any number of calls and keys: a key is
\* taken by one execution at a time and yields at most one result.
THEOREM GatewayKeepsPromise == Spec => KeepsPromise
  BY InitRefines, StepRefines, Invariance, PTL DEF Spec, KeepsPromise, Promise!Spec

-----------------------------------------------------------------------------
(* What stands behind a result, at the gateway alone. *)

\* v is the result of an execution of k that ended well.
ProducedFor(v, k) == v \in Calls /\ outcome[v] = "ok" /\ req[v].key = k

\* Every execution that ended well had its effect, every result that is
\* recorded or given out is of such an execution, and every failed attempt
\* that a row counts was one.
Backed ==
    /\ \A c \in Calls :
        /\ outcome[c] # "none" => pc[c] \in {"record", "settle", "done", "dead"}
        /\ outcome[c] = "ok" /\ req[c].key # NoKey => effects[req[c].key] >= 1
        /\ GaveResult(c) => ProducedFor(resp[c].result, req[c].key)
    /\ \A k \in Keys :
        /\ row[k].state = "completed" => ProducedFor(row[k].result, k)
        /\ row[k].failed >= 1 => \E c \in Calls : outcome[c] = "error"

\* A result is recorded or given only by the call that produced it, or replayed
\* from a row it was recorded in.
LEMMA BackedNext == IInv /\ Backed /\ [Next]_vars => Backed'
<1> SUFFICES ASSUME IInv, Backed, [Next]_vars PROVE Backed'
  OBVIOUS
<1> USE DEF IInv, TypeOK, Backed, ProducedFor, GaveResult
<1>1. CASE UNCHANGED vars
  BY <1>1 DEF vars
<1>2. ASSUME NEW c \in Calls, Arrival(c) PROVE Backed'
  BY <1>2 DEF Arrival, Arrive, Goto, Answer, Unanswered, Requests, NoResponse
<1>3. ASSUME NEW c \in Calls, JournalDenial(c) \/ RecordRefusal(c) PROVE Backed'
  BY <1>3 DEF JournalDenial, RecordRefusal, Goto, Answer
<1>4. ASSUME NEW c \in Calls, ClaimInsert(c) PROVE Backed'
  BY <1>4 DEF ClaimInsert, Goto, Located, SetRow, RowOf, Inserts, Inserted
<1>5. ASSUME NEW c \in Calls, ClaimSelect(c) PROVE Backed'
  BY <1>5 DEF ClaimSelect, Goto, Answer, Conflict
<1>6. ASSUME NEW c \in Calls, ClaimReclaim(c) PROVE Backed'
  BY <1>6, SMTT(30) DEF ClaimReclaim, Goto, Answer, Conflict, Located, SetRow, RowOf, Reclaims,
     Reclaimed
<1>7. ASSUME NEW c \in Calls, Replay(c) PROVE Backed'
  BY <1>7 DEF Replay, Goto, Answer, Located, ReplayIsCurrent
<1>8. ASSUME NEW c \in Calls, RunTool(c) PROVE Backed'
  BY <1>8, SMTT(30) DEF RunTool, Goto, Lands, Requests
<1>9. ASSUME NEW c \in Calls, RecordInvocation(c) \/ Crash(c) PROVE Backed'
  BY <1>9 DEF RecordInvocation, Crash, Goto
<1>10. ASSUME NEW c \in Calls, AnswerUnkeyed(c) PROVE Backed'
  BY <1>10, ResultsAssumption DEF AnswerUnkeyed, Goto, Answer
<1>11. ASSUME NEW c \in Calls, Complete(c) \/ CompleteFails(c) PROVE Backed'
  <2>1. /\ req[c].key \in Keys /\ outcome[c] = "ok" /\ req' = req /\ outcome' = outcome
        /\ effects' = effects /\ pc' = [pc EXCEPT ![c] = "done"]
        /\ \/ row' = row
           \/ row' = [row EXCEPT ![req[c].key] = Completed(row[req[c].key], c)]
        /\ \E kind \in {"ok", "unprotected"} :
              resp' = [resp EXCEPT ![c] = [kind |-> kind, result |-> c]]
    BY <1>11 DEF Complete, CompleteFails, Goto, Answer, SetRow, RowOf, Requests
  <2> QED BY <2>1 DEF Completed
<1>12. ASSUME NEW c \in Calls, Release(c) \/ ReleaseFails(c) PROVE Backed'
  <2>1. /\ req[c].key \in Keys /\ outcome[c] = "error" /\ req' = req /\ outcome' = outcome
        /\ effects' = effects /\ pc' = [pc EXCEPT ![c] = "done"]
        /\ \/ row' = row
           \/ row' = [row EXCEPT ![req[c].key] = Released(row[req[c].key])]
        /\ \E kind \in {"tool_error", "unreleased"} :
              resp' = [resp EXCEPT ![c] = [kind |-> kind, result |-> NoResult]]
    BY <1>12 DEF Release, ReleaseFails, Goto, Answer, SetRow, RowOf, Requests
  <2> QED BY <2>1 DEF Released
<1>13. ASSUME NEW c \in Calls, ClaimFails(c) PROVE Backed'
  BY <1>13 DEF ClaimFails, Answer, Located, SetRow, RowOf, Inserts, Inserted, Reclaims,
     Reclaimed
<1> QED
  BY <1>1, <1>2, <1>3, <1>4, <1>5, <1>6, <1>7, <1>8, <1>9, <1>10, <1>11, <1>12, <1>13
     DEF Next, Step, Fault, Finished

\* Nothing has run.
LEMMA BackedInit == Init => Backed
  BY DEF Init, Backed, ProducedFor, GaveResult, AbsentRow, NoResponse, NoRequest

-----------------------------------------------------------------------------
(* A tool step, for any number of attempts and timeouts.  It uses the      *)
(* gateway and nothing else of it, so what is proved above of the gateway  *)
(* holds next to every step.                                               *)

\* Every step of a tool step is a step of the gateway or leaves it alone.
LEMMA StepIsAllowed == StepNext => [Next]_vars
<1>1. ASSUME NEW c \in Calls, Attempt(c) PROVE Next
  BY <1>1, StepAssumption DEF Attempt, Next, Arrival
<1> QED BY <1>1 DEF StepNext, Next, Receive, TimesOut, StepDone, stepVars

\* Whatever the attempts of a step do, the gateway sees requests: everything
\* proved of Spec holds while a step is tried.
THEOREM StepUsesTheGateway == StepSpec => Spec
<1>1. [StepNext]_stepVars => [Next]_vars
  BY StepIsAllowed DEF stepVars
<1> QED BY <1>1, PTL DEF StepSpec, Spec, StepInit

\* Every request at the gateway is an attempt of the step, the one it waits for
\* has arrived, and a step that succeeded was given its result by an attempt.
Attempts ==
    /\ \A c \in Calls : pc[c] # "idle" => req[c].key = StepKey
    /\ step = "attempting" => current \in Calls /\ pc[current] # "idle"
    /\ step = "succeeded" => \E c \in Calls : /\ pc[c] = "done" /\ GaveResult(c)
                                            /\ resp[c].result = result
                                            /\ req[c].key = StepKey

\* An answer that was given stays, and so does what was asked.
LEMMA AnswersStay ==
  ASSUME IInv, [Next]_vars, NEW c \in Calls
  PROVE  /\ pc[c] = "done" => pc'[c] = "done" /\ resp'[c] = resp[c]
         /\ pc[c] # "idle" => pc'[c] # "idle" /\ req'[c] = req[c]
<1>1. CASE UNCHANGED vars
  BY <1>1 DEF vars
<1>2. ASSUME NEW d \in Calls, Arrival(d) PROVE pc[d] = "idle" /\ pc'[d] # "idle"
         /\ \A e \in Calls \ {d} : pc'[e] = pc[e] /\ resp'[e] = resp[e] /\ req'[e] = req[e]
  BY <1>2 DEF IInv, TypeOK, Arrival, Arrive, Goto, Answer
<1>3. ASSUME NEW d \in Calls, Step(d) \/ Fault(d)
      PROVE  /\ pc[d] \notin {"idle", "done"} /\ pc'[d] # "idle" /\ req' = req
             /\ \A e \in Calls \ {d} : pc'[e] = pc[e] /\ resp'[e] = resp[e]
  BY <1>3 DEF IInv, TypeOK, Step, Fault, JournalDenial, RecordRefusal, ClaimInsert,
     ClaimSelect, ClaimReclaim, Replay, RunTool, RecordInvocation, AnswerUnkeyed, Complete,
     Release, ClaimFails, CompleteFails, ReleaseFails, Crash, Goto, Answer, Conflict
<1> QED BY <1>1, <1>2, <1>3 DEF Next, Finished, vars

\* Attempts follow each other, and the ones that timed out go on.
LEMMA AttemptsNext == IInv /\ Attempts /\ [StepNext]_stepVars => Attempts'
<1> SUFFICES ASSUME IInv, Attempts, [StepNext]_stepVars PROVE Attempts'
  OBVIOUS
<1>0. [Next]_vars
  BY StepIsAllowed DEF stepVars
<1>1. /\ \A c \in Calls : pc[c] = "done" => pc'[c] = "done" /\ resp'[c] = resp[c]
      /\ \A c \in Calls : pc[c] # "idle" => pc'[c] # "idle" /\ req'[c] = req[c]
  BY <1>0, AnswersStay
<1>2. ASSUME UNCHANGED worker, \A c \in Calls : pc'[c] # "idle" => pc[c] # "idle"
      PROVE  Attempts'
  BY <1>1, <1>2 DEF Attempts, GaveResult, worker
<1>3. CASE UNCHANGED stepVars
  BY <1>2, <1>3 DEF stepVars, vars
<1>4. ASSUME NEW c \in Calls, Attempt(c) PROVE Attempts'
  <2>1. /\ step = "scheduled" /\ step' = "attempting" /\ current' = c
        /\ pc'[c] # "idle" /\ req'[c].key = StepKey
        /\ \A d \in Calls \ {c} : pc'[d] = pc[d] /\ req'[d] = req[d]
    BY <1>4 DEF IInv, TypeOK, Requests, Attempt, Arrive, Goto
  <2> QED BY <2>1 DEF Attempts
<1>5. ASSUME NEW c \in Calls, Receive(c) PROVE Attempts'
  <2>1. UNCHANGED <<pc, req, resp>> /\ pc[c] # "idle"
    BY <1>5 DEF Receive, vars, Attempts
  <2>2. CASE pc[c] = "done" /\ Succeeds(c)
    BY <2>1, <2>2 DEF Attempts, Succeeds, GaveResult
  <2>3. CASE Refused(c) \/ Retry
    BY <2>1, <2>3 DEF Attempts, Refused, Retry
  <2> QED BY <1>5, <2>2, <2>3 DEF Receive
<1>6. ASSUME NEW c \in Calls, Step(c) \/ Fault(c), UNCHANGED worker PROVE Attempts'
  <2>1. \A d \in Calls : pc'[d] # "idle" => pc[d] # "idle"
    BY <1>6 DEF IInv, TypeOK, Step, Fault, JournalDenial, RecordRefusal, ClaimInsert,
       ClaimSelect, ClaimReclaim, Replay, RunTool, RecordInvocation, AnswerUnkeyed, Complete,
       Release, ClaimFails, CompleteFails, ReleaseFails, Crash, Goto
  <2> QED BY <1>2, <1>6, <2>1
<1>7. CASE TimesOut
  <2>1. UNCHANGED <<pc, req, resp>> /\ step' \in {"scheduled", "failed"}
    BY <1>7 DEF TimesOut, Retry, vars
  <2> QED BY <2>1 DEF Attempts
<1> QED BY <1>3, <1>4, <1>5, <1>6, <1>7 DEF StepNext, StepDone

\* The invariant of the step.
StepInv == IInv /\ Backed /\ Attempts

\* It holds in every reachable state of a step.
THEOREM StepInvariance == StepSpec => []StepInv
<1>1. StepInit => StepInv
  BY InitInv, BackedInit DEF StepInit, StepInv, Attempts, Init
<1>2. StepInv /\ [StepNext]_stepVars => StepInv'
  <2>1. [StepNext]_stepVars => [Next]_vars
    BY StepIsAllowed DEF stepVars
  <2> QED BY <2>1, NextInv, BackedNext, AttemptsNext DEF StepInv
<1> QED BY <1>1, <1>2, PTL DEF StepSpec

\* For any number of attempts, timeouts, crashes and faults: the workflow is
\* never handed a result without an execution that ended well behind it, and
\* its effect has landed (tool_activities.py).
THEOREM SucceededStepsLanded == StepSpec => []SucceededLanded
<1>1. StepInv => SucceededLanded
  BY StepAssumption, NoKeyAssumption DEF StepInv, Backed, Attempts, ProducedFor,
     SucceededLanded
<1> QED BY <1>1, StepInvariance, PTL

\* docs/adr/0001: once a step has succeeded its effect does not land again, not
\* by the attempts that timed out and are still running either.
THEOREM ConfirmedStepsAreNotRepeated == StepSpec => ConfirmedStepNotRepeated
<1>1. StepInv /\ [\A c \in Calls : GaveResult(c) /\ req[c].key # NoKey
                      => effects'[req[c].key] = effects[req[c].key]]_vars
      => [step = "succeeded" => effects'[StepKey] = effects[StepKey]]_stepVars
  BY StepAssumption, NoKeyAssumption DEF StepInv, Attempts, vars
<1> QED BY <1>1, StepInvariance, StepUsesTheGateway, ConfirmedWritesAreNotRepeated, PTL
        DEF ConfirmedNotRepeated, ConfirmedStepNotRepeated

\* An effect that landed twice was announced: a tool ended in an error before
\* its key was released (Release in tool_executions.go).
THEOREM RepeatsWereAnnounced == StepSpec => []RepeatedOnlyAfterError
<1>1. StepInv => RepeatedOnlyAfterError
  <2> SUFFICES ASSUME StepInv, effects[StepKey] >= 2
               PROVE  \E c \in Calls : outcome[c] = "error"
    BY DEF RepeatedOnlyAfterError
  <2>1. /\ row[StepKey].failed \in Nat /\ effects[StepKey] \in Nat
        /\ effects[StepKey] <= row[StepKey].failed + 1
    BY StepAssumption DEF StepInv, IInv, TypeOK, Row, EffectsCounted
  <2>2. row[StepKey].failed >= 1
    BY <2>1
  <2> QED BY <2>2, StepAssumption DEF StepInv, Backed
<1> QED BY <1>1, StepInvariance, PTL
=============================================================================
