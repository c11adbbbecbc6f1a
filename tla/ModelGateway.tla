---------------------------- MODULE ModelGateway ----------------------------
(***************************************************************************)
(* The Model Gateway (go/internal/modelgateway, go/internal/api/           *)
(* model_gateway_handlers.go and openai_compatible_*.go): concurrent calls *)
(* through its three doors, POST /decide, POST /v1/chat/completions and    *)
(* its streamed form.  A call is compared with its run's ceiling, tries    *)
(* the candidates of its pool in order of priority, records what it was    *)
(* charged for and is answered.  Between two steps of a call the others    *)
(* move, the quality scores change, and a read or a write of the ledger    *)
(* may fail: a client that disconnects is such a failure, for the          *)
(* request's context is the one every provider call and every write uses.  *)
(***************************************************************************)
EXTENDS FinOpsLedger, Adapters

CONSTANTS
    Calls,          \* concurrent requests
    Requests,       \* what a request may ask: [door, run, key, pool, profile, restricted]
    NoRun, NoKey,   \* a request that names no run, no idempotency key
    Budgets,        \* spec.runtime.budgets of the agent's manifest
    Registered,     \* the providers main registered
    Scored,         \* models an evaluation suite reports scores for
    Usages,         \* tokens a generation may consume
    Past,           \* calls that may have been recorded before: [run, model, usage]
    MaxArrivals,    \* bound on the requests, all together
    MaxFaults       \* bound on the reads and writes of the ledger that fail,
                    \* and on the answers that get lost on their way

\* The candidates of /decide come with the request, without in-network marks.
ASSUME RequestsAssumption ==
    \A q \in Requests :
        /\ q.door \in {"decide", "chat", "stream"}
        /\ IsFiniteSet(q.pool)
        /\ q.pool \subseteq [model : Models, priority : Nat, inNetwork : {FALSE}]

ASSUME UsagesAssumption == Usages \subseteq [prompt : Nat, completion : Nat]

\* Concurrent requests, the forms of a request, the length of an answer and the rows of
\* the past are all bounded.
ASSUME FiniteAssumption ==
    IsFiniteSet(Calls) /\ IsFiniteSet(Requests) /\ IsFiniteSet(Usages) /\ IsFiniteSet(Past)

\* A manifest's budgets are numbers, which may be negative.
ASSUME BudgetsAssumption == \A b \in DOMAIN Budgets : Budgets[b] \in Int

\* At most one call per model has been recorded before.
ASSUME PastAssumption ==
    /\ \A p \in Past : p.model \in Models /\ p.usage \in [prompt : Nat, completion : Nat]
    /\ \A p, q \in Past : p.model = q.model => p = q

ASSUME BoundsAssumption == {MaxArrivals, MaxFaults} \subseteq Nat

VARIABLES
    calls,      \* each request's progress
    ledger,     \* model_gateway_costs
    platform,   \* what the providers did (external): request id -> answer
    degraded,   \* models whose quality score is below the threshold
    blind,      \* runs that were let past their ceiling unread
    arrivals, faults

vars == <<calls, ledger, platform, degraded, blind, arrivals, faults>>

\* attempts holds [model, kind, of, usage]: of is the request at the provider,
\* usage what its answer reported.  rows holds what is left to write, each a set of
\* one row, or of none.
IdleCall == [pc |-> "idle", status |-> "none", request |-> NoId, no |-> 0,
             todo |-> <<>>, attempts |-> <<>>, rows |-> <<>>,
             singleChunk |-> FALSE, sent |-> <<>>, lost |-> FALSE]

\* What a row can name of a request: the id that its answer brought back.
RequestId(id) == IF Keyed(id[2]) THEN id ELSE NoId

Init ==
    /\ calls = [c \in Calls |-> IdleCall]
    /\ \E past \in SUBSET Past :
        /\ platform = [id \in {<<0, p.model, 0>> : p \in past} |->
                         [kind |-> "generated", model |-> id[2], of |-> id, key |-> NoKey,
                          usage |-> (CHOOSE p \in past : p.model = id[2]).usage]]
        /\ ledger = {Entry(p.run, p.model, p.usage, CostUSD(p.model, p.usage),
                           RequestId(<<0, p.model, 0>>), NoId, FALSE, <<0, p.model, 0>>) : p \in past}
    /\ degraded = {} /\ blind = {} /\ arrivals = 0 /\ faults = 0

Ceiling == CeilingFromManifest(Budgets)
Answered(status) == [IdleCall EXCEPT !.status = status]

-----------------------------------------------------------------------------
(* Arrival: overBudget, ResolveProfile and restrictPool. *)

\* No run or no declared ceiling: nothing to compare with.
OverBudget(run) ==
    /\ run # NoRun /\ Declared(Ceiling)
    /\ Exceeded(Ceiling, SpendForRun(ledger, run))

\* The rest of a request once its candidates are known.
Admit(c, q, pool, restricted) ==
    LET inside == RestrictPool(pool, restricted)
    IN  IF inside = {}
        THEN calls' = [calls EXCEPT ![c] = Answered("502")]
        ELSE \E order \in TryOrders(inside) :
                calls' = [calls EXCEPT ![c] =
                    [IdleCall EXCEPT !.pc = "trying", !.request = q, !.no = arrivals',
                                     !.todo = order]]

\* A ledger that cannot be read refuses nobody.
Budgeted(c, q, pool, restricted) ==
    \/ /\ OverBudget(q.run)
       /\ calls' = [calls EXCEPT ![c] = Answered("402")]
       /\ UNCHANGED <<blind, faults>>
    \/ /\ OverBudget(q.run) /\ faults < MaxFaults
       /\ faults' = faults + 1 /\ blind' = blind \cup {q.run}
       /\ Admit(c, q, pool, restricted)
    \/ /\ ~OverBudget(q.run)
       /\ Admit(c, q, pool, restricted)
       /\ UNCHANGED <<blind, faults>>

Arrives(c, q) ==
    /\ calls[c].pc = "idle" /\ arrivals < MaxArrivals
    /\ arrivals' = arrivals + 1
    /\ UNCHANGED <<ledger, platform, degraded>>

ArriveDecide(c, q) ==
    /\ Arrives(c, q) /\ q.door = "decide"
    /\ Budgeted(c, q, q.pool, q.restricted)

\* The profile is resolved before the ceiling is read.
ArriveChat(c, q) ==
    /\ Arrives(c, q) /\ q.door \in {"chat", "stream"}
    /\ LET resolved == ResolveProfile(q.profile)
       IN  IF resolved.error = ""
           THEN Budgeted(c, q, resolved.candidates, resolved.restricted)
           ELSE /\ calls' = [calls EXCEPT ![c] =
                                Answered(IF resolved.error = "not_found" THEN "404" ELSE "403")]
                /\ UNCHANGED <<blind, faults>>

-----------------------------------------------------------------------------
(* One candidate of the cascade. *)

Model(c) == Head(calls[c].todo).model
Streamed(c) == calls[c].request.door = "stream"

Attempted(c, kind, of, usage) ==
    [calls[c] EXCEPT !.todo = Tail(@),
                     !.attempts = Append(@, [model |-> Model(c), kind |-> kind, of |-> of,
                                             usage |-> usage])]

\* onStart, which the streamed door turns into the X-Aeon-Streamed header
\* before the candidate is called.
Started(c, call) ==
    [call EXCEPT !.singleChunk = @ \/ (Streamed(c) /\ ~Streams(Model(c)))]

Trying(c) == calls[c].pc = "trying" /\ calls[c].todo # <<>>
Callable(c) == Trying(c) /\ Provider[Model(c)] \in Registered

\* A score that cannot be read degrades nobody, so a degraded model may still
\* be called.
Skip(c) ==
    /\ Trying(c)
    /\ Model(c) \in degraded \/ ~Callable(c)
    /\ calls' = [calls EXCEPT ![c] = Attempted(c, "skipped", NoId, NoUsage)]
    /\ UNCHANGED <<ledger, platform, degraded, blind, arrivals, faults>>

\* What the provider does: a new generation or, for a key it has seen with this
\* model, the generation it stored.
This(c) == <<calls[c].no, Model(c), Len(calls[c].attempts)>>
Stored(c) == {id \in DOMAIN platform :
                /\ Keyed(Model(c)) /\ calls[c].request.key # NoKey
                /\ platform[id].kind # "replayed" /\ id[2] = Model(c)
                /\ platform[id].key = calls[c].request.key}
Does(c, kind, usage, of) ==
    platform' = [id \in DOMAIN platform \cup {This(c)} |->
                    IF id # This(c) THEN platform[id]
                    ELSE [kind |-> kind, model |-> Model(c), usage |-> usage, of |-> of,
                          key |-> calls[c].request.key]]
Generates(c) ==
    IF Stored(c) = {} THEN \E u \in Usages : Does(c, "generated", u, This(c))
    ELSE \E id \in Stored(c) : Does(c, "replayed", platform[id].usage, id)

Fails(c) ==
    /\ Callable(c)
    /\ \E kind \in Failures(Provider[Model(c)]) :
        calls' = [calls EXCEPT ![c] = Started(c, Attempted(c, kind, NoId, NoUsage))]
    /\ UNCHANGED <<ledger, platform, degraded, blind, arrivals, faults>>

\* The provider generated an answer that never arrived, or that held no choice:
\* to the gateway, an error.
AnswerGetsLost(c) ==
    /\ Callable(c) /\ Stored(c) = {} /\ faults < MaxFaults
    /\ faults' = faults + 1
    /\ \E u \in Usages : Does(c, "unanswered", u, This(c))
    /\ calls' = [calls EXCEPT ![c] = Started(c, Attempted(c, "error", NoId, NoUsage))]
    /\ UNCHANGED <<ledger, degraded, blind, arrivals>>

-----------------------------------------------------------------------------
(* What is recorded: recordCost and recordDiscardedAttempts. *)

\* What a generation's usage may be to the gateway.
Reports(m, u) == {UsageOf(Provider[m], account) : account \in Accounts(Provider[m], u)}

\* Mutant of ServedEntry: a replay is charged like a generation.
ServedEntryReplayCharged(run, u, id, answer) ==
    Entry(run, id[2], u, CostUSD(id[2], u), RequestId(id),
          IF answer.kind = "replayed" THEN answer.of ELSE NoId, FALSE, id)
ServedEntry(run, u, id, answer) ==
    IF answer.kind = "replayed"
    THEN Entry(run, id[2], ZeroUsage, 0, RequestId(id), answer.of, FALSE, id)
    ELSE Entry(run, id[2], u, CostUSD(id[2], u), RequestId(id), NoId, FALSE, id)

\* A discarded answer is recorded when it reported any usage at all.
DiscardedEntries(run, attempts) ==
    [i \in DOMAIN attempts |->
        LET a == attempts[i]
        IN  IF Discarded(a) /\ a.usage # NoUsage
            THEN {Entry(run, a.model, a.usage, CostUSD(a.model, a.usage), RequestId(a.of), NoId,
                        TRUE, a.of)}
            ELSE {}]

\* Mutant of RowsServed: the attempts before the served one are forgotten.
RowsServedAlone(run, u, id, answer, attempts) == <<{ServedEntry(run, u, id, answer)}>>
\* A call that a replay served is recorded alone.
RowsServed(run, u, id, answer, attempts) ==
    <<{ServedEntry(run, u, id, answer)}>>
        \o (IF answer.kind = "replayed" THEN <<>> ELSE DiscardedEntries(run, attempts))

-----------------------------------------------------------------------------
(* An answer to /decide or chat: served, or thrown away as empty. *)

Answers(c) ==
    /\ Callable(c) /\ ~Streamed(c)
    /\ Generates(c)
    /\ \E body \in Bodies, u \in Reports(Model(c), platform'[This(c)].usage) :
        calls' = [calls EXCEPT ![c] =
            IF EmptyAnswer(Answer(Provider[Model(c)], body)) THEN Attempted(c, "discarded", This(c), u)
            ELSE [Attempted(c, "served", This(c), u) EXCEPT
                    !.pc = "recording", !.status = "200",
                    !.rows = RowsServed(calls[c].request.run, u, This(c), platform'[This(c)],
                                        calls[c].attempts)]]
    /\ UNCHANGED <<ledger, degraded, blind, arrivals, faults>>

\* Every candidate failed.  The streamed door never answers 429.
Exhausted(c) ==
    /\ calls[c].pc = "trying" /\ calls[c].todo = <<>>
    /\ calls' = [calls EXCEPT ![c].pc = "recording",
                              ![c].rows = DiscardedEntries(calls[c].request.run, calls[c].attempts),
                              ![c].status = IF ~Streamed(c) /\ ThrottleRefusal(calls[c].attempts)
                                            THEN "429" ELSE "502"]
    /\ UNCHANGED <<ledger, platform, degraded, blind, arrivals, faults>>

-----------------------------------------------------------------------------
(* The streamed door: DecideStream. *)

\* The first chunk is handed to the client: from here on a failure is final.
\* A provider that cannot stream hands over its whole answer as that chunk,
\* whatever it holds.
StreamBegins(c) ==
    /\ Callable(c) /\ Streamed(c)
    /\ calls' = [calls EXCEPT ![c] =
                    Started(c, [calls[c] EXCEPT !.pc = "streaming", !.sent = Append(@, Model(c))])]
    /\ UNCHANGED <<ledger, platform, degraded, blind, arrivals, faults>>

\* A stream carries no request id and no replay: the row is usage and price.
StreamedRow(run, u, id) == Entry(run, id[2], u, CostUSD(id[2], u), NoId, NoId, FALSE, id)
StreamEnds(c) ==
    /\ calls[c].pc = "streaming"
    /\ Generates(c)
    /\ \E u \in Reports(Model(c), platform'[This(c)].usage) :
        calls' = [calls EXCEPT ![c] =
            [Attempted(c, "served", This(c), u) EXCEPT
                !.pc = "recording", !.status = "200",
                !.rows = <<{StreamedRow(calls[c].request.run, u, This(c))}>>]]
    /\ UNCHANGED <<ledger, degraded, blind, arrivals, faults>>

\* Mutant of AfterBreak: the next candidate is tried although chunks were sent.
AfterBreakFallsBack(call) == [call EXCEPT !.pc = "trying"]
\* A failure after the first chunk ends the call: no fallback, and no row.
AfterBreak(call) == [call EXCEPT !.pc = "recording", !.status = "broken", !.rows = <<>>]
StreamBreaks(c) ==
    /\ calls[c].pc = "streaming"
    /\ Generates(c)
    /\ calls' = [calls EXCEPT ![c] = AfterBreak(Attempted(c, "error", This(c), NoUsage))]
    /\ UNCHANGED <<ledger, degraded, blind, arrivals, faults>>

-----------------------------------------------------------------------------
(* Recording and answering. *)

\* One INSERT, or an attempt that owes no row is passed over.  A write that fails is
\* logged, and that is all.
RecordRow(c) ==
    /\ calls[c].pc = "recording" /\ calls[c].rows # <<>>
    /\ \/ /\ ledger' = ledger \cup Head(calls[c].rows)
          /\ calls' = [calls EXCEPT ![c].rows = Tail(@)]
          /\ UNCHANGED faults
       \/ /\ Head(calls[c].rows) # {} /\ faults < MaxFaults /\ faults' = faults + 1
          /\ calls' = [calls EXCEPT ![c].rows = Tail(@), ![c].lost = TRUE]
          /\ UNCHANGED ledger
    /\ UNCHANGED <<platform, degraded, blind, arrivals>>

Recording(c) == calls[c].pc = "recording" /\ calls[c].rows = <<>>
Respond(c) ==
    /\ Recording(c)
    /\ calls' = [calls EXCEPT ![c] = Answered(calls[c].status)]
    /\ UNCHANGED <<ledger, platform, degraded, blind, arrivals, faults>>

\* POST /quality-scores.
Report(m) ==
    /\ degraded' \in {degraded \cup {m}, degraded \ {m}}
    /\ UNCHANGED <<calls, ledger, platform, blind, arrivals, faults>>

-----------------------------------------------------------------------------
Step(c) ==
    \/ Skip(c) \/ Fails(c) \/ AnswerGetsLost(c) \/ Answers(c) \/ Exhausted(c)
    \/ StreamBegins(c) \/ StreamEnds(c) \/ StreamBreaks(c)
    \/ RecordRow(c) \/ Respond(c)
Next ==
    \/ \E c \in Calls : Step(c) \/ \E q \in Requests : ArriveDecide(c, q) \/ ArriveChat(c, q)
    \/ \E m \in Scored : Report(m)

Spec == Init /\ [][Next]_vars

-----------------------------------------------------------------------------
(* Properties. *)

Statuses == {"none", "200", "402", "403", "404", "429", "502", "broken"}

\* The type invariant.
TypeOK ==
    /\ \A c \in Calls :
        /\ calls[c].pc \in {"idle", "trying", "streaming", "recording"}
        /\ calls[c].status \in Statuses
    /\ \A e \in ledger : e.of \in DOMAIN platform
    /\ degraded \subseteq Scored
    /\ arrivals \in 0..MaxArrivals /\ faults \in 0..MaxFaults

\* The most one call can charge: every candidate of its pool, at its dearest.
DearestAnswer(m) == Max({0} \cup {OrZero(CostUSD(m, u)) : u \in Usages})
PoolOf(q) ==
    IF q.door = "decide" THEN q.pool
    ELSE LET resolved == ResolveProfile(q.profile)
         IN  IF resolved.error = "" THEN resolved.candidates ELSE {}
DearestOf(q) == MapThenSumSet(LAMBDA x : DearestAnswer(x.model), PoolOf(q))
DearestCall == Max({0} \cup {DearestOf(q) : q \in Requests})

\* The runs whose ceiling in dollars was read before each call, and that this gateway
\* charged: what was recorded before it started may be above any ceiling.
RunsNamed == {q.run : q \in Requests} \ {NoRun}
Charged(r) == \E e \in RowsOf(ledger, r) : e.of[1] # 0
Capped == {r \in RunsNamed \ blind : Ceiling["costUsd"] # Nil /\ Charged(r)}
Overshoot(r) == SpendForRun(ledger, r).cost - Ceiling["costUsd"]

\* overBudget compares with what is recorded, before the call: calls that are
\* admitted together overshoot together, and by no more than that.  A run is
\* over its ceiling by less than one dearest call per concurrent request.
OvershootIsBounded ==
    \A r \in Capped : Overshoot(r) < Cardinality(Calls) * DearestCall

\* The comment on overBudget (model_gateway_handlers.go:557): "the overshoot is
\* bounded by one call's cost, because the next one is refused".
OvershootIsOneCall == \A r \in Capped : Overshoot(r) < DearestCall

\* Every answer that came back to a call is in the ledger when the call is
\* answered, the ones it threw away included, unless a write failed, or the
\* answer reported no usage and was thrown away, or a replay served the call.
ServedByReplay(call) ==
    \E i \in DOMAIN call.attempts :
        call.attempts[i].kind = "served" /\ platform[call.attempts[i].of].kind = "replayed"
EveryAnswerIsRecorded ==
    \A c \in Calls : Recording(c) /\ ~calls[c].lost =>
        \A i \in DOMAIN calls[c].attempts :
            LET a == calls[c].attempts[i]
            IN  \/ a.kind = "served"
                \/ a.kind = "discarded" /\ a.usage # NoUsage /\ ~ServedByReplay(calls[c])
                => \E e \in ledger : e.of = a.of /\ e.run = calls[c].request.run

\* The rows that charge for one generation.
ChargedRows(id) == {e \in ledger : platform[e.of].of = id /\ Tokens(e) > 0}

\* The comment on recordCost (OBS-006, model_gateway_handlers.go:201): an
\* idempotent replay "consumed NOTHING new" and "recording them again inflates
\* the ledger".
ChargedOnce == \A id \in DOMAIN platform : Cardinality(ChargedRows(id)) <= 1

\* What reconciliation may find wrong with a ledger this gateway wrote: a
\* counter nobody reported, so a price nobody could compute, or a replay that
\* was thrown away, which the platform has no account of.
ReconcileFindsOnlyGaps ==
    Reconcile(ledger, platform) \subseteq {"tokens_unmeasured", "unpriced_here", "missing"}

\* The requests that carry restricted data, and the providers that may have it.
RestrictedCall(q) ==
    IF q.door = "decide" THEN q.restricted
    ELSE ResolveProfile(q.profile).error = "" /\ ResolveProfile(q.profile).restricted
RestrictedRequests == {q \in Requests : RestrictedCall(q)}
Declares(q, m) ==
    /\ q.door # "decide"
    /\ \E i \in DOMAIN Bundle : Bundle[i].profile = q.profile /\ Provider[m] \in Bundle[i].inNetwork
\* Restricted data reaches no provider that is not declared in-network, however
\* long the cascade gets.
RestrictedStaysInside ==
    \A c \in Calls : calls[c].pc # "idle" /\ calls[c].request \in RestrictedRequests =>
        \A i \in DOMAIN calls[c].attempts :
            LET a == calls[c].attempts[i]
            IN  a.kind # "skipped" => Declares(calls[c].request, a.model)

\* "Fallback stops once the first chunk is delivered": what a client reads is
\* one model's stream.
NeverSpliced == \A c \in Calls : Cardinality(Range(calls[c].sent)) <= 1

\* StreamStart (modelgateway/streaming.go:52): "the last StreamStart before that
\* write is the one the client sees".
HeaderIsCorrected ==
    \A c \in Calls : calls[c].sent # <<>> =>
        calls[c].singleChunk = ~Streams(Head(calls[c].sent))

\* throttleRefusal's comment (model_gateway_handlers.go:384): "EVERY candidate";
\* a call is sent back to wait only when each candidate asked for it.
ThrottledMeansAll ==
    \A c \in Calls : calls[c].pc = "recording" /\ calls[c].status = "429" =>
        \A i \in DOMAIN calls[c].attempts : calls[c].attempts[i].kind = "throttled"
=============================================================================
