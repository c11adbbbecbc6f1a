------------------------------ MODULE Adapters ------------------------------
(***************************************************************************)
(* The five adapters behind the Provider interface (go/internal/           *)
(* providers/...): what each makes of the body its provider answers with,  *)
(* and of a refusal.  All of it is pure.                                   *)
(*                                                                         *)
(* A body is what was said, text, tool calls or reasoning, whether the     *)
(* token limit cut it, and the accounting it carries: a set with the       *)
(* object's counters in it, or {} when the object is not there.            *)
(***************************************************************************)
EXTENDS ModelPolicy

CONSTANT Bodies   \* what a body may hold: [text, calls, reasoning, cut : BOOLEAN]

Providers == {"openai", "anthropic", "gemini", "prometheus_inference", "openai_compatible"}
ASSUME ProvidersAssumption == \A m \in Models : Provider[m] \in Providers

-----------------------------------------------------------------------------
(* What a provider may report of a generation that consumed u: each of the *)
(* counters or not.  The cached part of the prompt is inside the count     *)
(* except at Anthropic and in llama.cpp's timings.                         *)

Exclusive(u) ==
    UNION {[prompt : {u.prompt - cached, Nil}, cached : {cached, Nil}, completion : {u.completion, Nil}] :
              cached \in 0..u.prompt}
Counters(u) == [prompt : {u.prompt, Nil}, cached : {Nil}, completion : {u.completion, Nil}]

Accounts(provider, u) ==
    CASE provider = "anthropic" -> [usage : {{x} : x \in Exclusive(u)}, timings : {{}}]
      [] provider = "openai_compatible" ->
            [usage : {{}} \cup {{x} : x \in Counters(u)}, timings : {{}} \cup {{x} : x \in Exclusive(u)}]
      [] OTHER -> [usage : {{}} \cup {{x} : x \in Counters(u)}, timings : {{}}]

-----------------------------------------------------------------------------
(* What each adapter reads out of it. *)

NoUsage == [prompt |-> Nil, completion |-> Nil]
Pair(x) == [prompt |-> x.prompt, completion |-> x.completion]
Copied(usage) == IF usage = {} THEN NoUsage ELSE Pair(CHOOSE x \in usage : TRUE)

\* anthropicUsage: the inclusive total needs both of its parts.
AnthropicUsage(account) ==
    LET x == CHOOSE x \in account.usage : TRUE
    IN  IF x.prompt # Nil /\ x.cached # Nil
        THEN [prompt |-> x.prompt + x.cached, completion |-> x.completion]
        ELSE Pair(x)

\* usage(): a usage object wins, whatever it lacks; timings are added up.
OpenAICompatibleUsage(account) ==
    IF account.usage # {} \/ account.timings = {} THEN Copied(account.usage)
    ELSE LET x == CHOOSE x \in account.timings : TRUE
         IN  [prompt |-> IF x.prompt = Nil /\ x.cached = Nil THEN Nil
                         ELSE OrZero(x.prompt) + OrZero(x.cached),
              completion |-> x.completion]

UsageOf(provider, account) ==
    CASE provider = "anthropic" -> AnthropicUsage(account)
      [] provider = "openai_compatible" -> OpenAICompatibleUsage(account)
      [] OTHER -> Copied(account.usage)

\* NormalizedChatResponse: text and a finish reason, nothing else.
TextOnly(body, length) ==
    [content |-> body.text, calls |-> FALSE, reasoning |-> FALSE, length |-> length]
\* NormalizedChatResponseFrom: the tool calls and the reasoning as well.
Whole(body, length) ==
    [content |-> body.text, calls |-> body.calls, reasoning |-> body.reasoning, length |-> length]

\* Decide, adapter by adapter.  A cut answer is "length" on OpenAI's wire, and
\* "max_tokens" and "MAX_TOKENS" on the two that are passed on as they came.
OpenAIAnswer(body) == TextOnly(body, body.cut)
AnthropicAnswer(body) == TextOnly(body, FALSE)
GeminiAnswer(body) == TextOnly(body, FALSE)
PrometheusAnswer(body) == Whole(body, body.cut)
OpenAICompatibleAnswer(body) == Whole(body, body.cut)

Answer(provider, body) ==
    CASE provider = "openai" -> OpenAIAnswer(body)
      [] provider = "anthropic" -> AnthropicAnswer(body)
      [] provider = "gemini" -> GeminiAnswer(body)
      [] provider = "prometheus_inference" -> PrometheusAnswer(body)
      [] provider = "openai_compatible" -> OpenAICompatibleAnswer(body)

-----------------------------------------------------------------------------
(* Refusals, request ids and streams. *)

\* translateError: only this platform's request-rate limit is a throttle.
Failures(provider) ==
    IF provider = "prometheus_inference" THEN {"throttled", "error"} ELSE {"error"}

\* Only this adapter sends the idempotency key, and reads back request ids.
Keyed(m) == Provider[m] = "prometheus_inference"

\* Only this adapter implements StreamingProvider.
Streams(m) == Provider[m] = "openai_compatible"

-----------------------------------------------------------------------------
(* Properties. *)

\* An account of the exclusive kind that has one of the prompt's two parts and not the
\* other, where the adapter reads it.
MissesAPart(provider, account) ==
    LET read == IF provider = "anthropic" THEN account.usage
                ELSE IF account.usage = {} THEN account.timings ELSE {}
    IN  \E x \in read : (x.prompt = Nil) # (x.cached = Nil)

\* The counter an adapter hands on is never more than the prompt, and it is the whole of
\* it, cached part included, or nothing, unless the account misses one of the two parts
\* the total is added up from.
UsageIsTheWhole(u) ==
    \A p \in Providers : \A account \in Accounts(p, u) :
        LET r == UsageOf(p, account)
        IN  /\ r.completion \in {u.completion, Nil}
            /\ r.prompt \in (0..u.prompt) \cup {Nil}
            /\ r.prompt \in {u.prompt, Nil} \/ MissesAPart(p, account)

\* anthropicUsage's comment (anthropic.go:211): adding a part to nothing "would invent a
\* number smaller than the truth and hand it over as the whole figure".
NeverAPart(u) ==
    \A p \in Providers : \A account \in Accounts(p, u) : UsageOf(p, account).prompt \in {u.prompt, Nil}

\* emptyAnswer's comment (gateway.go:308): "a truncated response is informative,
\* so it must reach the caller", whichever provider cut it.
TruncatedReachesCaller ==
    \A p \in Providers : \A body \in Bodies : body.cut => ~EmptyAnswer(Answer(p, body))
=============================================================================
