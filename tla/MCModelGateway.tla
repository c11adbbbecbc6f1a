-------------------------- MODULE MCModelGateway --------------------------
(***************************************************************************)
(* A bundle with a keyed cloud model, a spare one, a self-hosted model     *)
(* that streams, and a model of a provider nobody registered.              *)
(***************************************************************************)
EXTENDS ModelGateway

CONSTANTS cloud, spare, local, stray, r1, k1

Doc(m, class, modality, priority, costModel, rate) ==
    [model |-> m, modality |-> modality, class |-> class, priority |-> priority,
     costModel |-> costModel, rateIn |-> rate, rateOut |-> rate]
Profile(name, candidates, inNetwork, localAllowed, sensitivity) ==
    [profile |-> name, candidates |-> candidates, inNetwork |-> inNetwork,
     localAllowed |-> localAllowed, sensitivity |-> sensitivity]

ProviderOf == [m \in {cloud, spare, local, stray} |->
                CASE m = cloud -> "prometheus_inference"
                  [] m = spare -> "gemini"
                  [] m = local -> "openai_compatible"
                  [] m = stray -> "openai"]

CloudDoc == Doc(cloud, "cloud", "text", 1, "token_based", 1)
SpareDoc == Doc(spare, "cloud", "text", 2, "compute_based", 0)
LocalDoc == Doc(local, "local", "text", 2, "compute_based", 0)

TheBundle ==
    << Profile("clouds", <<CloudDoc, SpareDoc>>, {}, {}, ""),
       Profile("mixed", <<CloudDoc, LocalDoc>>, {}, {"openai_compatible"}, ""),
       Profile("private", <<CloudDoc, LocalDoc>>, {"openai_compatible"}, {"openai_compatible"},
               "restricted"),
       Profile("undeclared", <<CloudDoc, LocalDoc>>, {}, {}, ""),
       Profile("vectors", <<Doc(cloud, "cloud", "embedding", 1, "", 0)>>, {}, {}, "") >>

\* /decide gives both of its candidates one priority.
StrayPool == {Candidate(CloudDoc, FALSE), [Candidate(CloudDoc, FALSE) EXCEPT !.model = stray]}

Asks(door, run, key, pool, profile, restricted) ==
    [door |-> door, run |-> run, key |-> key, pool |-> pool, profile |-> profile,
     restricted |-> restricted]
SomeRequests ==
    { Asks("decide", r1, NoKey, StrayPool, "", FALSE),
      Asks("decide", NoRun, NoKey, StrayPool, "", TRUE),
      Asks("chat", r1, k1, {}, "clouds", FALSE),
      Asks("stream", r1, k1, {}, "mixed", FALSE),
      Asks("chat", r1, k1, {}, "private", FALSE),
      Asks("chat", r1, k1, {}, "undeclared", FALSE),
      Asks("stream", r1, k1, {}, "missing", FALSE) }

OneUsage == {[prompt |-> 1, completion |-> 0]}
PastCalls == {[run |-> r1, model |-> cloud, usage |-> [prompt |-> 1, completion |-> 0]]}
SomeBodies ==
    {[text |-> TRUE, calls |-> FALSE, reasoning |-> FALSE, cut |-> FALSE],
     [text |-> FALSE, calls |-> FALSE, reasoning |-> TRUE, cut |-> FALSE],
     [text |-> FALSE, calls |-> FALSE, reasoning |-> FALSE, cut |-> TRUE]}
CostCeiling == [costUsd |-> 1, tokens |-> 9, modelCalls |-> -4]
RegisteredProviders == {"prometheus_inference", "gemini", "openai_compatible"}

ASSUME AccountsAdd == \A p, c \in 0..2 : UsageIsTheWhole([prompt |-> p, completion |-> c])
\* usage() of openai_compatible hands on cache_n, or prompt_n, alone.
ASSUME APartIsHandedOn == ~NeverAPart([prompt |-> 1, completion |-> 0])

Symmetry == Permutations(Calls)
=============================================================================
