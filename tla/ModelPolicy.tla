---------------------------- MODULE ModelPolicy ----------------------------
(***************************************************************************)
(* What decides, before any provider is called, which models a request may *)
(* be sent to and what they cost: the model policy bundle                  *)
(* (go/internal/modelgateway/bundle.go), the restricted pool and the       *)
(* verdict on an answer (gateway.go), the prices (go/internal/finops/      *)
(* finops.go), the cost of one answer and the meaning of a cascade of      *)
(* failures (go/internal/providers/throttled.go).  All of it is pure.      *)
(*                                                                         *)
(* A model stands for a pair of provider and model name.  Token counts and *)
(* prices are small numbers; Nil is the pointer that is nil, "not          *)
(* reported" or "not priced", which the code keeps apart from zero.        *)
(***************************************************************************)
EXTENDS Integers, Sequences, FiniteSets, FiniteSetsExt, SequencesExt

CONSTANTS
    Models,     \* provider/model pairs
    Provider,   \* [Models -> the name of the provider that serves it]
    Bundle      \* the ModelPolicyBundle: a sequence of profile documents

Nil == -1

OrZero(n) == IF n = Nil THEN 0 ELSE n

-----------------------------------------------------------------------------
(* Profiles. *)

\* The profile documents that bundle.go reads: the candidates in the order of
\* the file, the providers the profile declares in-network, and the local
\* inference exception ({} when none is declared).
ProfileCandidates ==
    [model : Models, modality : {"text", "vision", "embedding", "image", ""},
     class : {"local", "cloud", ""}, priority : Nat,
     costModel : {"token_based", "compute_based", ""}, rateIn : Nat, rateOut : Nat]
Profiles ==
    [profile : STRING, candidates : Seq(ProfileCandidates), inNetwork : SUBSET STRING,
     localAllowed : SUBSET {Provider[m] : m \in Models}, sensitivity : {"", "restricted"}]

ASSUME BundleAssumption == Bundle \in Seq(Profiles)

ChatServable == {"text", "vision"}

\* checkInferenceClass: undeclared is denied, and a local model is served only
\* by a provider the exception names.
InferenceClassAllowed(p, c) ==
    \/ c.class = "cloud"
    \/ c.class = "local" /\ Provider[c.model] \in p.localAllowed

Candidate(c, inNetwork) ==
    [model |-> c.model, priority |-> c.priority, inNetwork |-> inNetwork]

\* Resolution stops at the first profile of that name, and at its first
\* candidate that is denied.
Found(profile) == {i \in DOMAIN Bundle : Bundle[i].profile = profile}
ResolveProfile(profile) ==
    IF Found(profile) = {} THEN [error |-> "not_found"]
    ELSE LET p == Bundle[CHOOSE i \in Found(profile) : \A j \in Found(profile) : i <= j]
             denied(c) == ~InferenceClassAllowed(p, c) \/ c.modality \notin ChatServable
         IN  IF \E i \in DOMAIN p.candidates : denied(p.candidates[i])
             THEN [error |-> "policy_denied"]
             ELSE [error |-> "",
                   candidates |-> {Candidate(c, Provider[c.model] \in p.inNetwork) :
                                     c \in Range(p.candidates)},
                   restricted |-> p.sensitivity = "restricted"]

-----------------------------------------------------------------------------
(* The pool of a call, and the order in which it is tried. *)

\* Mutant of RestrictPool: with no candidate left, the whole pool is used.
RestrictPoolOpen(pool, restricted) ==
    LET inside == {c \in pool : c.inNetwork}
    IN  IF restricted /\ inside # {} THEN inside ELSE pool
\* {} is ErrNoRestrictedCandidate.
RestrictPool(pool, restricted) ==
    IF restricted THEN {c \in pool : c.inNetwork} ELSE pool

\* sort.Slice by priority is not stable: equals come in any order.
TryOrders(pool) ==
    {s \in SetToSeqs(pool) : \A i, j \in DOMAIN s : i < j => s[i].priority <= s[j].priority}

-----------------------------------------------------------------------------
(* Answers. *)

\* A cut answer ("length") is the caller's to judge, whatever it holds.
EmptyAnswer(a) == ~a.length /\ ~a.content /\ ~a.calls

-----------------------------------------------------------------------------
(* Prices. *)

\* PricingRates lists the candidates that declare a cost model, profile by profile:
\* the ones that the i-th profile has for a model.
PricingRates(i, m) ==
    {j \in DOMAIN Bundle[i].candidates :
        LET c == Bundle[i].candidates[j] IN c.model = m /\ c.costModel # ""}

\* NewPricingTable: the last rate listed for a model is the one that stays.
RatesOf(m) == {i \in DOMAIN Bundle : PricingRates(i, m) # {}}
PricingTable ==
    [m \in {x \in Models : RatesOf(x) # {}} |->
        LET last == Max(RatesOf(m)) IN Bundle[last].candidates[Max(PricingRates(last, m))]]
HasRate(m) == m \in DOMAIN PricingTable
Rate(m) == PricingTable[m]

\* Both counters reported and a token price: otherwise the cost is unknown.
CostUSD(m, usage) ==
    IF HasRate(m) /\ Rate(m).costModel = "token_based" /\ usage.prompt # Nil /\ usage.completion # Nil
    THEN usage.prompt * Rate(m).rateIn + usage.completion * Rate(m).rateOut
    ELSE Nil

-----------------------------------------------------------------------------
(* Failures. *)

\* SoonestRetry over the attempts that carry a cause, and throttleRefusal.
Causes(attempts) == SelectSeq(attempts, LAMBDA a : a.kind \in {"throttled", "error"})
ThrottleRefusal(attempts) ==
    /\ Causes(attempts) # <<>>
    /\ \A i \in DOMAIN Causes(attempts) : Causes(attempts)[i].kind = "throttled"
\* DiscardedAttempts: an answer that was produced, paid for and not used.
Discarded(a) == a.kind = "discarded"
=============================================================================
