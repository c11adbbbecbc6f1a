------------------------- MODULE ModelGatewayProofs -------------------------
(***************************************************************************)
(* Proofs about the Model Gateway (ModelGateway.tla): for any number of    *)
(* concurrent calls, any bundle, any prices and any pool, what a client    *)
(* reads is one model's stream, restricted data stays with the providers   *)
(* its profile declares in-network, every answer that was charged for is   *)
(* in the ledger unless a write failed, what the ledger says of it is what *)
(* the provider did, and calls that pass the ceiling together overshoot it *)
(* by less than one dearest call each.                                     *)
(*                                                                         *)
(* The invariant is a predicate of one call's record, of the requests at   *)
(* the providers and of the ledger, so that a call that does not move is   *)
(* settled once (CallTrueGrows): the requests and the ledger only grow,    *)
(* and no other call makes a request under its number.  The overshoot has  *)
(* an invariant of its own, CostInv, about sums of costs.                  *)
(***************************************************************************)
EXTENDS ModelGateway, FiniteSetTheorems, SequenceTheorems, WellFoundedInduction, TLAPS

-----------------------------------------------------------------------------
(* Profiles, pools and accounts. *)

\* A set of naturals has a smallest member: the first profile of a name exists.
LEMMA SmallestOf ==
  ASSUME NEW S \in SUBSET Nat, S # {}
  PROVE  \E x \in S : \A y \in S : x <= y
<1> DEFINE T == {1..i : i \in S}
<1>1. ASSUME NEW i \in Nat PROVE 1..i \in FiniteSubsetsOf(Nat)
  BY FS_Interval DEF FiniteSubsetsOf
<1>2. T \subseteq FiniteSubsetsOf(Nat) /\ T # {}
  BY <1>1
<1>3. PICK t \in T : \A u \in T : ~(<<u, t>> \in StrictSubsetOrdering(Nat))
  BY <1>2, FS_StrictSubsetOrderingWellFounded, WFMin
<1>4. PICK x \in S : t = 1..x
  OBVIOUS
<1>5. ASSUME NEW y \in S PROVE x <= y
  <2>1. x \in Nat /\ y \in Nat
    OBVIOUS
  <2>2. 1..y \in T /\ 1..y \in SUBSET Nat /\ 1..x \in SUBSET Nat
    OBVIOUS
  <2>3. ~(1..y \subseteq 1..x /\ 1..y # 1..x)
    BY <1>3, <1>4, <2>2 DEF StrictSubsetOrdering
  <2>4. SUFFICES ASSUME y < x PROVE FALSE
    BY <2>1
  <2>5. 1..y \subseteq 1..x /\ x \in 1..x /\ x \notin 1..y
    BY <2>1, <2>4
  <2> QED BY <2>3, <2>5
<1> QED BY <1>5

CandidateRec == [model : Models, priority : Nat, inNetwork : BOOLEAN]

\* What Candidate returns, the in-network mark taken as a value.
LEMMA CandidateIs ==
  ASSUME NEW c, NEW b \in BOOLEAN, c.model \in Models, c.priority \in Nat
  PROVE  /\ Candidate(c, b) \in CandidateRec
         /\ Candidate(c, b).model = c.model
         /\ Candidate(c, b).inNetwork = b
  BY DEF Candidate, CandidateRec

\* The fields of a resolved profile.
LEMMA ResolvedFields ==
  ASSUME NEW r, NEW e, NEW cs, NEW b, r = [error |-> e, candidates |-> cs, restricted |-> b]
  PROVE  r.candidates = cs /\ r.restricted = b
  OBVIOUS

Resolves(profile) == ResolveProfile(profile).error = ""

\* What a request resolves to, and the profile it came from.
LEMMA Resolved ==
  ASSUME NEW profile, Resolves(profile)
  PROVE  LET r == ResolveProfile(profile)
         IN  /\ r.candidates \subseteq CandidateRec
             /\ IsFiniteSet(r.candidates)
             /\ \E i \in DOMAIN Bundle : 
                  /\ Bundle[i].profile = profile 
                  /\ \A x \in r.candidates :
                        x.inNetwork <=> Provider[x.model] \in Bundle[i].inNetwork
<1> DEFINE first == CHOOSE i \in Found(profile) : \A j \in Found(profile) : i <= j
           p == Bundle[first]
           cands == p.candidates
           inside(c) == Provider[c.model] \in p.inNetwork
           cand(c) == Candidate(c, inside(c))
           r == ResolveProfile(profile)
<1>1. Found(profile) # {}
  <2>1. SUFFICES ASSUME Found(profile) = {} PROVE FALSE
    OBVIOUS
  <2>2. ResolveProfile(profile) = [error |-> "not_found"]
    BY <2>1 DEF ResolveProfile
  <2> QED BY <2>2 DEF Resolves
<1>2. first \in Found(profile)
  <2>1. Found(profile) \in SUBSET Nat
    <3>1. DOMAIN Bundle \subseteq Nat
      BY BundleAssumption
    <3> QED BY <3>1 DEF Found
  <2> QED BY <1>1, <2>1, SmallestOf
<1>3. first \in DOMAIN Bundle /\ p.profile = profile
  BY <1>2 DEF Found
<1>4. p \in Profiles
  BY <1>3, BundleAssumption
<1>5. cands \in Seq(ProfileCandidates)
  BY <1>4 DEF Profiles
<1> HIDE DEF first
<1>6. r.candidates = {cand(c) : c \in Range(cands)}
  <2>1. CASE \E i \in DOMAIN cands : 
                \/ ~InferenceClassAllowed(p, cands[i])
                \/ cands[i].modality \notin ChatServable
    <3>1. r = [error |-> "policy_denied"]
      BY <1>1, <2>1 DEF ResolveProfile, first
    <3>2. FALSE
      BY <3>1 DEF Resolves
    <3> QED BY <3>2
  <2>2. CASE ~\E i \in DOMAIN cands : 
                \/ ~InferenceClassAllowed(p, cands[i])
                \/ cands[i].modality \notin ChatServable
    <3>1. r = [error |-> "", candidates |-> {cand(c) : c \in Range(cands)},
               restricted |-> p.sensitivity = "restricted"]
      BY <1>1, <2>2 DEF ResolveProfile, first
    <3> DEFINE cs == {cand(c) : c \in Range(cands)}
               b == p.sensitivity = "restricted"
    <3>2. r = [error |-> "", candidates |-> cs, restricted |-> b]
      BY <3>1
    <3> HIDE DEF cs, b
    <3>3. r.candidates = cs
      BY <3>2, ResolvedFields
    <3> QED BY <3>3 DEF cs
  <2> QED BY <2>1, <2>2
<1>7. \A c \in Range(cands) : c.model \in Models /\ c.priority \in Nat
  <2>1. \A c \in ProfileCandidates : c.model \in Models /\ c.priority \in Nat
    BY DEF ProfileCandidates
  <2> HIDE DEF p
  <2>2. \A c \in Range(cands) : c \in ProfileCandidates
    BY <1>5 DEF Range
  <2> QED BY <2>1, <2>2
<1>8. r.candidates \subseteq CandidateRec
  <2>1. \A c \in Range(cands) : cand(c) \in CandidateRec
    <3>1. \A c \in Range(cands) : inside(c) \in BOOLEAN
      OBVIOUS
    <3> HIDE DEF inside
    <3> QED BY <1>7, <3>1, CandidateIs
  <2> HIDE DEF cand, cands, r
  <2> QED BY <1>6, <2>1
<1>9. IsFiniteSet(r.candidates)
  <2> DEFINE f == [i \in 1..Len(cands) |-> cand(cands[i])]
  <2>1. Len(cands) \in Nat /\ DOMAIN cands = 1..Len(cands)
    BY <1>5
  <2>2. f \in Surjection(1..Len(cands), r.candidates)
    BY <1>6, <2>1 DEF Surjection, Range
  <2> QED BY <2>1, <2>2, FS_Surjection, FS_Interval
<1>10. \A x \in r.candidates : x.inNetwork <=> Provider[x.model] \in p.inNetwork
  <2>1. \A c \in Range(cands) : cand(c).inNetwork = inside(c) /\ cand(c).model = c.model
    <3>1. \A c \in Range(cands) : inside(c) \in BOOLEAN
      OBVIOUS
    <3> HIDE DEF inside
    <3> QED BY <1>7, <3>1, CandidateIs
  <2>2. ASSUME NEW x \in r.candidates
        PROVE  x.inNetwork <=> Provider[x.model] \in p.inNetwork
    <3>1. PICK c \in Range(cands) : x = cand(c)
      BY <1>6
    <3>2. x.inNetwork = inside(c) /\ x.model = c.model
      BY <2>1, <3>1, Zenon
    <3> QED BY <3>2, Zenon
  <2> QED BY <2>2
<1> QED BY <1>3, <1>8, <1>9, <1>10

\* The order a pool is tried in is a sequence of its candidates.
LEMMA Orders ==
  ASSUME NEW pool \in SUBSET CandidateRec, IsFiniteSet(pool), NEW s \in TryOrders(pool)
  PROVE  s \in Seq(CandidateRec) /\ \A i \in DOMAIN s : s[i] \in pool
<1>1. Cardinality(pool) \in Nat
  BY FS_CardinalityType
<1>2. s \in [1..Cardinality(pool) -> pool]
  BY DEF TryOrders, SetToSeqs
<1> QED BY <1>1, <1>2, SeqDef

UsageRec == [prompt : Nat, completion : Nat]
\* What model m's adapter may hand on for a generation that consumed u.
Reported(m, r, u) ==
    /\ r \in [prompt : (0..u.prompt) \cup {Nil}, completion : {u.completion, Nil}]
    /\ Keyed(m) => r.prompt \in {u.prompt, Nil}

\* What an account may hold, and what a copied one reports.
LEMMA ExclusiveIs ==
  ASSUME NEW u \in UsageRec, NEW x \in Exclusive(u)
  PROVE  \E cached \in 0..u.prompt : /\ x.prompt \in {u.prompt - cached, Nil}
                                     /\ x.cached \in {cached, Nil}
                                     /\ x.completion \in {u.completion, Nil}
  BY DEF Exclusive

LEMMA CopiedIs ==
  ASSUME NEW u \in UsageRec, NEW usage, usage = {} \/ \E x \in Counters(u) : usage = {x}
  PROVE  Copied(usage) \in [prompt : {u.prompt, Nil}, completion : {u.completion, Nil}]
<1>1. NoUsage \in [prompt : {u.prompt, Nil}, completion : {u.completion, Nil}]
  BY DEF NoUsage
<1>2. ASSUME NEW x \in Counters(u)
      PROVE  Pair(x) \in [prompt : {u.prompt, Nil}, completion : {u.completion, Nil}]
  BY <1>2 DEF Counters, Pair
<1> QED BY <1>1, <1>2 DEF Copied

\* The two parts of an exclusive account add up to the prompt; one of them alone is a part of it.
LEMMA PartsAddUp ==
  ASSUME NEW u \in UsageRec, NEW x \in Exclusive(u)
  PROVE  /\ x.completion \in {u.completion, Nil}
         /\ x.prompt \in (0..u.prompt) \cup {Nil}
         /\ OrZero(x.prompt) + OrZero(x.cached) \in 0..u.prompt
         /\ x.prompt # Nil /\ x.cached # Nil =>
                x.prompt + x.cached = u.prompt /\ OrZero(x.prompt) + OrZero(x.cached) = u.prompt
<1>1. PICK cached \in 0..u.prompt : /\ x.prompt \in {u.prompt - cached, Nil}
                                    /\ x.cached \in {cached, Nil}
                                    /\ x.completion \in {u.completion, Nil}
  BY ExclusiveIs
<1>2. u.prompt \in Nat /\ cached \in Nat /\ cached <= u.prompt /\ u.prompt - cached \in 0..u.prompt
  BY DEF UsageRec
<1>3. OrZero(Nil) = 0 /\ \A n \in Nat : n # Nil /\ OrZero(n) = n
  BY DEF OrZero, Nil
<1> QED BY <1>1, <1>2, <1>3

\* What may be read out of a body that accounts for u: the whole prompt or nothing, or, where
\* the account misses one of the two parts, no more than the prompt.
ReadOf(p, account, r, u) ==
    /\ r \in [prompt : (0..u.prompt) \cup {Nil}, completion : {u.completion, Nil}]
    /\ r.prompt \in {u.prompt, Nil} \/ MissesAPart(p, account)
    /\ p \notin {"anthropic", "openai_compatible"} => r.prompt \in {u.prompt, Nil}

\* Adapter by adapter.
LEMMA UsageIsRead ==
  ASSUME NEW p, NEW u \in UsageRec, NEW account \in Accounts(p, u)
  PROVE  ReadOf(p, account, UsageOf(p, account), u)
<1> DEFINE r == UsageOf(p, account)
<1>0. u.prompt \in Nat /\ u.prompt \in 0..u.prompt
  BY DEF UsageRec
<1>1. CASE p = "anthropic"
  <2>1. PICK x \in Exclusive(u) : account.usage = {x}
    BY <1>1 DEF Accounts
  <2>2. (CHOOSE y \in account.usage : TRUE) = x
    BY <2>1
  <2>3. r = IF x.prompt # Nil /\ x.cached # Nil
            THEN [prompt |-> x.prompt + x.cached, completion |-> x.completion]
            ELSE [prompt |-> x.prompt, completion |-> x.completion]
    BY <1>1, <2>2 DEF UsageOf, AnthropicUsage, Pair
  <2>4. MissesAPart(p, account) <=> (x.prompt = Nil) # (x.cached = Nil)
    BY <1>1, <2>1 DEF MissesAPart
  <2> HIDE DEF r
  <2>5. CASE x.prompt # Nil /\ x.cached # Nil
    <3>1. r = [prompt |-> u.prompt, completion |-> x.completion]
      BY <2>3, <2>5, PartsAddUp
    <3> QED BY <1>0, <1>1, <3>1, PartsAddUp DEF ReadOf, r
  <2>6. CASE ~(x.prompt # Nil /\ x.cached # Nil)
    <3>1. r = [prompt |-> x.prompt, completion |-> x.completion]
      BY <2>3, <2>6
    <3>2. x.prompt = Nil \/ MissesAPart(p, account)
      BY <2>4, <2>6
    <3> QED BY <1>1, <3>1, <3>2, PartsAddUp DEF ReadOf, r
  <2> QED BY <2>5, <2>6
<1>2. CASE p = "openai_compatible"
  <2>1. account \in [usage : {{}} \cup {{x} : x \in Counters(u)},
                     timings : {{}} \cup {{x} : x \in Exclusive(u)}]
    BY <1>2 DEF Accounts
  <2>2. CASE account.usage # {} \/ account.timings = {}
    <3>1. r = Copied(account.usage)
      BY <1>2, <2>2 DEF UsageOf, OpenAICompatibleUsage
    <3>2. r \in [prompt : {u.prompt, Nil}, completion : {u.completion, Nil}]
      BY <2>1, <3>1, CopiedIs
    <3> HIDE DEF r
    <3> QED BY <1>0, <1>2, <3>2 DEF ReadOf, r
  <2>3. CASE account.usage = {} /\ account.timings # {}
    <3>1. PICK x \in Exclusive(u) : account.timings = {x}
      BY <2>1, <2>3
    <3>2. (CHOOSE y \in account.timings : TRUE) = x
      BY <3>1
    <3>3. r = [prompt |-> IF x.prompt = Nil /\ x.cached = Nil THEN Nil
                          ELSE OrZero(x.prompt) + OrZero(x.cached),
               completion |-> x.completion]
      BY <1>2, <2>3, <3>2 DEF UsageOf, OpenAICompatibleUsage
    <3>4. MissesAPart(p, account) <=> (x.prompt = Nil) # (x.cached = Nil)
      BY <1>2, <2>3, <3>1 DEF MissesAPart
    <3> HIDE DEF r
    <3>5. CASE x.prompt = Nil /\ x.cached = Nil
      BY <1>2, <3>3, <3>5, PartsAddUp DEF ReadOf, r
    <3>6. CASE x.prompt # Nil /\ x.cached # Nil
      <4>1. r = [prompt |-> u.prompt, completion |-> x.completion]
        BY <3>3, <3>6, PartsAddUp
      <4> QED BY <1>0, <1>2, <4>1, PartsAddUp DEF ReadOf, r
    <3>7. CASE (x.prompt = Nil) # (x.cached = Nil)
      <4>1. r = [prompt |-> OrZero(x.prompt) + OrZero(x.cached), completion |-> x.completion]
        BY <3>3, <3>7
      <4> QED BY <1>2, <3>4, <3>7, <4>1, PartsAddUp DEF ReadOf, r
    <3> QED BY <3>5, <3>6, <3>7
  <2> QED BY <2>2, <2>3
<1>3. CASE p \notin {"anthropic", "openai_compatible"}
  <2>1. account \in [usage : {{}} \cup {{x} : x \in Counters(u)}, timings : {{}}]
    BY <1>3 DEF Accounts
  <2>2. r = Copied(account.usage)
    BY <1>3 DEF UsageOf
  <2>3. r \in [prompt : {u.prompt, Nil}, completion : {u.completion, Nil}]
    BY <2>1, <2>2, CopiedIs
  <2> HIDE DEF r
  <2> QED BY <1>0, <2>3 DEF ReadOf, r
<1> QED BY <1>1, <1>2, <1>3

LEMMA UsageIsReported ==
  ASSUME NEW m, NEW u \in UsageRec, NEW r \in Reports(m, u)
  PROVE  Reported(m, r, u)
<1>1. PICK account \in Accounts(Provider[m], u) : r = UsageOf(Provider[m], account)
  BY DEF Reports
<1>2. ReadOf(Provider[m], account, r, u)
  BY <1>1, UsageIsRead
<1> QED BY <1>2 DEF ReadOf, Reported, Keyed

\* Whatever a generation consumed and whatever its body carries, each of the five adapters
\* hands on the whole prompt count, cached part included, or none, except where the account
\* has one of the two parts of the total and not the other (anthropicUsage, and usage() of
\* openai_compatible): then it hands on no more than the prompt.
THEOREM AdaptersReportTheWhole == \A u \in UsageRec : UsageIsTheWhole(u)
BY UsageIsRead DEF UsageIsTheWhole, ReadOf

-----------------------------------------------------------------------------
(* The invariant. *)

Ids == Nat \X Models \X Nat
Refs == Ids \cup {NoId}
Counter == Nat \cup {Nil}
ReportRec == [prompt : Counter, completion : Counter]
Kinds == {"skipped", "throttled", "error", "discarded", "served"}
AttemptRec == [model : Models, kind : Kinds, of : Refs, usage : ReportRec]
Runs == {q.run : q \in Requests} \cup {p.run : p \in Past}
Costs == {CostUSD(m, u) : m \in Models, u \in ReportRec} \cup {0}
RowRec == [run : Runs, model : Models, usage : ReportRec, cost : Costs, id : Refs,
           replayOf : Refs, discarded : BOOLEAN, of : Ids]
CallRec == [pc : {"idle", "trying", "streaming", "recording"}, status : Statuses,
            request : Requests \cup {NoId}, no : Nat, todo : Seq(CandidateRec),
            attempts : Seq(AttemptRec), rows : Seq(SUBSET RowRec), singleChunk : BOOLEAN,
            sent : Seq(Models), lost : BOOLEAN]

\* What a row says of the request it is about.
RowTrue(e, pf) ==
    /\ e.of \in DOMAIN pf
    /\ e.id \in {NoId, e.of}
    /\ e.id # NoId => Keyed(e.of[2])
    /\ e.replayOf # NoId => e.cost = 0
    /\ e.replayOf = NoId => /\ e.model = pf[e.of].model
                            /\ Reported(e.model, e.usage, pf[e.of].usage)
                            /\ e.cost = CostUSD(e.model, e.usage)

\* What is known of the requests at the providers, n calls having arrived.
PlatformTrue(pf, n) ==
    \A id \in DOMAIN pf : /\ id \in Ids /\ id[1] <= n
                          /\ pf[id].model = id[2] /\ pf[id].usage \in UsageRec
                          /\ pf[id].of \in Ids

\* Nothing is sent before a stream begins, and a stream is one model's.
Single(k) ==
    /\ k.pc \in {"idle", "trying"} => k.sent = <<>>
    /\ k.sent = <<>> \/ \E m \in Models : k.sent = <<m>>
    /\ k.pc = "streaming" => k.todo # <<>> /\ k.request.door = "stream"
    /\ k.pc # "idle" => k.request \in Requests
    /\ k.pc # "recording" => k.rows = <<>> /\ ~k.lost
    /\ k.pc = "idle" => k.attempts = <<>>

\* The candidates left are as much inside as the ones tried: a fallback adds none.
Inside(k) ==
    k.pc # "idle" /\ RestrictedCall(k.request) =>
        /\ \A i \in DOMAIN k.todo : Declares(k.request, k.todo[i].model)
        /\ \A i \in DOMAIN k.attempts : Declares(k.request, k.attempts[i].model)

\* An answer is one of a request at a provider, and reports that request's usage or less.
AttemptTrue(a, k, pf) ==
    /\ a.kind \in {"served", "discarded"} =>
            a.of \in DOMAIN pf /\ a.of[2] = a.model /\ Reported(a.model, a.usage, pf[a.of].usage)
    /\ a.kind = "served" => k.pc = "recording"
    /\ a.kind = "discarded" => k.request.door # "stream"
Accounted(k, pf) == \A i \in DOMAIN k.attempts : AttemptTrue(k.attempts[i], k, pf)

RowsTrue(k, pf) == \A i \in DOMAIN k.rows : \A e \in k.rows[i] : RowTrue(e, pf)

\* What is owed is in the ledger, or among the rows left to write.
Replayed(k, pf) ==
    \E i \in DOMAIN k.attempts : 
        k.attempts[i].kind = "served" /\ pf[k.attempts[i].of].kind = "replayed"
Due(a, k, pf) ==
    \/ a.kind = "served"
    \/ a.kind = "discarded" /\ a.usage # NoUsage /\ ~Replayed(k, pf)
Pays(e, a, k) == e.of = a.of /\ e.run = k.request.run
Owed(k, pf, ld) ==
    k.pc = "recording" /\ ~k.lost =>
        \A i \in DOMAIN k.attempts : Due(k.attempts[i], k, pf) =>
            \/ \E e \in ld : Pays(e, k.attempts[i], k)
            \/ \E j \in DOMAIN k.rows : \E e \in k.rows[j] : Pays(e, k.attempts[i], k)

\* The request a call makes next has an id nobody used.
Numbered(k, pf, n) ==
    k.pc # "idle" =>
        /\ k.no \in 1..n
        /\ \A id \in DOMAIN pf : id[1] = k.no => id[3] < Len(k.attempts)

CallTrue(k, pf, ld, n) ==
    /\ k \in CallRec
    /\ Single(k) /\ Inside(k)
    /\ Accounted(k, pf) /\ RowsTrue(k, pf) /\ Owed(k, pf, ld) /\ Numbered(k, pf, n)

LedgerTrue(ld, pf) == \A e \in ld : RowTrue(e, pf)

AllTrue(cs, pf, ld, n) == \A c \in Calls : CallTrue(cs[c], pf, ld, n)
Apart(cs) ==
    \A c, d \in Calls : c # d /\ cs[c].pc # "idle" /\ cs[d].pc # "idle" => cs[c].no # cs[d].no

Books == PlatformTrue(platform, arrivals) /\ LedgerTrue(ledger, platform)
Bounds == /\ arrivals \in 0..MaxArrivals /\ faults \in 0..MaxFaults
          /\ degraded \subseteq Scored
IInv ==
    /\ Bounds /\ Books
    /\ calls \in [Calls -> CallRec]
    /\ AllTrue(calls, platform, ledger, arrivals)
    /\ Apart(calls)

-----------------------------------------------------------------------------
(* What a call sees of the others. *)

Extends(pf, pf2) == DOMAIN pf \subseteq DOMAIN pf2 /\ \A id \in DOMAIN pf : pf2[id] = pf[id]

\* A row stays true when requests are added at the providers.
LEMMA RowTrueGrows ==
  ASSUME NEW e, NEW pf, NEW pf2, Extends(pf, pf2), RowTrue(e, pf)
  PROVE  RowTrue(e, pf2)
  BY DEF RowTrue, Extends

\* A call that does not move: it only sees other requests at the providers and more rows.
LEMMA CallTrueGrows ==
  ASSUME NEW k, NEW pf, NEW pf2, NEW ld, NEW ld2, NEW n \in Nat, NEW n2 \in Nat, n <= n2,
         Extends(pf, pf2), ld \subseteq ld2, CallTrue(k, pf, ld, n),
         k.pc # "idle" => \A id \in DOMAIN pf2 \ DOMAIN pf : id[1] # k.no
  PROVE  CallTrue(k, pf2, ld2, n2)
<1>1. k \in CallRec /\ Single(k) /\ Inside(k)
  BY DEF CallTrue
<1>2. Accounted(k, pf2)
  BY DEF CallTrue, Accounted, AttemptTrue, Extends
<1>3. RowsTrue(k, pf2)
  BY RowTrueGrows DEF CallTrue, RowsTrue
<1>4. Owed(k, pf2, ld2)
  <2>1. ASSUME NEW i \in DOMAIN k.attempts, k.attempts[i].kind = "served"
        PROVE  pf2[k.attempts[i].of] = pf[k.attempts[i].of]
    BY <2>1 DEF CallTrue, Accounted, AttemptTrue, Extends
  <2>2. Replayed(k, pf2) <=> Replayed(k, pf)
    BY <2>1 DEF Replayed
  <2>3. \A i \in DOMAIN k.attempts : Due(k.attempts[i], k, pf2) <=> Due(k.attempts[i], k, pf)
    BY <2>2 DEF Due
  <2> QED BY <2>3 DEF CallTrue, Owed
<1>5. Numbered(k, pf2, n2)
  <2>1. k.pc # "idle" => k.no \in 1..n2
    BY DEF CallTrue, Numbered
  <2> QED BY <2>1 DEF CallTrue, Numbered
<1> QED BY <1>1, <1>2, <1>3, <1>4, <1>5 DEF CallTrue

\* One call moves: what its new record and the books have to satisfy.
LEMMA OneCallMoves ==
  ASSUME IInv, NEW c \in Calls, NEW k, calls' = [calls EXCEPT ![c] = k],
         CallTrue(k, platform', ledger', arrivals'),
         Extends(platform, platform'), ledger \subseteq ledger',
         PlatformTrue(platform', arrivals'), LedgerTrue(ledger', platform'),
         Bounds', arrivals <= arrivals',
         \A id \in DOMAIN platform' \ DOMAIN platform : calls[c].pc # "idle" /\ id[1] = calls[c].no,
         k.pc # "idle" => \/ calls[c].pc # "idle" /\ k.no = calls[c].no
                         \/ k.no = arrivals + 1
  PROVE  IInv'
<1>0. arrivals \in Nat /\ arrivals' \in Nat
  BY BoundsAssumption DEF IInv, Bounds
<1>1. calls' \in [Calls -> CallRec]
  BY DEF IInv, CallTrue
<1>2. ASSUME NEW d \in Calls, d # c PROVE CallTrue(calls'[d], platform', ledger', arrivals')
  <2>1. calls'[d] = calls[d] /\ CallTrue(calls[d], platform, ledger, arrivals)
    BY <1>2 DEF IInv, AllTrue
  <2>2. calls[d].pc # "idle" => \A id \in DOMAIN platform' \ DOMAIN platform : id[1] # calls[d].no
    BY <1>2 DEF IInv, Apart
  <2> QED BY <1>0, <2>1, <2>2, CallTrueGrows
<1>3. calls'[c] = k
  BY DEF IInv
<1>4. AllTrue(calls', platform', ledger', arrivals')
  BY <1>2, <1>3 DEF AllTrue
<1>5. Apart(calls')
  <2>1. ASSUME NEW d \in Calls, d # c, calls[d].pc # "idle", k.pc # "idle"
        PROVE  k.no # calls[d].no
    <3>1. calls[d].no \in 1..arrivals
      BY <2>1 DEF IInv, AllTrue, CallTrue, Numbered
    <3> QED BY <1>0, <2>1, <3>1 DEF IInv, Apart
  <2> QED BY <1>3, <2>1 DEF IInv, Apart
<1> QED BY <1>1, <1>4, <1>5 DEF IInv, Books

-----------------------------------------------------------------------------
(* The records of a call. *)

Idles(k) == k = IdleCall \/ \E status \in Statuses : k = Answered(status)

\* A call that has not started, or was answered, keeps nothing.
LEMMA IdleIs ==
  ASSUME NEW k, Idles(k)
  PROVE  /\ k \in CallRec /\ k.pc = "idle" /\ k.sent = <<>> /\ k.rows = <<>> /\ ~k.lost
         /\ k.attempts = <<>>
<1>1. /\ <<>> \in Seq(CandidateRec) /\ <<>> \in Seq(AttemptRec) /\ <<>> \in Seq(SUBSET RowRec)
      /\ <<>> \in Seq(Models)
  OBVIOUS
<1>2. IdleCall \in CallRec
  BY <1>1 DEF IdleCall, CallRec, Statuses
<1>3. k \in CallRec
  BY <1>2 DEF Idles, Answered, CallRec
<1>4. k.pc = "idle" /\ k.sent = <<>> /\ k.rows = <<>> /\ k.attempts = <<>>
  BY DEF Idles, Answered, IdleCall
<1>5. ~k.lost
  BY DEF Idles, Answered, IdleCall
<1> QED BY <1>3, <1>4, <1>5

\* Such a call satisfies the invariant whatever the others did.
LEMMA IdleIsTrue ==
  ASSUME NEW k, Idles(k), NEW pf, NEW ld, NEW n
  PROVE  CallTrue(k, pf, ld, n) /\ k.pc = "idle"
<1>1. /\ k \in CallRec /\ k.pc = "idle" /\ k.sent = <<>> /\ k.rows = <<>> /\ ~k.lost
      /\ k.attempts = <<>>
  BY IdleIs
<1>2. Single(k) /\ Inside(k) /\ Owed(k, pf, ld) /\ Numbered(k, pf, n)
  BY <1>1 DEF Single, Inside, Owed, Numbered
<1>3. Accounted(k, pf) /\ RowsTrue(k, pf)
  BY <1>1 DEF Accounted, RowsTrue
<1> QED BY <1>1, <1>2, <1>3 DEF CallTrue

\* k2 is k after one more attempt.
AttemptOf(c, kind, of, usage) == [model |-> Model(c), kind |-> kind, of |-> of, usage |-> usage]
Tried(k, k2, a) ==
    /\ k2 \in CallRec /\ a \in AttemptRec /\ a.model = Head(k.todo).model
    /\ k2.todo = Tail(k.todo) /\ k2.attempts = Append(k.attempts, a)
    /\ k2.request = k.request /\ k2.no = k.no
Kept(k, k2) == k2.pc = k.pc /\ k2.rows = k.rows /\ k2.sent = k.sent /\ k2.lost = k.lost

\* Attempted moves the first candidate from todo to attempts, and nothing else.
LEMMA AttemptedIs ==
  ASSUME NEW c \in Calls, calls[c] \in CallRec, calls[c].todo # <<>>,
         NEW kind \in Kinds, NEW of \in Refs, NEW usage \in ReportRec
  PROVE  /\ Tried(calls[c], Attempted(c, kind, of, usage), AttemptOf(c, kind, of, usage))
         /\ Kept(calls[c], Attempted(c, kind, of, usage))
<1> DEFINE a == AttemptOf(c, kind, of, usage)
<1>1. Model(c) \in Models
  <2>1. calls[c].todo \in Seq(CandidateRec)
    BY DEF CallRec
  <2>2. Head(calls[c].todo) \in CandidateRec
    BY <2>1
  <2> QED BY <2>2 DEF Model, CandidateRec
<1>2. a \in AttemptRec /\ a.model = Head(calls[c].todo).model
  BY <1>1 DEF AttemptRec, AttemptOf, Model
<1>3. Tail(calls[c].todo) \in Seq(CandidateRec)
  BY DEF CallRec
<1>5. Attempted(c, kind, of, usage) =
        [calls[c] EXCEPT !.todo = Tail(calls[c].todo), !.attempts = Append(calls[c].attempts, a)]
  BY DEF Attempted, AttemptOf
<1> HIDE DEF a
<1>4. Append(calls[c].attempts, a) \in Seq(AttemptRec)
  BY <1>2 DEF CallRec
<1>6. Attempted(c, kind, of, usage) \in CallRec
  BY <1>3, <1>4, <1>5 DEF CallRec
<1> QED BY <1>2, <1>5, <1>6 DEF Tried, Kept, CallRec, a

\* One more attempt keeps the call inside its network, its answers accounted for and its next
\* request's id unused.
LEMMA MovesOn ==
  ASSUME NEW k \in CallRec, k.todo # <<>>, NEW k2, NEW a, Tried(k, k2, a),
         NEW pf, NEW pf2, NEW ld, NEW n \in Nat, k.pc \in {"trying", "streaming"},
         CallTrue(k, pf, ld, n), Extends(pf, pf2), PlatformTrue(pf2, n),
         \A id \in DOMAIN pf2 \ DOMAIN pf : id[3] = Len(k.attempts),
         AttemptTrue(a, k2, pf2)
  PROVE  /\ Inside(k2) /\ Accounted(k2, pf2) /\ Numbered(k2, pf2, n)
         /\ DOMAIN k2.attempts = 1..(Len(k.attempts) + 1)
         /\ k2.attempts[Len(k.attempts) + 1] = a
         /\ \A i \in 1..Len(k.attempts) : k2.attempts[i] = k.attempts[i]
         /\ DOMAIN k.attempts = 1..Len(k.attempts) /\ Len(k.attempts) \in Nat
         /\ \A i \in DOMAIN k.attempts : k.attempts[i].kind # "served"
<1>0. /\ k2 \in CallRec /\ a \in AttemptRec /\ a.model = Head(k.todo).model
      /\ k2.todo = Tail(k.todo) /\ k2.attempts = Append(k.attempts, a)
      /\ k2.request = k.request /\ k2.no = k.no
  BY DEF Tried
<1>1. k.todo \in Seq(CandidateRec) /\ k.attempts \in Seq(AttemptRec)
  BY DEF CallRec
<1>2. /\ Len(k2.attempts) = Len(k.attempts) + 1
      /\ DOMAIN k2.attempts = 1..(Len(k.attempts) + 1)
      /\ k2.attempts[Len(k.attempts) + 1] = a
      /\ \A i \in 1..Len(k.attempts) : k2.attempts[i] = k.attempts[i]
      /\ DOMAIN k.attempts = 1..Len(k.attempts) /\ Len(k.attempts) \in Nat
  BY <1>0, <1>1
<1>3. \A i \in DOMAIN k2.todo : i + 1 \in DOMAIN k.todo /\ k2.todo[i] = k.todo[i + 1]
  BY <1>0, <1>1
<1>4. 1 \in DOMAIN k.todo /\ a.model = k.todo[1].model
  BY <1>0, <1>1
<1>5. Inside(k2)
  BY <1>0, <1>2, <1>3, <1>4 DEF Inside, CallTrue
<1>6. \A i \in DOMAIN k.attempts : k.attempts[i].kind # "served"
  BY DEF CallTrue, Accounted, AttemptTrue
<1>7. Accounted(k2, pf2)
  <2>1. ASSUME NEW i \in DOMAIN k.attempts PROVE AttemptTrue(k.attempts[i], k2, pf2)
    BY <1>0, <1>6, <2>1 DEF CallTrue, Accounted, AttemptTrue, Extends
  <2>2. \A i \in DOMAIN k2.attempts : i \in DOMAIN k.attempts \/ i = Len(k.attempts) + 1
    BY <1>2
  <2>3. ASSUME NEW i \in DOMAIN k2.attempts PROVE AttemptTrue(k2.attempts[i], k2, pf2)
    <3>1. CASE i \in DOMAIN k.attempts
      BY <1>2, <2>1, <3>1
    <3>2. CASE i = Len(k.attempts) + 1
      BY <1>2, <3>2
    <3> QED BY <2>2, <3>1, <3>2
  <2> QED BY <2>3 DEF Accounted
<1>8. Numbered(k2, pf2, n)
  <2>1. k.no \in 1..n /\ \A id \in DOMAIN pf : id[1] = k.no => id[3] < Len(k.attempts)
    BY DEF CallTrue, Numbered
  <2>2. ASSUME NEW id \in DOMAIN pf2, id[1] = k2.no PROVE id[3] < Len(k2.attempts)
    <3>1. CASE id \in DOMAIN pf
      <4>1. id[3] < Len(k.attempts)
        BY <1>0, <2>1, <2>2, <3>1
      <4>2. id[3] \in Nat
        BY DEF PlatformTrue, Ids
      <4> QED BY <1>2, <4>1, <4>2
    <3>2. CASE id \notin DOMAIN pf
      <4>1. id[3] = Len(k.attempts)
        BY <3>2
      <4> QED BY <1>2, <4>1
    <3> QED BY <3>1, <3>2
  <2> QED BY <1>0, <2>1, <2>2 DEF Numbered
<1> QED BY <1>2, <1>5, <1>6, <1>7, <1>8

-----------------------------------------------------------------------------
(* What a provider does. *)

\* The id of the request a call is about to make is nobody's.
LEMMA ThisIsNew ==
  ASSUME IInv, NEW c \in Calls, calls[c].pc \in {"trying", "streaming"}, calls[c].todo # <<>>
  PROVE  /\ This(c) \in Ids /\ This(c) \notin DOMAIN platform
         /\ This(c)[1] = calls[c].no /\ This(c)[2] = Model(c) /\ This(c)[3] = Len(calls[c].attempts)
         /\ calls[c].no \in 1..arrivals /\ arrivals \in Nat /\ Model(c) \in Models
<1>1. CallTrue(calls[c], platform, ledger, arrivals) /\ calls[c] \in CallRec
  BY DEF IInv, AllTrue, CallTrue
<1>2. arrivals \in Nat
  BY BoundsAssumption DEF IInv, Bounds
<1>3. /\ calls[c].no \in 1..arrivals
      /\ \A id \in DOMAIN platform : id[1] = calls[c].no => id[3] < Len(calls[c].attempts)
  BY <1>1 DEF CallTrue, Numbered
<1>4. Model(c) \in Models
  <2>1. calls[c].todo \in Seq(CandidateRec)
    BY <1>1 DEF CallRec
  <2>2. Head(calls[c].todo) \in CandidateRec
    BY <2>1
  <2> QED BY <2>2 DEF Model, CandidateRec
<1>5. Len(calls[c].attempts) \in Nat
  <2>1. calls[c].attempts \in Seq(AttemptRec)
    BY <1>1 DEF CallRec
  <2> QED BY <2>1
<1>6. /\ This(c) \in Ids
      /\ This(c)[1] = calls[c].no /\ This(c)[2] = Model(c) /\ This(c)[3] = Len(calls[c].attempts)
  BY <1>2, <1>3, <1>4, <1>5 DEF This, Ids
<1>7. This(c) \notin DOMAIN platform
  BY <1>3, <1>5, <1>6
<1> QED BY <1>2, <1>3, <1>4, <1>6, <1>7

\* What a provider adds to its records.
New(c) ==
    /\ DOMAIN platform' = DOMAIN platform \cup {This(c)}
    /\ Extends(platform, platform')
    /\ PlatformTrue(platform', arrivals)
    /\ LedgerTrue(ledger, platform')
    /\ platform'[This(c)].usage \in UsageRec
    /\ platform'[This(c)].model = Model(c)
    /\ platform'[This(c)].of \in Ids

\* A provider that does something adds one request and leaves the others as they were.
LEMMA DoesIs ==
  ASSUME IInv, NEW c \in Calls, calls[c].pc \in {"trying", "streaming"}, calls[c].todo # <<>>,
         NEW kind, NEW usage \in UsageRec, NEW of \in Ids, Does(c, kind, usage, of)
  PROVE  New(c)
<1>1. /\ This(c) \in Ids /\ This(c) \notin DOMAIN platform
      /\ This(c)[1] = calls[c].no /\ This(c)[2] = Model(c)
      /\ calls[c].no \in 1..arrivals /\ arrivals \in Nat
  BY ThisIsNew
<1>2. /\ DOMAIN platform' = DOMAIN platform \cup {This(c)}
      /\ Extends(platform, platform')
      /\ platform'[This(c)] = [kind |-> kind, model |-> Model(c), usage |-> usage, of |-> of,
                               key |-> calls[c].request.key]
  BY <1>1 DEF Does, Extends
<1>3. PlatformTrue(platform', arrivals)
  <2>1. ASSUME NEW id \in DOMAIN platform, NEW pf, pf[id] = platform[id]
        PROVE /\ id \in Ids /\ id[1] <= arrivals
              /\ pf[id].model = id[2] /\ pf[id].usage \in UsageRec /\ pf[id].of \in Ids
    BY <2>1 DEF IInv, Books, PlatformTrue
  <2>2. /\ This(c)[1] <= arrivals
        /\ platform'[This(c)].model = This(c)[2] /\ platform'[This(c)].usage \in UsageRec
        /\ platform'[This(c)].of \in Ids
    BY <1>1, <1>2
  <2> QED BY <1>1, <1>2, <2>1, <2>2 DEF PlatformTrue, Extends
<1>4. LedgerTrue(ledger, platform')
  BY <1>2, RowTrueGrows DEF LedgerTrue, IInv, Books
<1> QED BY <1>2, <1>3, <1>4 DEF New

\* So does one that generates, or replays what it stored.
LEMMA GeneratesIs ==
  ASSUME IInv, NEW c \in Calls, calls[c].pc \in {"trying", "streaming"}, calls[c].todo # <<>>,
         Generates(c)
  PROVE  New(c)
<1>1. This(c) \in Ids
  BY ThisIsNew
<1>2. CASE Stored(c) = {}
  <2>1. PICK u \in Usages : Does(c, "generated", u, This(c))
    BY <1>2 DEF Generates
  <2>2. u \in UsageRec
    BY UsagesAssumption DEF UsageRec
  <2> QED BY <1>1, <2>1, <2>2, DoesIs
<1>3. CASE Stored(c) # {}
  <2>1. PICK id \in Stored(c) : Does(c, "replayed", platform[id].usage, id)
    BY <1>3 DEF Generates
  <2>2. id \in Ids /\ platform[id].usage \in UsageRec
    BY DEF Stored, IInv, Books, PlatformTrue
  <2> QED BY <2>1, <2>2, DoesIs
<1> QED BY <1>2, <1>3

-----------------------------------------------------------------------------
(* The steps of a call. *)

\* onStart touches the header and nothing else.
LEMMA StartedKeeps ==
  ASSUME NEW c, NEW call \in CallRec, NEW k2, k2 = Started(c, call)
  PROVE  /\ k2 \in CallRec /\ Kept(call, k2) /\ k2.todo = call.todo /\ k2.attempts = call.attempts
         /\ k2.request = call.request /\ k2.no = call.no
<1> DEFINE b == call.singleChunk \/ (Streamed(c) /\ ~Streams(Model(c)))
<1>1. b \in BOOLEAN
  OBVIOUS
<1>2. k2 = [call EXCEPT !.singleChunk = b]
  BY DEF Started
<1> HIDE DEF b
<1>3. k2 \in CallRec
  BY <1>1, <1>2 DEF CallRec
<1> QED BY <1>2, <1>3 DEF CallRec, Kept

\* An attempt that onStart announced is that attempt.
LEMMA StartedIs ==
  ASSUME NEW c, NEW k, NEW call, NEW a, Tried(k, call, a), Kept(k, call)
  PROVE  Tried(k, Started(c, call), a) /\ Kept(k, Started(c, call))
<1>1. call \in CallRec
  BY DEF Tried
<1> QED BY <1>1, StartedKeeps DEF Tried, Kept

\* Where nothing is done at a provider and nothing written, the books stay true.
LEMMA Quiet == ASSUME IInv, UNCHANGED <<platform, ledger>>
               PROVE  /\ Extends(platform, platform')
                      /\ PlatformTrue(platform', arrivals) /\ LedgerTrue(ledger', platform')
  BY DEF Extends, IInv, Books

\* The call goes on after an attempt that ends nothing.
LEMMA TriesOn ==
  ASSUME IInv, NEW c \in Calls, Trying(c), NEW k2, NEW a,
         Tried(calls[c], k2, a), Kept(calls[c], k2), a.kind # "served",
         calls' = [calls EXCEPT ![c] = k2], UNCHANGED <<ledger, arrivals>>, Bounds',
         UNCHANGED platform \/ New(c),
         a.kind = "discarded" => /\ New(c) /\ a.of = This(c) /\ ~Streamed(c)
                                 /\ Reported(a.model, a.usage, platform'[This(c)].usage)
  PROVE  IInv'
<1> DEFINE k == calls[c]
<1>1. /\ k \in CallRec /\ CallTrue(k, platform, ledger, arrivals)
      /\ k.pc = "trying" /\ k.todo # <<>> /\ Single(k)
  BY DEF IInv, AllTrue, CallTrue, Trying
<1>2. /\ k2 \in CallRec /\ a.model = Model(c) /\ k2.pc = "trying" /\ k2.request = k.request
      /\ k2.no = k.no /\ k2.sent = k.sent /\ k2.rows = k.rows /\ k2.lost = k.lost
  BY <1>1 DEF Tried, Kept, Model
<1>3. /\ This(c) \in Ids /\ This(c) \notin DOMAIN platform /\ arrivals \in Nat
      /\ This(c)[1] = k.no /\ This(c)[2] = Model(c) /\ This(c)[3] = Len(k.attempts)
  BY <1>1, ThisIsNew
<1>4. /\ Extends(platform, platform')
      /\ PlatformTrue(platform', arrivals) /\ LedgerTrue(ledger', platform')
      /\ \A id \in DOMAIN platform' \ DOMAIN platform : id = This(c)
  <2>1. CASE UNCHANGED platform
    BY <2>1, Quiet
  <2>2. CASE New(c)
    BY <2>2 DEF New
  <2> QED BY <2>1, <2>2
<1>5. AttemptTrue(a, k2, platform')
  <2>1. CASE a.kind = "discarded"
    <3>1. This(c) \in DOMAIN platform' /\ k2.request.door # "stream"
      BY <1>2, <2>1 DEF New, Streamed
    <3> QED BY <1>2, <1>3, <2>1, <3>1 DEF AttemptTrue
  <2>2. CASE a.kind # "discarded"
    BY <2>2 DEF AttemptTrue
  <2> QED BY <2>1, <2>2
<1>6. Inside(k2) /\ Accounted(k2, platform') /\ Numbered(k2, platform', arrivals)
  <2>1. \A id \in DOMAIN platform' \ DOMAIN platform : id[3] = Len(k.attempts)
    BY <1>3, <1>4
  <2> QED BY <1>1, <1>3, <1>4, <1>5, <2>1, MovesOn
<1>7. Single(k2) /\ RowsTrue(k2, platform') /\ Owed(k2, platform', ledger')
  <2>1. Single(k2) /\ k2.rows = <<>>
    BY <1>1, <1>2 DEF Single
  <2>2. RowsTrue(k2, platform')
    BY <2>1 DEF RowsTrue
  <2>3. Owed(k2, platform', ledger')
    BY <1>2 DEF Owed
  <2> QED BY <2>1, <2>2, <2>3
<1>8. CallTrue(k2, platform', ledger', arrivals')
  BY <1>2, <1>6, <1>7 DEF CallTrue
<1>9. \A id \in DOMAIN platform' \ DOMAIN platform : k.pc # "idle" /\ id[1] = k.no
  BY <1>1, <1>3, <1>4
<1>10. ledger \subseteq ledger' /\ arrivals <= arrivals' /\ PlatformTrue(platform', arrivals')
  BY <1>3, <1>4
<1> QED BY <1>1, <1>2, <1>4, <1>8, <1>9, <1>10, OneCallMoves

-----------------------------------------------------------------------------
(* The rows of a call. *)

\* A request's id is not the empty one.
LEMMA IdIsNoNoId == \A id \in Ids : id # NoId
  BY DEF Ids, NoId

\* What was reported of a usage is a usage report.
LEMMA ReportedIsReport ==
  ASSUME NEW m, NEW u \in UsageRec, NEW r, Reported(m, r, u)
  PROVE  r \in ReportRec
  BY DEF UsageRec, Reported, ReportRec, Counter

\* The fields of a row.
LEMMA EntryIs ==
  ASSUME NEW run \in Runs, NEW m \in Models, NEW u \in ReportRec, NEW cost \in Costs,
         NEW id \in Refs, NEW re \in Refs, NEW d \in BOOLEAN, NEW of \in Ids,
         NEW e, e = Entry(run, m, u, cost, id, re, d, of)
  PROVE  /\ e \in RowRec /\ e.run = run /\ e.model = m /\ e.usage = u /\ e.cost = cost
         /\ e.id = id /\ e.replayOf = re /\ e.of = of
  BY DEF Entry, RowRec

\* A row for a request that the provider answered, priced as usage says.
LEMMA PricedRow ==
  ASSUME NEW run \in Runs, NEW pf, NEW n, PlatformTrue(pf, n), NEW of \in DOMAIN pf,
         NEW u, Reported(of[2], u, pf[of].usage), NEW d \in BOOLEAN,
         NEW id \in {RequestId(of), NoId}, NEW m, m = of[2],
         NEW e, e = Entry(run, m, u, CostUSD(m, u), id, NoId, d, of)
  PROVE  e \in RowRec /\ e.run = run /\ e.of = of /\ RowTrue(e, pf)
<1>1. /\ of \in Ids /\ m \in Models /\ pf[of].model = m /\ pf[of].usage \in UsageRec
      /\ of \in Refs /\ NoId \in Refs
  BY DEF PlatformTrue, Ids, Refs
<1>2. u \in ReportRec
  BY <1>1, ReportedIsReport
<1>3. CostUSD(m, u) \in Costs
  BY <1>1, <1>2 DEF Costs
<1>4. id \in {of, NoId} /\ id \in Refs /\ (id # NoId => Keyed(of[2]))
  BY <1>1 DEF RequestId
<1>5. /\ e \in RowRec /\ e.run = run /\ e.model = m /\ e.usage = u /\ e.cost = CostUSD(m, u)
      /\ e.id = id /\ e.replayOf = NoId /\ e.of = of
  BY <1>1, <1>2, <1>3, <1>4, EntryIs
<1>6. RowTrue(e, pf)
  BY <1>1, <1>4, <1>5 DEF RowTrue
<1> QED BY <1>5, <1>6

\* recordCost writes a true row: what was reported, or, for a replay, nothing charged.
LEMMA ServedRow ==
  ASSUME NEW run \in Runs, NEW pf, NEW n, PlatformTrue(pf, n), NEW id \in DOMAIN pf,
         NEW u, Reported(id[2], u, pf[id].usage)
  PROVE  LET e == ServedEntry(run, u, id, pf[id])
         IN  e \in RowRec /\ e.run = run /\ e.of = id /\ RowTrue(e, pf)
<1> DEFINE e == ServedEntry(run, u, id, pf[id])
<1>1. CASE pf[id].kind = "replayed"
  <2>1. /\ id \in Ids /\ id \in Refs /\ NoId \in Refs /\ id[2] \in Models
        /\ pf[id].of \in Refs /\ pf[id].of # NoId
    BY IdIsNoNoId DEF PlatformTrue, Ids, Refs
  <2>2. ZeroUsage \in ReportRec /\ 0 \in Costs
    BY DEF ZeroUsage, ReportRec, Counter, Costs
  <2>3. /\ RequestId(id) \in {id, NoId} /\ RequestId(id) \in Refs
        /\ RequestId(id) # NoId => Keyed(id[2])
    BY <2>1 DEF RequestId
  <2> DEFINE no == FALSE
  <2>4. e = Entry(run, id[2], ZeroUsage, 0, RequestId(id), pf[id].of, no, id)
    BY <1>1 DEF ServedEntry
  <2>0. no \in BOOLEAN
    OBVIOUS
  <2> HIDE DEF e, no
  <2>5. /\ e \in RowRec /\ e.run = run /\ e.cost = 0
        /\ e.id = RequestId(id) /\ e.replayOf = pf[id].of /\ e.of = id
    BY <2>0, <2>1, <2>2, <2>3, <2>4, EntryIs
  <2>6. RowTrue(e, pf)
    BY <2>1, <2>3, <2>5 DEF RowTrue
  <2> QED BY <2>5, <2>6 DEF e
<1>2. CASE pf[id].kind # "replayed"
  <2> DEFINE no == FALSE
  <2>1. e = Entry(run, id[2], u, CostUSD(id[2], u), RequestId(id), NoId, no, id)
    BY <1>2 DEF ServedEntry
  <2>3. no \in BOOLEAN
    OBVIOUS
  <2> HIDE DEF e, no
  <2>2. e \in RowRec /\ e.run = run /\ e.of = id /\ RowTrue(e, pf)
    <3>1. RequestId(id) \in {RequestId(id), NoId}
      OBVIOUS
    <3> QED BY <2>1, <2>3, <3>1, PricedRow
  <2> QED BY <2>2 DEF e
<1> QED BY <1>1, <1>2

\* D[i] is what the i-th attempt of k owes: a row, and a true one, when it was a discarded
\* answer that reported something.
RowsFor(D, run, k, pf) ==
    /\ D \in Seq(SUBSET RowRec) /\ DOMAIN D = DOMAIN k.attempts
    /\ \A i \in DOMAIN D : \A e \in D[i] : RowTrue(e, pf)
    /\ \A i \in DOMAIN D : k.attempts[i].kind = "discarded" /\ k.attempts[i].usage # NoUsage =>
            \E e \in D[i] : e.of = k.attempts[i].of /\ e.run = run

\* recordDiscardedAttempts writes a true row for each discarded answer that reported anything.
LEMMA DiscardedRows ==
  ASSUME NEW run \in Runs, NEW k \in CallRec, NEW pf, NEW n, PlatformTrue(pf, n), Accounted(k, pf),
         NEW D, D = DiscardedEntries(run, k.attempts)
  PROVE  RowsFor(D, run, k, pf)
<1> DEFINE row(a) == Entry(run, a.model, a.usage, CostUSD(a.model, a.usage), RequestId(a.of),
                           NoId, TRUE, a.of)
<1>1. /\ k.attempts \in Seq(AttemptRec)
      /\ DOMAIN k.attempts = 1..Len(k.attempts) /\ Len(k.attempts) \in Nat
  <2>1. k.attempts \in Seq(AttemptRec)
    BY DEF CallRec
  <2> QED BY <2>1
<1>2. D = [i \in DOMAIN k.attempts |->
            IF k.attempts[i].kind = "discarded" /\ k.attempts[i].usage # NoUsage
            THEN {row(k.attempts[i])} ELSE {}]
  BY DEF DiscardedEntries, Discarded
<1>3. ASSUME NEW i \in DOMAIN k.attempts, k.attempts[i].kind = "discarded"
      PROVE  LET e == row(k.attempts[i])
             IN  e \in RowRec /\ e.run = run /\ e.of = k.attempts[i].of /\ RowTrue(e, pf)
  <2> DEFINE a == k.attempts[i]
  <2>1. a.of \in DOMAIN pf /\ a.model = a.of[2] /\ Reported(a.model, a.usage, pf[a.of].usage)
    BY <1>3 DEF Accounted, AttemptTrue
  <2> DEFINE yes == TRUE
  <2>2. row(a) = Entry(run, a.model, a.usage, CostUSD(a.model, a.usage), RequestId(a.of),
                       NoId, yes, a.of)
    OBVIOUS
  <2>3. yes \in BOOLEAN /\ RequestId(a.of) \in {RequestId(a.of), NoId}
    OBVIOUS
  <2> HIDE DEF a, row, yes
  <2> QED BY <2>1, <2>2, <2>3, PricedRow DEF a
<1> HIDE DEF row
<1>4. D \in [1..Len(k.attempts) -> SUBSET RowRec]
  BY <1>1, <1>2, <1>3
<1>5. D \in Seq(SUBSET RowRec)
  BY <1>1, <1>4, SeqDef
<1>6. DOMAIN D = DOMAIN k.attempts
  BY <1>2
<1>7. \A i \in DOMAIN D : \A e \in D[i] : RowTrue(e, pf)
  BY <1>2, <1>3
<1>8. \A i \in DOMAIN D : k.attempts[i].kind = "discarded" /\ k.attempts[i].usage # NoUsage =>
                    \E e \in D[i] : e.of = k.attempts[i].of /\ e.run = run
  BY <1>2, <1>3
<1> QED BY <1>5, <1>6, <1>7, <1>8 DEF RowsFor

-----------------------------------------------------------------------------
(* The last attempt of a call. *)

\* k2 is k after an attempt that ends the cascade, with the rows R left to write.
Ends(k, k2, a, R) ==
    /\ Tried(k, k2, a) /\ k2.pc = "recording" /\ k2.rows = R /\ k2.sent = k.sent /\ k2.lost = k.lost

\* What ends a cascade keeps what was sent.
LEMMA EndsIs ==
  ASSUME NEW k, NEW k1, NEW a, Tried(k, k1, a), Kept(k, k1), NEW status \in Statuses,
         NEW R \in Seq(SUBSET RowRec),
         NEW k2, k2 = [k1 EXCEPT !.pc = "recording", !.status = status, !.rows = R]
  PROVE  Ends(k, k2, a, R)
<1>1. k1 \in CallRec
  BY DEF Tried
<1>2. k2 \in CallRec
  BY <1>1 DEF CallRec
<1> QED BY <1>1, <1>2 DEF Ends, Tried, Kept, CallRec

\* A call's last attempt preserves the invariant, given its rows.
LEMMA CallEnds ==
  ASSUME IInv, NEW c \in Calls, calls[c].pc \in {"trying", "streaming"}, calls[c].todo # <<>>,
         NEW k2, NEW a, NEW R, Ends(calls[c], k2, a, R), New(c), AttemptTrue(a, k2, platform'),
         RowsTrue(k2, platform'), Owed(k2, platform', ledger),
         calls' = [calls EXCEPT ![c] = k2],
         UNCHANGED <<ledger, degraded, arrivals, faults>>
  PROVE  IInv'
<1> DEFINE k == calls[c]
<1>1. k \in CallRec /\ CallTrue(k, platform, ledger, arrivals) /\ Single(k)
  BY DEF IInv, AllTrue, CallTrue
<1>2. /\ Tried(k, k2, a) /\ k2 \in CallRec /\ k2.pc = "recording" /\ k2.sent = k.sent
      /\ k2.request = k.request /\ k2.no = k.no
  BY DEF Ends, Tried
<1>3. /\ This(c) \in Ids /\ This(c) \notin DOMAIN platform /\ arrivals \in Nat
      /\ This(c)[1] = k.no /\ This(c)[2] = Model(c) /\ This(c)[3] = Len(k.attempts)
  BY <1>1, ThisIsNew
<1>4. /\ Extends(platform, platform')
      /\ PlatformTrue(platform', arrivals) /\ LedgerTrue(ledger, platform')
      /\ \A id \in DOMAIN platform' \ DOMAIN platform : id = This(c)
  BY DEF New
<1>5. Inside(k2) /\ Accounted(k2, platform') /\ Numbered(k2, platform', arrivals)
  <2>1. \A id \in DOMAIN platform' \ DOMAIN platform : id[3] = Len(k.attempts)
    BY <1>3, <1>4
  <2> QED BY <1>1, <1>2, <1>3, <1>4, <2>1, MovesOn
<1>6. Single(k2)
  BY <1>1, <1>2 DEF Single
<1>7. CallTrue(k2, platform', ledger', arrivals')
  BY <1>2, <1>5, <1>6 DEF CallTrue
<1>8. \A id \in DOMAIN platform' \ DOMAIN platform : k.pc # "idle" /\ id[1] = k.no
  BY <1>3, <1>4
<1>9. /\ ledger \subseteq ledger' /\ arrivals <= arrivals' /\ PlatformTrue(platform', arrivals')
      /\ LedgerTrue(ledger', platform')
  BY <1>3, <1>4
<1>10. Bounds'
  BY DEF IInv, Bounds
<1>11. k.pc # "idle" /\ k2.no = k.no
  BY <1>2
<1> QED BY <1>4, <1>7, <1>8, <1>9, <1>10, <1>11, OneCallMoves

\* One row, for the attempt that was just made: nothing else is owed when the attempts
\* before it were no answers.
LEMMA OneRowPays ==
  ASSUME NEW k \in CallRec, k.todo # <<>>, NEW k2, NEW a, NEW R, Ends(k, k2, a, R),
         NEW pf, NEW ld, a.kind = "served",
         \A i \in DOMAIN k.attempts : k.attempts[i].kind \notin {"served", "discarded"},
         NEW e, R = <<{e}>>, e.of = a.of, e.run = k.request.run
  PROVE  Owed(k2, pf, ld)
<1>1. k.attempts \in Seq(AttemptRec) /\ k2.attempts = Append(k.attempts, a) /\ a \in AttemptRec
      /\ k2.request = k.request /\ k2.rows = R
  BY DEF CallRec, Ends, Tried
<1>2. \A i \in DOMAIN k2.attempts : 
        \/ i \in DOMAIN k.attempts /\ k2.attempts[i] = k.attempts[i]
        \/ k2.attempts[i] = a
  BY <1>1
<1>3. ASSUME NEW i \in DOMAIN k2.attempts, Due(k2.attempts[i], k2, pf)
      PROVE  k2.attempts[i] = a
  BY <1>2, <1>3 DEF Due
<1>4. 1 \in DOMAIN k2.rows /\ e \in k2.rows[1] /\ Pays(e, a, k2)
  BY <1>1 DEF Pays
<1> QED BY <1>3, <1>4 DEF Owed

\* The rows of recordCost and recordDiscardedAttempts.
LEMMA AllRowsPay ==
  ASSUME NEW k \in CallRec, k.todo # <<>>, NEW k2, NEW a, NEW R, Ends(k, k2, a, R),
         NEW pf, NEW ld, a.kind = "served", a.of \in DOMAIN pf,
         \A i \in DOMAIN k.attempts : k.attempts[i].kind # "served",
         NEW e, e.of = a.of, e.run = k.request.run,
         NEW D, RowsFor(D, k.request.run, k, pf), e \in RowRec,
         R = <<{e}>> \o (IF pf[a.of].kind = "replayed" THEN <<>> ELSE D)
  PROVE  Owed(k2, pf, ld)
<1>0. D \in Seq(SUBSET RowRec) /\ DOMAIN D = DOMAIN k.attempts
  BY DEF RowsFor
<1>1. k.attempts \in Seq(AttemptRec) /\ k2.attempts = Append(k.attempts, a) /\ a \in AttemptRec
      /\ k2.request = k.request /\ k2.rows = R
  BY DEF CallRec, Ends, Tried
<1>2. \A i \in DOMAIN k2.attempts : 
        \/ i \in DOMAIN k.attempts /\ k2.attempts[i] = k.attempts[i]
        \/ k2.attempts[i] = a
  BY <1>1
<1>3. Len(k.attempts) + 1 \in DOMAIN k2.attempts /\ k2.attempts[Len(k.attempts) + 1] = a
  BY <1>1
<1>4. {e} \in SUBSET RowRec /\ <<{e}>> \in Seq(SUBSET RowRec) /\ <<>> \in Seq(SUBSET RowRec)
  OBVIOUS
<1>5. 1 \in DOMAIN R /\ R[1] = {e}
  <2>1. ASSUME NEW S, NEW X \in Seq(S), NEW x \in S
        PROVE  1 \in DOMAIN (<<x>> \o X) /\ (<<x>> \o X)[1] = x
    OBVIOUS
  <2> QED BY <1>0, <1>4, <2>1
<1>6. ASSUME NEW i \in DOMAIN k2.attempts, Due(k2.attempts[i], k2, pf)
      PROVE  \E j \in DOMAIN k2.rows : \E d \in k2.rows[j] : Pays(d, k2.attempts[i], k2)
  <2>1. CASE k2.attempts[i] = a
    BY <1>1, <1>5, <2>1 DEF Pays
  <2>2. CASE k2.attempts[i] # a
    <3>1. /\ i \in DOMAIN k.attempts /\ k2.attempts[i] = k.attempts[i]
          /\ k.attempts[i].kind = "discarded" /\ k.attempts[i].usage # NoUsage /\ ~Replayed(k2, pf)
      BY <1>2, <1>6, <2>2 DEF Due
    <3>2. pf[a.of].kind # "replayed"
      BY <1>3, <3>1 DEF Replayed
    <3>3. R = <<{e}>> \o D
      BY <3>2
    <3>4. i + 1 \in DOMAIN R /\ R[i + 1] = D[i]
      <4>1. ASSUME NEW S, NEW X \in Seq(S), NEW x \in S, NEW m \in DOMAIN X
            PROVE  m + 1 \in DOMAIN (<<x>> \o X) /\ (<<x>> \o X)[m + 1] = X[m]
        OBVIOUS
      <4> QED BY <1>0, <1>4, <3>1, <3>3, <4>1
    <3>5. PICK d \in D[i] : d.of = k.attempts[i].of /\ d.run = k.request.run
      BY <1>0, <3>1 DEF RowsFor
    <3>6. Pays(d, k2.attempts[i], k2)
      BY <1>1, <3>1, <3>5 DEF Pays
    <3>7. i + 1 \in DOMAIN k2.rows /\ d \in k2.rows[i + 1]
      BY <1>1, <3>4, <3>5
    <3> QED BY <3>6, <3>7
  <2> QED BY <2>1, <2>2
<1> QED BY <1>6 DEF Owed

-----------------------------------------------------------------------------
(* The actions. *)

\* No usage and no id are a report and a reference.
LEMMA NoUsageIs == NoUsage \in ReportRec /\ NoId \in Refs
  BY DEF NoUsage, ReportRec, Counter, Refs

\* What the invariant says of one call.
LEMMA CallFacts ==
  ASSUME IInv, NEW c \in Calls
  PROVE  /\ calls[c] \in CallRec /\ CallTrue(calls[c], platform, ledger, arrivals)
         /\ arrivals \in Nat /\ Single(calls[c])
  BY BoundsAssumption DEF IInv, AllTrue, CallTrue, Bounds

\* Skip preserves the invariant.
LEMMA SkipStep ==
  ASSUME IInv, NEW c \in Calls, Skip(c)
  PROVE  IInv'
<1> DEFINE k2 == Attempted(c, "skipped", NoId, NoUsage)
           a == AttemptOf(c, "skipped", NoId, NoUsage)
<1>1. Trying(c) /\ calls[c].todo # <<>> /\ calls[c] \in CallRec
  BY CallFacts DEF Skip, Trying
<1>2. Tried(calls[c], k2, a) /\ Kept(calls[c], k2)
  BY <1>1, NoUsageIs, AttemptedIs DEF Kinds
<1>3. a.kind = "skipped"
  BY DEF AttemptOf
<1>4. /\ calls' = [calls EXCEPT ![c] = k2]
      /\ UNCHANGED <<ledger, arrivals, platform, degraded, faults>>
  BY DEF Skip
<1>5. Bounds'
  BY <1>4 DEF IInv, Bounds
<1> HIDE DEF k2, a
<1> QED BY <1>1, <1>2, <1>3, <1>4, <1>5, TriesOn

\* Fails preserves the invariant.
LEMMA FailsStep ==
  ASSUME IInv, NEW c \in Calls, Fails(c)
  PROVE  IInv'
<1>0. PICK kind \in {"throttled", "error"} :
        calls' = [calls EXCEPT ![c] = Started(c, Attempted(c, kind, NoId, NoUsage))]
  BY DEF Fails, Failures
<1> DEFINE k1 == Attempted(c, kind, NoId, NoUsage)
           k2 == Started(c, k1)
           a == AttemptOf(c, kind, NoId, NoUsage)
<1>1. Trying(c) /\ calls[c].todo # <<>> /\ calls[c] \in CallRec
  BY CallFacts DEF Fails, Callable, Trying
<1>2. Tried(calls[c], k1, a) /\ Kept(calls[c], k1)
  BY <1>1, NoUsageIs, AttemptedIs DEF Kinds
<1>3. a.kind \in {"throttled", "error"}
  BY DEF AttemptOf
<1>4. /\ calls' = [calls EXCEPT ![c] = k2]
      /\ UNCHANGED <<ledger, arrivals, platform, degraded, faults>>
  BY <1>0 DEF Fails
<1>5. Bounds'
  BY <1>4 DEF IInv, Bounds
<1> HIDE DEF k1, a
<1>6. Tried(calls[c], k2, a) /\ Kept(calls[c], k2)
  BY <1>2, StartedIs
<1> HIDE DEF k2
<1> QED BY <1>1, <1>3, <1>4, <1>5, <1>6, TriesOn

\* AnswerGetsLost preserves the invariant: the request is there, and no row will be.
LEMMA AnswerGetsLostStep ==
  ASSUME IInv, NEW c \in Calls, AnswerGetsLost(c)
  PROVE  IInv'
<1> DEFINE k1 == Attempted(c, "error", NoId, NoUsage)
           k2 == Started(c, k1)
           a == AttemptOf(c, "error", NoId, NoUsage)
<1>1. Trying(c) /\ calls[c].todo # <<>> /\ calls[c] \in CallRec /\ calls[c].pc = "trying"
  BY CallFacts DEF AnswerGetsLost, Callable, Trying
<1>2. Tried(calls[c], k1, a) /\ Kept(calls[c], k1)
  BY <1>1, NoUsageIs, AttemptedIs DEF Kinds
<1>3. a.kind = "error"
  BY DEF AttemptOf
<1>4. calls' = [calls EXCEPT ![c] = k2] /\ UNCHANGED <<ledger, arrivals, degraded>>
  BY DEF AnswerGetsLost
<1>5. Bounds'
  BY <1>4, BoundsAssumption DEF IInv, Bounds, AnswerGetsLost
<1>6. New(c)
  <2>1. PICK u \in Usages : Does(c, "unanswered", u, This(c))
    BY DEF AnswerGetsLost
  <2>2. u \in UsageRec
    BY UsagesAssumption DEF UsageRec
  <2>3. This(c) \in Ids
    BY <1>1, ThisIsNew
  <2> QED BY <1>1, <2>1, <2>2, <2>3, DoesIs
<1> HIDE DEF k1, a
<1>7. Tried(calls[c], k2, a) /\ Kept(calls[c], k2)
  BY <1>2, StartedIs
<1> HIDE DEF k2
<1> QED BY <1>1, <1>3, <1>4, <1>5, <1>6, <1>7, TriesOn

\* What an answer reports of the request just made.
LEMMA ReportsIs ==
  ASSUME IInv, NEW c \in Calls, calls[c].pc \in {"trying", "streaming"}, calls[c].todo # <<>>,
         New(c), NEW u \in Reports(Model(c), platform'[This(c)].usage)
  PROVE  /\ u \in ReportRec /\ Reported(This(c)[2], u, platform'[This(c)].usage)
         /\ This(c) \in DOMAIN platform' /\ This(c) \in Refs
<1>1. Model(c) \in Models /\ This(c) \in Ids /\ This(c)[2] = Model(c)
  BY ThisIsNew
<1>2. platform'[This(c)].usage \in UsageRec /\ This(c) \in DOMAIN platform'
  BY DEF New
<1>3. Reported(This(c)[2], u, platform'[This(c)].usage)
  BY <1>1, <1>2, UsageIsReported
<1>4. u \in ReportRec
  BY <1>2, <1>3, ReportedIsReport
<1> QED BY <1>1, <1>2, <1>3, <1>4 DEF Refs

\* A call under way has a request, so a run to record under.
LEMMA RunIs ==
  ASSUME IInv, NEW c \in Calls, calls[c].pc # "idle"
  PROVE  calls[c].request \in Requests /\ calls[c].request.run \in Runs
<1>1. calls[c].request \in Requests
  BY CallFacts DEF Single
<1> QED BY <1>1 DEF Runs

\* Answers preserves the invariant: a thrown-away answer is accounted for, a served one leaves
\* the rows of all of them to write.
LEMMA AnswersStep ==
  ASSUME IInv, NEW c \in Calls, Answers(c)
  PROVE  IInv'
<1> DEFINE k == calls[c]
           id == This(c)
           run == k.request.run
           D == DiscardedEntries(run, k.attempts)
<1>1. /\ Trying(c) /\ k.todo # <<>> /\ k \in CallRec /\ k.pc = "trying" /\ ~Streamed(c)
      /\ UNCHANGED <<ledger, degraded, arrivals, faults>>
  BY CallFacts DEF Answers, Callable, Trying
<1>2. New(c)
  BY <1>1, GeneratesIs DEF Answers
<1>3. PICK body \in Bodies, u \in Reports(Model(c), platform'[id].usage) :
        calls' = [calls EXCEPT ![c] =
            IF EmptyAnswer(Answer(Provider[Model(c)], body)) THEN Attempted(c, "discarded", id, u)
            ELSE [Attempted(c, "served", id, u) EXCEPT
                    !.pc = "recording", !.status = "200",
                    !.rows = RowsServed(run, u, id, platform'[id], k.attempts)]]
  BY DEF Answers
<1>4. u \in ReportRec /\ Reported(id[2], u, platform'[id].usage) /\ id \in DOMAIN platform' /\ id \in Refs
  BY <1>1, <1>2, ReportsIs
<1>5. run \in Runs
  BY <1>1, RunIs
<1>6. CASE EmptyAnswer(Answer(Provider[Model(c)], body))
  <2> DEFINE k2 == Attempted(c, "discarded", id, u)
             a == AttemptOf(c, "discarded", id, u)
  <2>1. Tried(k, k2, a) /\ Kept(k, k2)
    BY <1>1, <1>4, AttemptedIs DEF Kinds
  <2>2. a.kind = "discarded" /\ a.of = id /\ a.usage = u /\ a.model = id[2]
    BY <1>1, ThisIsNew DEF AttemptOf
  <2>3. calls' = [calls EXCEPT ![c] = k2]
    BY <1>3, <1>6
  <2>4. Bounds'
    BY <1>1 DEF IInv, Bounds
  <2> HIDE DEF k2, a
  <2> QED BY <1>1, <1>2, <1>4, <2>1, <2>2, <2>3, <2>4, TriesOn
<1>7. CASE ~EmptyAnswer(Answer(Provider[Model(c)], body))
  <2> DEFINE k1 == Attempted(c, "served", id, u)
             a == AttemptOf(c, "served", id, u)
             R == RowsServed(run, u, id, platform'[id], k.attempts)
             k2 == [k1 EXCEPT !.pc = "recording", !.status = "200", !.rows = R]
             e == ServedEntry(run, u, id, platform'[id])
  <2>1. Tried(k, k1, a) /\ Kept(k, k1)
    BY <1>1, <1>4, AttemptedIs DEF Kinds
  <2>2. a.kind = "served" /\ a.of = id /\ a.usage = u /\ a.model = Model(c)
    BY DEF AttemptOf
  <2>3. calls' = [calls EXCEPT ![c] = k2]
    BY <1>3, <1>7
  <2>4. Extends(platform, platform') /\ PlatformTrue(platform', arrivals)
    BY <1>2 DEF New
  <2>5. e \in RowRec /\ e.run = run /\ e.of = id /\ RowTrue(e, platform')
    BY <1>4, <1>5, <2>4, ServedRow
  <2>6. Accounted(k, platform') /\ \A i \in DOMAIN k.attempts : k.attempts[i].kind # "served"
    <3>1. Accounted(k, platform)
      BY CallFacts DEF CallTrue
    <3> QED BY <1>1, <2>4, <3>1 DEF Accounted, AttemptTrue, Extends
  <2>7. RowsFor(D, run, k, platform')
    BY <1>1, <1>5, <2>4, <2>6, DiscardedRows
  <2>8. R = <<{e}>> \o (IF platform'[id].kind = "replayed" THEN <<>> ELSE D)
    BY DEF RowsServed
  <2> HIDE DEF e, D, R, k1, a
  <2>9. R \in Seq(SUBSET RowRec) /\ \A i \in DOMAIN R : \A d \in R[i] : RowTrue(d, platform')
    <3>1. PICK X \in Seq(SUBSET RowRec) :
            /\ R = <<{e}>> \o X
            /\ \A i \in DOMAIN X : \A d \in X[i] : RowTrue(d, platform')
      <4>1. CASE platform'[id].kind = "replayed"
        <5>1. <<>> \in Seq(SUBSET RowRec) /\ DOMAIN <<>> = {} /\ R = <<{e}>> \o <<>>
          BY <2>8, <4>1
        <5> QED BY <5>1
      <4>2. CASE platform'[id].kind # "replayed"
        BY <2>7, <2>8, <4>2 DEF RowsFor
      <4> QED BY <4>1, <4>2
    <3>2. {e} \in SUBSET RowRec
      BY <2>5
    <3>3. ASSUME NEW S, NEW Y \in Seq(S), NEW x \in S
          PROVE  /\ <<x>> \o Y \in Seq(S)
                 /\ \A i \in DOMAIN (<<x>> \o Y) : \/ (<<x>> \o Y)[i] = x
                                               \/ \E j \in DOMAIN Y : (<<x>> \o Y)[i] = Y[j]
      <4>1. <<x>> \o Y \in Seq(S)
        OBVIOUS
      <4>2. ASSUME NEW i \in DOMAIN (<<x>> \o Y), i # 1
            PROVE  i - 1 \in DOMAIN Y /\ (<<x>> \o Y)[i] = Y[i - 1]
        BY <4>2
      <4>3. (<<x>> \o Y)[1] = x
        OBVIOUS
      <4> QED BY <4>1, <4>2, <4>3
    <3>4. R \in Seq(SUBSET RowRec)
      BY <3>1, <3>2, <3>3
    <3>5. \A i \in DOMAIN R : R[i] = {e} \/ \E j \in DOMAIN X : R[i] = X[j]
      BY <3>1, <3>2, <3>3
    <3> QED BY <2>5, <3>1, <3>4, <3>5
  <2>10. Ends(k, k2, a, R)
    BY <2>1, <2>9, EndsIs DEF Statuses
  <2>11. k2.pc = "recording" /\ k2.rows = R
    BY <2>10 DEF Ends
  <2> HIDE DEF k2
  <2>12. AttemptTrue(a, k2, platform')
    <3>1. id[2] = Model(c)
      BY <1>1, ThisIsNew
    <3> QED BY <1>4, <2>2, <2>11, <3>1 DEF AttemptTrue
  <2>13. RowsTrue(k2, platform')
    BY <2>9, <2>11 DEF RowsTrue
  <2>14. Owed(k2, platform', ledger)
    <3>1. platform'[a.of] = platform'[id] /\ a.of \in DOMAIN platform'
      BY <1>4, <2>2
    <3>2. R = <<{e}>> \o (IF platform'[a.of].kind = "replayed" THEN <<>> ELSE D)
      BY <2>8, <3>1
    <3>3. a.kind = "served" /\ e.of = a.of /\ e.run = k.request.run /\ e \in RowRec
      BY <2>2, <2>5
    <3> QED BY <1>1, <2>6, <2>7, <2>10, <3>1, <3>2, <3>3, AllRowsPay
  <2> QED BY <1>1, <1>2, <2>3, <2>10, <2>12, <2>13, <2>14, CallEnds
<1> QED BY <1>6, <1>7

\* A step of one call that leaves the platform alone.
LEMMA CallGoesOn ==
  ASSUME IInv, NEW c \in Calls, calls[c].pc # "idle", NEW k2, calls' = [calls EXCEPT ![c] = k2],
         CallTrue(k2, platform, ledger', arrivals), k2.no = calls[c].no,
         ledger \subseteq ledger', LedgerTrue(ledger', platform), Bounds',
         UNCHANGED <<platform, arrivals>>
  PROVE  IInv'
<1>1. arrivals \in Nat
  BY CallFacts
<1>2. /\ Extends(platform, platform') /\ arrivals <= arrivals'
      /\ PlatformTrue(platform', arrivals') /\ LedgerTrue(ledger', platform')
      /\ DOMAIN platform' \ DOMAIN platform = {}
  BY <1>1 DEF Extends, IInv, Books
<1>3. CallTrue(k2, platform', ledger', arrivals')
  OBVIOUS
<1> QED BY <1>2, <1>3, OneCallMoves

\* Exhausted preserves the invariant: what was thrown away is still recorded.
LEMMA ExhaustedStep ==
  ASSUME IInv, NEW c \in Calls, Exhausted(c)
  PROVE  IInv'
<1> DEFINE k == calls[c]
           D == DiscardedEntries(k.request.run, k.attempts)
           status == IF ~Streamed(c) /\ ThrottleRefusal(k.attempts) THEN "429" ELSE "502"
           k2 == [k EXCEPT !.pc = "recording", !.rows = D, !.status = status]
<1>1. /\ k \in CallRec /\ k.pc = "trying" /\ Single(k) /\ CallTrue(k, platform, ledger, arrivals)
      /\ UNCHANGED <<platform, ledger, degraded, arrivals, faults>>
  BY CallFacts DEF Exhausted
<1>2. calls' = [calls EXCEPT ![c] = k2]
  BY DEF Exhausted
<1>3. status \in Statuses
  BY DEF Statuses
<1>4. RowsFor(D, k.request.run, k, platform)
  <2>1. k.request.run \in Runs
    BY <1>1, RunIs
  <2>2. Accounted(k, platform) /\ PlatformTrue(platform, arrivals)
    BY <1>1 DEF CallTrue, IInv, Books
  <2> QED BY <1>1, <2>1, <2>2, DiscardedRows
<1> HIDE DEF D, status
<1>5. /\ k2 \in CallRec /\ k2.pc = "recording" /\ k2.rows = D /\ k2.attempts = k.attempts
      /\ k2.request = k.request /\ k2.no = k.no /\ k2.todo = k.todo /\ k2.sent = k.sent
  BY <1>1, <1>3, <1>4 DEF CallRec, RowsFor
<1> HIDE DEF k2
<1>6. Single(k2) /\ Inside(k2) /\ Numbered(k2, platform, arrivals)
  BY <1>1, <1>5 DEF CallTrue, Single, Inside, Numbered
<1>7. Accounted(k2, platform) /\ RowsTrue(k2, platform)
  BY <1>1, <1>4, <1>5 DEF CallTrue, Accounted, AttemptTrue, RowsTrue, RowsFor
<1>8. Owed(k2, platform, ledger)
  <2>1. ASSUME NEW i \in DOMAIN k.attempts, Due(k.attempts[i], k2, platform)
        PROVE  \E j \in DOMAIN D : \E e \in D[j] : Pays(e, k.attempts[i], k2)
    <3>1. k.attempts[i].kind = "discarded" /\ k.attempts[i].usage # NoUsage
      BY <1>1, <2>1 DEF CallTrue, Accounted, AttemptTrue, Due
    <3>2. i \in DOMAIN D
      BY <1>4 DEF RowsFor
    <3>3. PICK e \in D[i] : e.of = k.attempts[i].of /\ e.run = k.request.run
      BY <1>4, <3>1, <3>2 DEF RowsFor
    <3> QED BY <1>5, <3>2, <3>3 DEF Pays
  <2> QED BY <1>5, <2>1 DEF Owed
<1>9. CallTrue(k2, platform, ledger', arrivals)
  BY <1>1, <1>5, <1>6, <1>7, <1>8 DEF CallTrue
<1>10. Bounds' /\ LedgerTrue(ledger', platform) /\ ledger \subseteq ledger'
  BY <1>1 DEF IInv, Bounds, Books
<1> QED BY <1>1, <1>2, <1>5, <1>9, <1>10, CallGoesOn

\* StreamBegins preserves the invariant: nothing was sent before.
LEMMA StreamBeginsStep ==
  ASSUME IInv, NEW c \in Calls, StreamBegins(c)
  PROVE  IInv'
<1> DEFINE k == calls[c]
           k1 == [k EXCEPT !.pc = "streaming", !.sent = Append(k.sent, Model(c))]
           k2 == Started(c, k1)
<1>1. /\ k \in CallRec /\ k.pc = "trying" /\ k.todo # <<>> /\ Single(k) /\ k.request.door = "stream"
      /\ CallTrue(k, platform, ledger, arrivals)
      /\ UNCHANGED <<platform, ledger, degraded, arrivals, faults>>
  BY CallFacts DEF StreamBegins, Callable, Trying, Streamed
<1>2. calls' = [calls EXCEPT ![c] = k2]
  BY DEF StreamBegins
<1>3. Model(c) \in Models
  BY <1>1, ThisIsNew
<1>4. k.sent = <<>> /\ Append(k.sent, Model(c)) = <<Model(c)>> /\ <<Model(c)>> \in Seq(Models)
  <2>1. k.sent = <<>>
    BY <1>1 DEF Single
  <2>2. ASSUME NEW m \in Models, NEW sent, sent = <<>>
        PROVE  Append(sent, m) = <<m>> /\ <<m>> \in Seq(Models)
    BY <2>2
  <2> QED BY <1>3, <2>1, <2>2
<1>5. /\ k1 \in CallRec /\ k1.pc = "streaming" /\ k1.sent = <<Model(c)>> /\ k1.rows = k.rows
      /\ k1.lost = k.lost /\ k1.attempts = k.attempts /\ k1.todo = k.todo /\ k1.no = k.no
      /\ k1.request = k.request
  BY <1>1, <1>4 DEF CallRec
<1> HIDE DEF k1
<1>6. /\ k2 \in CallRec /\ k2.pc = "streaming" /\ k2.sent = <<Model(c)>> /\ k2.rows = k.rows
      /\ k2.lost = k.lost /\ k2.attempts = k.attempts /\ k2.todo = k.todo /\ k2.no = k.no
      /\ k2.request = k.request
  BY <1>5, StartedKeeps DEF Kept
<1> HIDE DEF k2
<1>7. Single(k2)
  BY <1>1, <1>3, <1>6 DEF Single
<1>8. Inside(k2) /\ Numbered(k2, platform, arrivals)
  BY <1>1, <1>6 DEF CallTrue, Inside, Numbered
<1>9. Accounted(k2, platform) /\ RowsTrue(k2, platform) /\ Owed(k2, platform, ledger')
  BY <1>1, <1>6 DEF CallTrue, Accounted, AttemptTrue, RowsTrue, Owed
<1>10. Bounds' /\ LedgerTrue(ledger', platform) /\ ledger \subseteq ledger'
  BY <1>1 DEF IInv, Bounds, Books
<1>11. CallTrue(k2, platform, ledger', arrivals)
  BY <1>6, <1>7, <1>8, <1>9 DEF CallTrue
<1> QED BY <1>1, <1>2, <1>6, <1>10, <1>11, CallGoesOn

\* StreamEnds preserves the invariant: a streamed call discarded nothing, so its row is all.
LEMMA StreamEndsStep ==
  ASSUME IInv, NEW c \in Calls, StreamEnds(c)
  PROVE  IInv'
<1> DEFINE k == calls[c]
           id == This(c)
           run == k.request.run
<1>1. /\ k \in CallRec /\ k.pc = "streaming" /\ k.todo # <<>> /\ k.request.door = "stream"
      /\ CallTrue(k, platform, ledger, arrivals)
      /\ UNCHANGED <<ledger, degraded, arrivals, faults>>
  BY CallFacts DEF StreamEnds, Single
<1>2. New(c)
  BY <1>1, GeneratesIs DEF StreamEnds
<1>3. PICK u \in Reports(Model(c), platform'[id].usage) :
        calls' = [calls EXCEPT ![c] =
            [Attempted(c, "served", id, u) EXCEPT
                !.pc = "recording", !.status = "200", !.rows = <<{StreamedRow(run, u, id)}>>]]
  BY DEF StreamEnds
<1>4. u \in ReportRec /\ Reported(id[2], u, platform'[id].usage) /\ id \in DOMAIN platform' /\ id \in Refs
  BY <1>1, <1>2, ReportsIs
<1>5. run \in Runs
  BY <1>1, RunIs
<1> DEFINE k1 == Attempted(c, "served", id, u)
           a == AttemptOf(c, "served", id, u)
           e == StreamedRow(run, u, id)
           R == <<{e}>>
           k2 == [k1 EXCEPT !.pc = "recording", !.status = "200", !.rows = R]
<1>6. Tried(k, k1, a) /\ Kept(k, k1)
  BY <1>1, <1>4, AttemptedIs DEF Kinds
<1>7. a.kind = "served" /\ a.of = id /\ a.usage = u /\ a.model = Model(c)
  BY DEF AttemptOf
<1>8. calls' = [calls EXCEPT ![c] = k2]
  BY <1>3
<1>9. e \in RowRec /\ e.run = run /\ e.of = id /\ RowTrue(e, platform')
  <2> DEFINE no == FALSE
  <2>1. e = Entry(run, id[2], u, CostUSD(id[2], u), NoId, NoId, no, id)
    BY DEF StreamedRow
  <2>2. no \in BOOLEAN /\ NoId \in {RequestId(id), NoId}
    OBVIOUS
  <2>3. PlatformTrue(platform', arrivals)
    BY <1>2 DEF New
  <2> HIDE DEF e, no, id, run
  <2> QED BY <1>4, <1>5, <2>1, <2>2, <2>3, PricedRow
<1> HIDE DEF e, k1, a
<1>10. R \in Seq(SUBSET RowRec) /\ DOMAIN R = {1} /\ R[1] = {e}
  <2>1. {e} \in SUBSET RowRec
    BY <1>9
  <2> QED BY <2>1
<1>11. R = <<{e}>>
  OBVIOUS
<1> HIDE DEF R
<1>12. Ends(k, k2, a, R)
  BY <1>6, <1>10, EndsIs DEF Statuses
<1>13. k2.pc = "recording" /\ k2.rows = R
  BY <1>12 DEF Ends
<1> HIDE DEF k2
<1>14. AttemptTrue(a, k2, platform')
  <2>1. id[2] = Model(c)
    BY <1>1, ThisIsNew
  <2> QED BY <1>4, <1>7, <1>13, <2>1 DEF AttemptTrue
<1>15. RowsTrue(k2, platform')
  BY <1>9, <1>10, <1>13 DEF RowsTrue
<1>16. Owed(k2, platform', ledger)
  <2>1. \A i \in DOMAIN k.attempts : k.attempts[i].kind \notin {"served", "discarded"}
    BY <1>1 DEF CallTrue, Accounted, AttemptTrue
  <2> QED BY <1>1, <1>7, <1>9, <1>11, <1>12, <2>1, OneRowPays
<1> QED BY <1>1, <1>2, <1>8, <1>12, <1>14, <1>15, <1>16, CallEnds

\* StreamBreaks preserves the invariant: it ends the call, so nothing more is sent.
LEMMA StreamBreaksStep ==
  ASSUME IInv, NEW c \in Calls, StreamBreaks(c)
  PROVE  IInv'
<1> DEFINE k == calls[c]
           id == This(c)
           k1 == Attempted(c, "error", id, NoUsage)
           a == AttemptOf(c, "error", id, NoUsage)
           R == <<>>
           k2 == [k1 EXCEPT !.pc = "recording", !.status = "broken", !.rows = R]
<1>1. /\ k \in CallRec /\ k.pc = "streaming" /\ k.todo # <<>> /\ k.request.door = "stream"
      /\ CallTrue(k, platform, ledger, arrivals)
      /\ UNCHANGED <<ledger, degraded, arrivals, faults>>
  BY CallFacts DEF StreamBreaks, Single
<1>2. New(c)
  BY <1>1, GeneratesIs DEF StreamBreaks
<1>3. id \in Refs
  <2>1. id \in Ids
    BY <1>1, ThisIsNew
  <2> QED BY <2>1 DEF Refs
<1>4. Tried(k, k1, a) /\ Kept(k, k1)
  BY <1>1, <1>3, NoUsageIs, AttemptedIs DEF Kinds
<1>5. a.kind = "error"
  BY DEF AttemptOf
<1>6. calls' = [calls EXCEPT ![c] = k2]
  BY DEF StreamBreaks, AfterBreak
<1>7. R \in Seq(SUBSET RowRec) /\ DOMAIN R = {}
  OBVIOUS
<1> HIDE DEF k1, a, R
<1>8. Ends(k, k2, a, R)
  BY <1>4, <1>7, EndsIs DEF Statuses
<1>9. k2.rows = R
  BY <1>8 DEF Ends
<1> HIDE DEF k2
<1>10. AttemptTrue(a, k2, platform')
  BY <1>5 DEF AttemptTrue
<1>11. RowsTrue(k2, platform')
  BY <1>7, <1>9 DEF RowsTrue
<1>12. Owed(k2, platform', ledger)
  <2>1. \A i \in DOMAIN k.attempts : k.attempts[i].kind \notin {"served", "discarded"}
    BY <1>1 DEF CallTrue, Accounted, AttemptTrue
  <2>2. k.attempts \in Seq(AttemptRec) /\ k2.attempts = Append(k.attempts, a) /\ a \in AttemptRec
    BY <1>1, <1>8 DEF CallRec, Ends, Tried
  <2>3. \A i \in DOMAIN k2.attempts : 
        \/ i \in DOMAIN k.attempts /\ k2.attempts[i] = k.attempts[i]
        \/ k2.attempts[i] = a
    BY <2>2
  <2>4. \A i \in DOMAIN k2.attempts : ~Due(k2.attempts[i], k2, platform')
    BY <1>5, <2>1, <2>3 DEF Due
  <2> QED BY <2>4 DEF Owed
<1> QED BY <1>1, <1>2, <1>6, <1>8, <1>10, <1>11, <1>12, CallEnds

\* RecordRow preserves the invariant: a row moves from the ones left to the ledger, or the call
\* is marked as having lost one.
LEMMA RecordRowStep ==
  ASSUME IInv, NEW c \in Calls, RecordRow(c)
  PROVE  IInv'
<1> DEFINE k == calls[c]
           T == Tail(k.rows)
<1>1. /\ k \in CallRec /\ k.pc = "recording" /\ k.rows # <<>> /\ Single(k)
      /\ CallTrue(k, platform, ledger, arrivals)
      /\ UNCHANGED <<platform, degraded, arrivals>>
  BY CallFacts DEF RecordRow
<1>2. k.rows \in Seq(SUBSET RowRec)
  BY <1>1 DEF CallRec
<1>3. /\ T \in Seq(SUBSET RowRec) /\ 1 \in DOMAIN k.rows /\ Head(k.rows) = k.rows[1]
      /\ \A i \in DOMAIN T : i + 1 \in DOMAIN k.rows /\ T[i] = k.rows[i + 1]
      /\ \A i \in DOMAIN k.rows : i = 1 \/ (i - 1 \in DOMAIN T /\ T[i - 1] = k.rows[i])
  BY <1>1, <1>2
<1>4. \A e \in Head(k.rows) : RowTrue(e, platform)
  BY <1>1, <1>3 DEF CallTrue, RowsTrue
<1> HIDE DEF T
<1>5. ASSUME NEW k2, k2 \in CallRec, k2.pc = "recording", k2.rows = T, k2.attempts = k.attempts,
             k2.todo = k.todo, k2.request = k.request, k2.no = k.no, k2.sent = k.sent
      PROVE  /\ Single(k2) /\ Inside(k2) /\ Numbered(k2, platform, arrivals)
             /\ Accounted(k2, platform) /\ RowsTrue(k2, platform)
  <2>1. Single(k2)
    BY <1>1, <1>5 DEF Single
  <2>2. Inside(k2) /\ Numbered(k2, platform, arrivals)
    BY <1>1, <1>5 DEF CallTrue, Inside, Numbered
  <2>3. Accounted(k2, platform)
    BY <1>1, <1>5 DEF CallTrue, Accounted, AttemptTrue
  <2>4. RowsTrue(k2, platform)
    BY <1>1, <1>3, <1>5 DEF CallTrue, RowsTrue
  <2> QED BY <2>1, <2>2, <2>3, <2>4
<1>6. CASE /\ ledger' = ledger \cup Head(k.rows)
           /\ calls' = [calls EXCEPT ![c].rows = Tail(@)]
           /\ UNCHANGED faults
  <2> DEFINE k2 == [k EXCEPT !.rows = T]
  <2>1. calls' = [calls EXCEPT ![c] = k2]
    BY <1>6 DEF IInv, T
  <2>2. /\ k2 \in CallRec /\ k2.pc = "recording" /\ k2.rows = T /\ k2.attempts = k.attempts
        /\ k2.todo = k.todo /\ k2.request = k.request /\ k2.no = k.no /\ k2.sent = k.sent
        /\ k2.lost = k.lost
    BY <1>1, <1>3 DEF CallRec
  <2> HIDE DEF k2
  <2>3. Owed(k2, platform, ledger')
    <3>1. ASSUME NEW i \in DOMAIN k.attempts, Due(k.attempts[i], k2, platform), ~k.lost
          PROVE  \/ \E e \in ledger' : Pays(e, k.attempts[i], k2)
                 \/ \E j \in DOMAIN T : \E e \in T[j] : Pays(e, k.attempts[i], k2)
      <4>1. Due(k.attempts[i], k, platform)
        BY <2>2, <3>1 DEF Due, Replayed
      <4>2. CASE \E e \in ledger : Pays(e, k.attempts[i], k)
        BY <1>6, <2>2, <4>2 DEF Pays
      <4>3. CASE \E j \in DOMAIN k.rows : \E e \in k.rows[j] : Pays(e, k.attempts[i], k)
        <5>1. PICK j \in DOMAIN k.rows : \E e \in k.rows[j] : Pays(e, k.attempts[i], k)
          BY <4>3
        <5>2. PICK e \in k.rows[j] : Pays(e, k.attempts[i], k)
          BY <5>1
        <5>3. Pays(e, k.attempts[i], k2)
          BY <2>2, <5>2 DEF Pays
        <5>4. CASE j = 1
          BY <1>3, <1>6, <5>2, <5>3, <5>4
        <5>5. CASE j # 1
          <6>1. j - 1 \in DOMAIN T /\ T[j - 1] = k.rows[j]
            BY <1>3, <5>5
          <6> QED BY <5>2, <5>3, <6>1
        <5> QED BY <5>4, <5>5
      <4> QED BY <1>1, <3>1, <4>1, <4>2, <4>3 DEF CallTrue, Owed
    <3> QED BY <2>2, <3>1 DEF Owed
  <2>4. CallTrue(k2, platform, ledger', arrivals)
    BY <1>5, <2>2, <2>3 DEF CallTrue
  <2>5. LedgerTrue(ledger', platform) /\ ledger \subseteq ledger'
    BY <1>4, <1>6 DEF IInv, Books, LedgerTrue
  <2>6. Bounds'
    BY <1>1, <1>6 DEF IInv, Bounds
  <2> QED BY <1>1, <2>1, <2>2, <2>4, <2>5, <2>6, CallGoesOn
<1>7. CASE /\ faults < MaxFaults /\ faults' = faults + 1
           /\ calls' = [calls EXCEPT ![c].rows = Tail(@), ![c].lost = TRUE]
           /\ UNCHANGED ledger
  <2> DEFINE k2 == [k EXCEPT !.rows = T, !.lost = TRUE]
  <2>1. calls' = [calls EXCEPT ![c] = k2]
    BY <1>7 DEF IInv, T
  <2>2. /\ k2 \in CallRec /\ k2.pc = "recording" /\ k2.rows = T /\ k2.attempts = k.attempts
        /\ k2.todo = k.todo /\ k2.request = k.request /\ k2.no = k.no /\ k2.sent = k.sent
    BY <1>1, <1>3 DEF CallRec
  <2>3. k2.lost
    BY <1>1 DEF CallRec
  <2> HIDE DEF k2
  <2>4. CallTrue(k2, platform, ledger', arrivals)
    BY <1>5, <2>2, <2>3 DEF CallTrue, Owed
  <2>5. LedgerTrue(ledger', platform) /\ ledger \subseteq ledger'
    BY <1>7 DEF IInv, Books
  <2>6. Bounds'
    BY <1>1, <1>7, BoundsAssumption DEF IInv, Bounds
  <2> QED BY <1>1, <2>1, <2>2, <2>4, <2>5, <2>6, CallGoesOn
<1> QED BY <1>6, <1>7 DEF RecordRow

\* Respond preserves the invariant.
LEMMA RespondStep ==
  ASSUME IInv, NEW c \in Calls, Respond(c)
  PROVE  IInv'
<1> DEFINE k2 == Answered(calls[c].status)
<1>1. calls[c] \in CallRec /\ calls' = [calls EXCEPT ![c] = k2] /\ arrivals \in Nat
      /\ UNCHANGED <<platform, ledger, degraded, arrivals, faults>>
  BY CallFacts DEF Respond
<1>2. calls[c].status \in Statuses
  BY <1>1 DEF CallRec
<1>3. CallTrue(k2, platform', ledger', arrivals') /\ k2.pc = "idle"
  <2>1. Idles(k2)
    BY <1>2 DEF Idles
  <2> QED BY <2>1, IdleIsTrue
<1> HIDE DEF k2
<1>4. /\ Extends(platform, platform') /\ arrivals <= arrivals' /\ ledger \subseteq ledger'
      /\ PlatformTrue(platform', arrivals') /\ LedgerTrue(ledger', platform')
      /\ DOMAIN platform' \ DOMAIN platform = {} /\ Bounds'
  BY <1>1 DEF Extends, IInv, Books, Bounds
<1> QED BY <1>1, <1>3, <1>4, OneCallMoves

\* A quality score preserves the invariant.
LEMMA ReportStep ==
  ASSUME IInv, NEW m \in Scored, Report(m)
  PROVE  IInv'
<1>1. UNCHANGED <<calls, ledger, platform, arrivals, faults>> /\ degraded' \subseteq Scored
  BY DEF Report, IInv, Bounds
<1> QED BY <1>1 DEF IInv, Books, Bounds

-----------------------------------------------------------------------------
(* Arrivals. *)

\* An arrival leaves the books alone, whatever becomes of the call.
LEMMA Arrival ==
  ASSUME IInv, NEW c \in Calls, NEW k2, calls' = [calls EXCEPT ![c] = k2],
         arrivals' = arrivals + 1, UNCHANGED <<ledger, platform>>, Bounds',
         CallTrue(k2, platform, ledger, arrivals + 1),
         k2.pc # "idle" => k2.no = arrivals + 1
  PROVE  IInv'
<1>1. arrivals \in Nat
  BY CallFacts
<1>2. PlatformTrue(platform', arrivals')
  <2>1. \A id \in DOMAIN platform : id[1] \in Nat /\ id[1] <= arrivals
    BY DEF IInv, Books, PlatformTrue, Ids
  <2>2. \A id \in DOMAIN platform : id[1] <= arrivals + 1
    BY <1>1, <2>1
  <2> QED BY <2>2 DEF IInv, Books, PlatformTrue
<1>3. /\ Extends(platform, platform') /\ arrivals <= arrivals' /\ ledger \subseteq ledger'
      /\ LedgerTrue(ledger', platform') /\ DOMAIN platform' \ DOMAIN platform = {}
  BY <1>1 DEF Extends, IInv, Books
<1>4. CallTrue(k2, platform', ledger', arrivals')
  OBVIOUS
<1> QED BY <1>2, <1>3, <1>4, OneCallMoves

\* A refused request preserves the invariant.
LEMMA Refusal ==
  ASSUME IInv, NEW c \in Calls, NEW status \in Statuses,
         calls' = [calls EXCEPT ![c] = Answered(status)],
         arrivals' = arrivals + 1, UNCHANGED <<ledger, platform>>, Bounds'
  PROVE  IInv'
<1>1. CallTrue(Answered(status), platform, ledger, arrivals + 1) /\ Answered(status).pc = "idle"
  <2>1. Idles(Answered(status))
    BY DEF Idles
  <2> QED BY <2>1, IdleIsTrue
<1> QED BY <1>1, Arrival

\* A request that passed the ceiling preserves the invariant, if what restrictPool leaves of its
\* pool is declared whenever it is restricted.
LEMMA AdmitStep ==
  ASSUME IInv, NEW c \in Calls, NEW q \in Requests, NEW pool, NEW restricted,
         pool \subseteq CandidateRec, IsFiniteSet(pool),
         RestrictedCall(q) => \A x \in RestrictPool(pool, restricted) : Declares(q, x.model),
         arrivals' = arrivals + 1, UNCHANGED <<ledger, platform>>, Bounds',
         Admit(c, q, pool, restricted)
  PROVE  IInv'
<1> DEFINE inside == RestrictPool(pool, restricted)
<1>1. CASE inside = {}
  <2>1. calls' = [calls EXCEPT ![c] = Answered("502")]
    BY <1>1 DEF Admit
  <2> QED BY <2>1, Refusal DEF Statuses
<1>2. CASE inside # {}
  <2>1. PICK order \in TryOrders(inside) :
          calls' = [calls EXCEPT ![c] =
                    [IdleCall EXCEPT !.pc = "trying", !.request = q, !.no = arrivals',
                                     !.todo = order]]
    BY <1>2 DEF Admit
  <2>2. inside \in SUBSET pool
    BY DEF RestrictPool
  <2>3. inside \in SUBSET CandidateRec /\ IsFiniteSet(inside)
    BY <2>2, FS_Subset
  <2> HIDE DEF inside
  <2>4. order \in Seq(CandidateRec) /\ \A i \in DOMAIN order : order[i] \in inside
    BY <2>3, Orders
  <2> DEFINE n == arrivals + 1
             k2 == [IdleCall EXCEPT !.pc = "trying", !.request = q, !.no = n, !.todo = order]
  <2>5. calls' = [calls EXCEPT ![c] = k2]
    BY <2>1
  <2>6. arrivals \in Nat /\ n \in Nat /\ n \in 1..n
    BY CallFacts
  <2>7. IdleCall \in CallRec /\ ~IdleCall.lost /\ IdleCall.rows = <<>> /\ IdleCall.sent = <<>>
        /\ IdleCall.attempts = <<>>
    <3>1. Idles(IdleCall)
      BY DEF Idles
    <3> QED BY <3>1, IdleIs
  <2> HIDE DEF n
  <2>8. /\ k2 \in CallRec /\ k2.pc = "trying" /\ k2.request = q /\ k2.no = n /\ k2.todo = order
        /\ k2.rows = <<>> /\ k2.sent = <<>> /\ k2.attempts = <<>>
    BY <2>4, <2>6, <2>7 DEF CallRec
  <2>9. ~k2.lost
    BY <2>7 DEF CallRec
  <2> HIDE DEF k2
  <2>10. Single(k2)
    BY <2>8, <2>9 DEF Single
  <2>11. Inside(k2)
    <3>1. RestrictedCall(q) => \A i \in DOMAIN order : Declares(q, order[i].model)
      BY <2>4 DEF inside
    <3> QED BY <2>8, <3>1 DEF Inside
  <2>12. Accounted(k2, platform) /\ RowsTrue(k2, platform) /\ Owed(k2, platform, ledger)
    BY <2>8 DEF Accounted, RowsTrue, Owed
  <2>13. Numbered(k2, platform, n)
    <3>1. \A id \in DOMAIN platform : id[1] \in Nat /\ id[1] <= arrivals
      BY DEF IInv, Books, PlatformTrue, Ids
    <3>2. \A id \in DOMAIN platform : id[1] # n
      BY <2>6, <3>1 DEF n
    <3> QED BY <2>6, <2>8, <3>2 DEF Numbered
  <2>14. CallTrue(k2, platform, ledger, n)
    BY <2>8, <2>10, <2>11, <2>12, <2>13 DEF CallTrue
  <2> QED BY <2>5, <2>8, <2>14, Arrival DEF n
<1> QED BY <1>1, <1>2

\* Whatever overBudget says, and read or not, the invariant is preserved.
LEMMA BudgetedStep ==
  ASSUME IInv, NEW c \in Calls, NEW q \in Requests, NEW pool, NEW restricted,
         pool \subseteq CandidateRec, IsFiniteSet(pool),
         RestrictedCall(q) => \A x \in RestrictPool(pool, restricted) : Declares(q, x.model),
         Arrives(c, q), Budgeted(c, q, pool, restricted)
  PROVE  IInv'
<1>1. arrivals' = arrivals + 1 /\ UNCHANGED <<ledger, platform>>
  BY DEF Arrives
<1>2. Bounds'
  <2>1. faults' = faults \/ (faults < MaxFaults /\ faults' = faults + 1)
    BY DEF Budgeted
  <2>2. arrivals < MaxArrivals /\ degraded' = degraded
    BY DEF Arrives
  <2> QED BY <1>1, <2>1, <2>2, BoundsAssumption DEF IInv, Bounds
<1>3. CASE calls' = [calls EXCEPT ![c] = Answered("402")]
  BY <1>1, <1>2, <1>3, Refusal DEF Statuses
<1>4. CASE Admit(c, q, pool, restricted)
  BY <1>1, <1>2, <1>4, AdmitStep
<1> QED BY <1>3, <1>4 DEF Budgeted

\* POST /decide: no candidate is marked in-network, so a restricted request is refused.
LEMMA ArriveDecideStep ==
  ASSUME IInv, NEW c \in Calls, NEW q \in Requests, ArriveDecide(c, q)
  PROVE  IInv'
<1>1. q.pool \subseteq CandidateRec /\ IsFiniteSet(q.pool) /\ \A x \in q.pool : ~x.inNetwork
  BY RequestsAssumption DEF CandidateRec
<1>2. RestrictedCall(q) => \A x \in RestrictPool(q.pool, q.restricted) : Declares(q, x.model)
  BY <1>1 DEF ArriveDecide, RestrictedCall, RestrictPool
<1> QED BY <1>1, <1>2, BudgetedStep DEF ArriveDecide

\* The OpenAI doors: the marks are the profile's own, so restrictPool leaves what it declares.
LEMMA ArriveChatStep ==
  ASSUME IInv, NEW c \in Calls, NEW q \in Requests, ArriveChat(c, q)
  PROVE  IInv'
<1> DEFINE resolved == ResolveProfile(q.profile)
<1>1. Arrives(c, q) /\ q.door # "decide"
  BY DEF ArriveChat
<1>2. CASE Resolves(q.profile)
  <2>1. Budgeted(c, q, resolved.candidates, resolved.restricted)
    BY <1>2 DEF ArriveChat, Resolves
  <2>2. /\ resolved.candidates \subseteq CandidateRec /\ IsFiniteSet(resolved.candidates)
        /\ \E i \in DOMAIN Bundle :
              /\ Bundle[i].profile = q.profile
              /\ \A x \in resolved.candidates :
                        x.inNetwork <=> Provider[x.model] \in Bundle[i].inNetwork
    BY <1>2, Resolved
  <2>3. RestrictedCall(q) <=> resolved.restricted
    BY <1>1, <1>2 DEF RestrictedCall, Resolves
  <2> HIDE DEF resolved
  <2>4. resolved.restricted =>
          \A x \in RestrictPool(resolved.candidates, resolved.restricted) : Declares(q, x.model)
    BY <1>1, <2>2 DEF RestrictPool, Declares
  <2> QED BY <1>1, <2>1, <2>2, <2>3, <2>4, BudgetedStep
<1>3. CASE ~Resolves(q.profile)
  <2>1. PICK status \in {"404", "403"} : calls' = [calls EXCEPT ![c] = Answered(status)]
    BY <1>3 DEF ArriveChat, Resolves
  <2>2. /\ arrivals' = arrivals + 1 /\ arrivals < MaxArrivals
        /\ UNCHANGED <<ledger, platform, faults, degraded>>
    BY <1>3 DEF ArriveChat, Arrives, Resolves
  <2>3. Bounds'
    BY <2>2, BoundsAssumption DEF IInv, Bounds
  <2>4. status \in Statuses
    BY DEF Statuses
  <2> QED BY <2>1, <2>2, <2>3, <2>4, Refusal
<1> QED BY <1>2, <1>3

-----------------------------------------------------------------------------
(* The invariant holds. *)

\* The invariant holds initially, whatever was recorded before.
LEMMA InitHolds == Init => IInv
<1> SUFFICES ASSUME Init PROVE IInv
  OBVIOUS
<1>1. PICK past \in SUBSET Past :
        /\ platform = [id \in {<<0, p.model, 0>> : p \in past} |->
                         [kind |-> "generated", model |-> id[2], of |-> id, key |-> NoKey,
                          usage |-> (CHOOSE p \in past : p.model = id[2]).usage]]
        /\ ledger = {Entry(p.run, p.model, p.usage, CostUSD(p.model, p.usage),
                           RequestId(<<0, p.model, 0>>), NoId, FALSE, <<0, p.model, 0>>) :
                        p \in past}
  BY DEF Init
<1>2. arrivals = 0 /\ faults = 0 /\ degraded = {} /\ calls = [c \in Calls |-> IdleCall]
  BY DEF Init
<1>3. Bounds
  BY <1>2, BoundsAssumption DEF Bounds
<1>4. ASSUME NEW p \in past
      PROVE  LET id == <<0, p.model, 0>>
             IN  /\ id \in DOMAIN platform /\ id \in Ids /\ id[1] = 0 /\ id[2] = p.model
                 /\ platform[id].model = p.model /\ platform[id].usage = p.usage
                 /\ platform[id].of = id /\ p.usage \in UsageRec
  <2> DEFINE id == <<0, p.model, 0>>
  <2>1. p.model \in Models /\ p.usage \in UsageRec
    BY PastAssumption DEF UsageRec
  <2>2. id \in DOMAIN platform /\ id \in Ids /\ id[1] = 0 /\ id[2] = p.model
    BY <1>1, <2>1 DEF Ids
  <2>3. platform[id] = [kind |-> "generated", model |-> p.model, of |-> id, key |-> NoKey,
                        usage |-> (CHOOSE x \in past : x.model = p.model).usage]
    BY <1>1, <2>2
  <2>4. (CHOOSE x \in past : x.model = p.model) = p
    BY PastAssumption
  <2> HIDE DEF id
  <2>6. platform[id] = [kind |-> "generated", model |-> p.model, of |-> id, key |-> NoKey,
                        usage |-> p.usage]
    BY <2>3, <2>4
  <2>5. platform[id].model = p.model /\ platform[id].usage = p.usage /\ platform[id].of = id
    BY <2>6
  <2> QED BY <2>1, <2>2, <2>5 DEF id
<1>5. PlatformTrue(platform, arrivals)
  <2>1. ASSUME NEW id \in DOMAIN platform PROVE \E p \in past : id = <<0, p.model, 0>>
    BY <1>1
  <2>2. ASSUME NEW id \in DOMAIN platform
        PROVE  /\ id \in Ids /\ id[1] <= arrivals /\ platform[id].model = id[2]
               /\ platform[id].usage \in UsageRec /\ platform[id].of \in Ids
    <3>1. PICK p \in past : id = <<0, p.model, 0>>
      BY <2>1
    <3>2. /\ id \in Ids /\ id[1] = 0 /\ id[2] = p.model
          /\ platform[id].model = p.model /\ platform[id].usage = p.usage
          /\ platform[id].of = id /\ p.usage \in UsageRec
      BY <1>4, <3>1
    <3> QED BY <1>2, <3>2
  <2> QED BY <2>2 DEF PlatformTrue
<1>6. LedgerTrue(ledger, platform)
  <2>1. ASSUME NEW e \in ledger PROVE RowTrue(e, platform)
    <3> DEFINE no == FALSE
    <3>1. PICK p \in past : e = Entry(p.run, p.model, p.usage, CostUSD(p.model, p.usage),
                           RequestId(<<0, p.model, 0>>), NoId, no, <<0, p.model, 0>>)
      BY <1>1
    <3>2. no \in BOOLEAN
      OBVIOUS
    <3> DEFINE id == <<0, p.model, 0>>
    <3>3. /\ id \in DOMAIN platform /\ p.model = id[2] /\ platform[id].usage = p.usage
          /\ p.usage \in UsageRec
      BY <1>4
    <3> DEFINE u == p.usage
               m == p.model
               run == p.run
               w == RequestId(id)
    <3>4. Reported(id[2], u, platform[id].usage) /\ id \in DOMAIN platform /\ m = id[2]
      BY <3>3 DEF Reported, UsageRec
    <3>5. run \in Runs
      BY DEF Runs
    <3>6. e = Entry(run, m, u, CostUSD(m, u), w, NoId, no, id) /\ w \in {RequestId(id), NoId}
      BY <3>1
    <3> HIDE DEF no, id, u, m, run, w
    <3> QED BY <1>5, <3>2, <3>4, <3>5, <3>6, PricedRow
  <2> QED BY <2>1 DEF LedgerTrue
<1>7. CallTrue(IdleCall, platform, ledger, arrivals) /\ IdleCall.pc = "idle"
  <2>1. Idles(IdleCall)
    BY DEF Idles
  <2> QED BY <2>1, IdleIsTrue
<1>8. AllTrue(calls, platform, ledger, arrivals) /\ Apart(calls) /\ calls \in [Calls -> CallRec]
  BY <1>2, <1>7 DEF AllTrue, Apart, CallTrue
<1> QED BY <1>3, <1>5, <1>6, <1>8 DEF IInv, Books

\* Every step preserves the invariant.
LEMMA StepHolds ==
  ASSUME IInv, [Next]_vars
  PROVE  IInv'
<1>1. ASSUME NEW c \in Calls, Step(c) PROVE IInv'
  BY <1>1, SkipStep, FailsStep, AnswerGetsLostStep, AnswersStep, ExhaustedStep,
     StreamBeginsStep,
     StreamEndsStep, StreamBreaksStep, RecordRowStep, RespondStep DEF Step
<1>2. ASSUME NEW c \in Calls, NEW q \in Requests, ArriveDecide(c, q) \/ ArriveChat(c, q)
      PROVE  IInv'
  BY <1>2, ArriveDecideStep, ArriveChatStep
<1>3. ASSUME NEW m \in Scored, Report(m) PROVE IInv'
  BY <1>3, ReportStep
<1>4. CASE UNCHANGED vars
  <2>1. UNCHANGED <<calls, ledger, platform, degraded, arrivals, faults>>
    BY <1>4 DEF vars
  <2> QED BY <2>1 DEF IInv, Books, Bounds
<1> QED BY <1>1, <1>2, <1>3, <1>4 DEF Next

\* The inductive invariant of the Model Gateway.
THEOREM Invariance == Spec => []IInv
BY InitHolds, StepHolds, PTL DEF Spec

-----------------------------------------------------------------------------
(* Sums over finite sets.  A sum of naturals is the number of points under *)
(* its graph, so that what is known of finite sets applies to it; a sum    *)
(* written with the fold of the community modules is that number.          *)

\* A family of subsets of a finite set has a smallest member.
LEMMA SmallestSubset ==
  ASSUME NEW S, IsFiniteSet(S), NEW F, F \subseteq SUBSET S, F # {}
  PROVE  \E t \in F : \A u \in F : ~(u \subseteq t /\ u # t)
<1>1. F \subseteq FiniteSubsetsOf(S)
  BY FS_Subset DEF FiniteSubsetsOf
<1>2. PICK t \in F : \A u \in F : ~(<<u, t>> \in StrictSubsetOrdering(S))
  BY <1>1, FS_StrictSubsetOrderingWellFounded, WFMin
<1>3. ASSUME NEW u \in F PROVE ~(u \subseteq t /\ u # t)
  BY <1>2 DEF StrictSubsetOrdering
<1> QED BY <1>3

\* Finitely many naturals are bounded.
LEMMA BoundOf ==
  ASSUME NEW I, IsFiniteSet(I), NEW w \in [I -> Nat]
  PROVE  \E m \in Nat : \A i \in I : w[i] <= m
<1> DEFINE Bounded(J) == \E m \in Nat : \A i \in J : w[i] <= m
           F == {J \in SUBSET I : ~Bounded(J)}
<1>1. SUFFICES ASSUME ~Bounded(I) PROVE FALSE
  OBVIOUS
<1>2. F \subseteq SUBSET I /\ F # {}
  BY <1>1
<1>3. PICK t \in F : \A u \in F : ~(u \subseteq t /\ u # t)
  <2> HIDE DEF F, Bounded
  <2> QED BY <1>2, SmallestSubset
<1>4. t # {}
  <2>1. Bounded({})
    OBVIOUS
  <2> QED BY <2>1
<1>5. PICK x \in t : TRUE
  BY <1>4
<1>6. Bounded(t \ {x})
  <2>1. t \ {x} \in SUBSET I /\ t \ {x} \subseteq t /\ t \ {x} # t
    BY <1>5
  <2>2. t \ {x} \notin F
    BY <1>3, <2>1
  <2> QED BY <2>1, <2>2
<1>7. PICK m \in Nat : \A i \in t \ {x} : w[i] <= m
  BY <1>6
<1>8. PICK n \in Nat : m <= n /\ w[x] <= n
  <2>1. w[x] \in Nat
    OBVIOUS
  <2>2. CASE w[x] <= m
    BY <2>2
  <2>3. CASE m <= w[x]
    BY <2>1, <2>3
  <2> QED BY <2>1, <2>2, <2>3
<1>9. \A i \in t : w[i] <= n
  <2> TAKE i \in t
  <2>1. w[i] \in Nat
    OBVIOUS
  <2> QED BY <1>7, <1>8, <2>1
<1>10. Bounded(t)
  BY <1>9
<1> QED BY <1>10

\* A finite set of naturals that is not empty has a largest member, which is its Max.
LEMMA LargestOf ==
  ASSUME NEW S, IsFiniteSet(S), \A x \in S : x \in Nat, S # {}
  PROVE  Max(S) \in S /\ \A y \in S : y <= Max(S)
<1> DEFINE Has(J) == \E x \in J : \A y \in J : y <= x
           F == {J \in SUBSET S : J # {} /\ ~Has(J)}
<1>1. Has(S)
  <2>1. SUFFICES ASSUME ~Has(S) PROVE FALSE
    OBVIOUS
  <2>2. F \subseteq SUBSET S /\ F # {}
    BY <2>1
  <2>3. PICK t \in F : \A u \in F : ~(u \subseteq t /\ u # t)
    <3> HIDE DEF F, Has
    <3> QED BY <2>2, SmallestSubset
  <2>4. PICK x \in t : TRUE
    OBVIOUS
  <2>5. CASE t \ {x} = {}
    <3>1. \A y \in t : y <= x
      BY <2>5
    <3> QED BY <3>1, <2>4
  <2>6. CASE t \ {x} # {}
    <3>1. Has(t \ {x})
      <4>1. t \ {x} \in SUBSET S /\ t \ {x} \subseteq t /\ t \ {x} # t
        BY <2>4
      <4>2. t \ {x} \notin F
        BY <2>3, <4>1
      <4> QED BY <2>6, <4>1, <4>2
    <3>2. PICK z \in t \ {x} : \A y \in t \ {x} : y <= z
      BY <3>1
    <3>3. x \in Nat /\ z \in Nat /\ \A y \in t : y \in Nat
      OBVIOUS
    <3>4. CASE x <= z
      <4>1. \A y \in t : y <= z
        BY <3>2, <3>4
      <4> QED BY <4>1, <3>2
    <3>5. CASE z <= x
      <4>1. \A y \in t : y <= x
        BY <3>2, <3>3, <3>5
      <4> QED BY <4>1, <2>4
    <3> QED BY <3>3, <3>4, <3>5
  <2> QED BY <2>5, <2>6
<1>2. PICK x \in S : \A y \in S : y <= x
  BY <1>1
<1>3. x \in S /\ \A y \in S : x >= y
  BY <1>2
<1>4. Max(S) \in S /\ \A y \in S : Max(S) >= y
  BY <1>3 DEF Max
<1> QED BY <1>4

\* The points under the graph of w, and their number.
Area(w) == UNION {{i} \X (1..w[i]) : i \in DOMAIN w}
SumOf(w) == Cardinality(Area(w))

\* What is in the area.
LEMMA AreaIs ==
  ASSUME NEW I, NEW w \in [I -> Nat]
  PROVE  /\ \A i, k : <<i, k>> \in Area(w) <=> i \in I /\ k \in Nat /\ 1 <= k /\ k <= w[i]
         /\ \A p \in Area(w) : p[1] \in I /\ p[2] \in Nat /\ 1 <= p[2] /\ p[2] <= w[p[1]] /\ p = <<p[1], p[2]>>
<1>1. DOMAIN w = I /\ \A i \in I : w[i] \in Nat
  OBVIOUS
<1>2. \A p : p \in Area(w) <=> \E i \in I : p \in {i} \X (1..w[i])
  BY <1>1 DEF Area
<1>3. ASSUME NEW i, NEW k
      PROVE  <<i, k>> \in Area(w) <=> i \in I /\ k \in Nat /\ 1 <= k /\ k <= w[i]
  <2>1. <<i, k>> \in Area(w) <=> \E j \in I : i = j /\ k \in 1..w[j]
    BY <1>2
  <2> QED BY <1>1, <2>1
<1>4. ASSUME NEW p \in Area(w)
      PROVE  p[1] \in I /\ p[2] \in Nat /\ 1 <= p[2] /\ p[2] <= w[p[1]] /\ p = <<p[1], p[2]>>
  <2>1. PICK j \in I : p \in {j} \X (1..w[j])
    BY <1>2
  <2>2. p = <<p[1], p[2]>> /\ p[1] = j /\ p[2] \in 1..w[j]
    BY <2>1
  <2> QED BY <1>1, <2>2
<1> QED BY <1>3, <1>4

\* The sum of finitely many naturals is a natural.
LEMMA SumIsNat ==
  ASSUME NEW I, IsFiniteSet(I), NEW w \in [I -> Nat]
  PROVE  IsFiniteSet(Area(w)) /\ SumOf(w) \in Nat
<1>1. PICK m \in Nat : \A i \in I : w[i] <= m
  BY BoundOf
<1>2. IsFiniteSet(I \X (1..m))
  <2>1. IsFiniteSet(1..m)
    BY <1>1, FS_Interval
  <2> QED BY <2>1, FS_Product
<1>3. Area(w) \subseteq I \X (1..m)
  <2>1. ASSUME NEW p \in Area(w) PROVE p \in I \X (1..m)
    <3>1. p[1] \in I /\ p[2] \in Nat /\ 1 <= p[2] /\ p[2] <= w[p[1]] /\ p = <<p[1], p[2]>>
      BY AreaIs
    <3>2. w[p[1]] \in Nat /\ w[p[1]] <= m
      BY <1>1, <3>1
    <3>3. p[2] \in 1..m
      BY <3>1, <3>2
    <3> QED BY <3>1, <3>3
  <2> QED BY <2>1
<1>4. IsFiniteSet(Area(w))
  BY <1>2, <1>3, FS_Subset
<1> QED BY <1>4, FS_CardinalityType DEF SumOf

\* Every summand at most m: the sum is at most m for each.
LEMMA SumIsBounded ==
  ASSUME NEW I, IsFiniteSet(I), NEW w \in [I -> Nat], NEW m \in Nat, \A i \in I : w[i] <= m
  PROVE  SumOf(w) <= Cardinality(I) * m
<1>1. IsFiniteSet(1..m) /\ Cardinality(1..m) = m
  BY FS_Interval
<1>2. IsFiniteSet(I \X (1..m)) /\ Cardinality(I \X (1..m)) = Cardinality(I) * m
  BY <1>1, FS_Product
<1>3. ASSUME NEW p \in Area(w) PROVE p \in I \X (1..m)
  <2>1. p[1] \in I /\ p[2] \in Nat /\ 1 <= p[2] /\ p[2] <= w[p[1]] /\ p = <<p[1], p[2]>>
    BY AreaIs
  <2>2. w[p[1]] \in Nat /\ w[p[1]] <= m
    BY <2>1
  <2>3. p[2] \in 1..m
    BY <2>1, <2>2
  <2> QED BY <2>1, <2>3
<1>4. Area(w) \in SUBSET (I \X (1..m))
  BY <1>3
<1> QED BY <1>2, <1>4, FS_Subset DEF SumOf

\* Summands carried into those of another sum, each to one at least as large.
LEMMA SumIsCarried ==
  ASSUME NEW I, NEW w \in [I -> Nat], NEW J, IsFiniteSet(J), NEW v \in [J -> Nat],
         NEW f \in [I -> J], \A i, j \in I : f[i] = f[j] => i = j,
         \A i \in I : w[i] <= v[f[i]]
  PROVE  SumOf(w) <= SumOf(v)
<1> DEFINE g == [p \in Area(w) |-> <<f[p[1]], p[2]>>]
<1>1. ASSUME NEW p \in Area(w) PROVE <<f[p[1]], p[2]>> \in Area(v)
  <2>1. p[1] \in I /\ p[2] \in Nat /\ 1 <= p[2] /\ p[2] <= w[p[1]]
    BY AreaIs
  <2>2. w[p[1]] \in Nat /\ v[f[p[1]]] \in Nat /\ w[p[1]] <= v[f[p[1]]] /\ f[p[1]] \in J
    BY <2>1
  <2>3. p[2] <= v[f[p[1]]]
    BY <2>1, <2>2
  <2> QED BY <2>1, <2>2, <2>3, AreaIs
<1>2. g \in [Area(w) -> Area(v)]
  BY <1>1
<1>3. ASSUME NEW p \in Area(w), NEW q \in Area(w), g[p] = g[q] PROVE p = q
  <2>1. <<f[p[1]], p[2]>> = <<f[q[1]], q[2]>>
    BY <1>3
  <2>2. p[1] \in I /\ q[1] \in I /\ p = <<p[1], p[2]>> /\ q = <<q[1], q[2]>>
    BY AreaIs
  <2>3. f[p[1]] = f[q[1]] /\ p[2] = q[2]
    BY <2>1
  <2>4. p[1] = q[1]
    BY <2>2, <2>3
  <2> QED BY <2>2, <2>3, <2>4
<1> HIDE DEF g
<1>4. g \in Injection(Area(w), Area(v))
  BY <1>2, <1>3, Zenon DEF Injection, IsInjective
<1>5. IsFiniteSet(Area(v))
  BY SumIsNat
<1> QED BY <1>4, <1>5, FS_Injection DEF SumOf

\* One summand taken out.
LEMMA SumSplits ==
  ASSUME NEW I, IsFiniteSet(I), NEW w \in [I -> Nat], NEW a \in I
  PROVE  SumOf(w) = w[a] + SumOf([i \in I \ {a} |-> w[i]])
<1> DEFINE rest == [i \in I \ {a} |-> w[i]]
           one == {a} \X (1..w[a])
<1>1. w[a] \in Nat /\ rest \in [I \ {a} -> Nat] /\ IsFiniteSet(I \ {a})
  BY FS_RemoveElement
<1>2. IsFiniteSet(one) /\ Cardinality(one) = w[a]
  <2>1. IsFiniteSet({a}) /\ Cardinality({a}) = 1
    BY FS_Singleton
  <2>2. IsFiniteSet(1..w[a]) /\ Cardinality(1..w[a]) = w[a]
    BY <1>1, FS_Interval
  <2>3. IsFiniteSet(one) /\ Cardinality(one) = Cardinality({a}) * Cardinality(1..w[a])
    BY <2>1, <2>2, FS_Product
  <2> QED BY <1>1, <2>1, <2>2, <2>3
<1>3. IsFiniteSet(Area(rest)) /\ Cardinality(Area(rest)) \in Nat
  BY <1>1, SumIsNat, FS_CardinalityType
<1>4. Area(w) = one \cup Area(rest)
  <2>1. ASSUME NEW p \in Area(w) PROVE p \in one \cup Area(rest)
    <3>1. p[1] \in I /\ p[2] \in Nat /\ 1 <= p[2] /\ p[2] <= w[p[1]] /\ p = <<p[1], p[2]>>
      BY AreaIs
    <3>2. CASE p[1] = a
      <4>1. p[2] \in 1..w[a]
        BY <1>1, <3>1, <3>2
      <4> QED BY <3>1, <3>2, <4>1
    <3>3. CASE p[1] # a
      <4>1. p[1] \in I \ {a} /\ p[2] <= rest[p[1]]
        BY <3>1, <3>3
      <4>2. <<p[1], p[2]>> \in Area(rest)
        BY <1>1, <3>1, <4>1, AreaIs
      <4> QED BY <3>1, <4>2
    <3> QED BY <3>2, <3>3
  <2>2. ASSUME NEW p \in one PROVE p \in Area(w)
    <3>1. p = <<p[1], p[2]>> /\ p[1] = a /\ p[2] \in 1..w[a]
      OBVIOUS
    <3>2. p[2] \in Nat /\ 1 <= p[2] /\ p[2] <= w[a]
      BY <1>1, <3>1
    <3>3. <<a, p[2]>> \in Area(w)
      BY <3>2, AreaIs
    <3> QED BY <3>1, <3>3
  <2>3. ASSUME NEW p \in Area(rest) PROVE p \in Area(w)
    <3>1. p[1] \in I \ {a} /\ p[2] \in Nat /\ 1 <= p[2] /\ p[2] <= rest[p[1]] /\ p = <<p[1], p[2]>>
      BY <1>1, AreaIs
    <3>2. p[2] <= w[p[1]]
      BY <3>1
    <3>3. <<p[1], p[2]>> \in Area(w)
      BY <3>1, <3>2, AreaIs
    <3> QED BY <3>1, <3>3
  <2> HIDE DEF one, rest
  <2> QED BY <2>1, <2>2, <2>3
<1>5. one \cap Area(rest) = {}
  <2>1. ASSUME NEW p \in one, p \in Area(rest) PROVE FALSE
    <3>1. p[1] = a
      OBVIOUS
    <3>2. p[1] \in I \ {a}
      BY <1>1, <2>1, AreaIs
    <3> QED BY <3>1, <3>2
  <2> QED BY <2>1
<1> HIDE DEF one, rest
<1>6. Cardinality(one \cup Area(rest)) = Cardinality(one) + Cardinality(Area(rest)) - Cardinality(one \cap Area(rest))
  BY <1>2, <1>3, FS_Union
<1>7. SumOf(w) = w[a] + SumOf(rest)
  <2>1. Cardinality(one \cap Area(rest)) = 0
    BY <1>5, FS_EmptySet
  <2>2. Cardinality(Area(w)) = w[a] + Cardinality(Area(rest))
    BY <1>1, <1>2, <1>3, <1>4, <1>6, <2>1
  <2> QED BY <2>2 DEF SumOf
<1> QED BY <1>7 DEF rest

\* The sum of no summand.
LEMMA SumOfNothing ==
  ASSUME NEW w, DOMAIN w = {}
  PROVE  SumOf(w) = 0
<1>1. Area(w) = {}
  BY DEF Area
<1> QED BY <1>1, FS_EmptySet DEF SumOf

\* f adds up w over each subset of S, taking the members of one as CHOOSE does.
AddsUp(f, S, w) ==
    /\ f = [s \in SUBSET S |-> f[s]]
    /\ \A s \in SUBSET S :
         f[s] = IF s = {} THEN 0 ELSE w[CHOOSE x \in s : TRUE] + f[s \ {CHOOSE x \in s : TRUE}]

\* There is such an f.
LEMMA FoldExists ==
  ASSUME NEW S, IsFiniteSet(S), NEW w \in [S -> Nat]
  PROVE  AddsUp([s \in SUBSET S |-> SumOf([i \in s |-> w[i]])], S, w)
<1> DEFINE Sub(s) == [i \in s |-> w[i]]
           g == [s \in SUBSET S |-> SumOf(Sub(s))]
<1>1. ASSUME NEW s \in SUBSET S, s # {}, NEW x \in s
      PROVE  SumOf(Sub(s)) = w[x] + SumOf(Sub(s \ {x}))
  <2>1. IsFiniteSet(s) /\ Sub(s) \in [s -> Nat]
    BY FS_Subset
  <2>2. SumOf(Sub(s)) = Sub(s)[x] + SumOf([i \in s \ {x} |-> Sub(s)[i]])
    <3> HIDE DEF Sub
    <3> QED BY <2>1, SumSplits, ZenonT(60)
  <2>3. [i \in s \ {x} |-> Sub(s)[i]] = Sub(s \ {x}) /\ Sub(s)[x] = w[x]
    OBVIOUS
  <2> HIDE DEF Sub
  <2> QED BY <2>2, <2>3
<1>2. SumOf(Sub({})) = 0
  BY SumOfNothing
<1>3. ASSUME NEW s \in SUBSET S
      PROVE  g[s] = IF s = {} THEN 0 ELSE w[CHOOSE x \in s : TRUE] + g[s \ {CHOOSE x \in s : TRUE}]
  <2>1. CASE s = {}
    BY <1>2, <2>1
  <2>2. CASE s # {}
    <3> DEFINE x == CHOOSE y \in s : TRUE
    <3>1. x \in s
      BY <2>2
    <3> HIDE DEF x
    <3>2. SumOf(Sub(s)) = w[x] + SumOf(Sub(s \ {x})) /\ s \ {x} \in SUBSET S
      BY <1>1, <2>2, <3>1
    <3> HIDE DEF Sub
    <3>3. g[s] = w[x] + g[s \ {x}]
      BY <3>2
    <3> QED BY <2>2, <3>3 DEF x
  <2> QED BY <2>1, <2>2
<1>4. g = [s \in SUBSET S |-> g[s]]
  OBVIOUS
<1>5. AddsUp(g, S, w)
  BY <1>3, <1>4 DEF AddsUp
<1> QED BY <1>5

\* What it gives for S is the sum.
LEMMA FoldIsSum ==
  ASSUME NEW S, IsFiniteSet(S), NEW w \in [S -> Nat], NEW f, AddsUp(f, S, w)
  PROVE  f[S] = SumOf(w)
<1> DEFINE g == [s \in SUBSET S |-> SumOf([i \in s |-> w[i]])]
           Differs == {s \in SUBSET S : f[s] # g[s]}
<1>1. AddsUp(g, S, w)
  BY FoldExists
<1>2. g[S] = SumOf(w)
  <2>1. [i \in S |-> w[i]] = w
    OBVIOUS
  <2> QED BY <2>1
<1> HIDE DEF g
<1>3. Differs = {}
  <2>1. SUFFICES ASSUME Differs # {} PROVE FALSE
    OBVIOUS
  <2>2. Differs \subseteq SUBSET S
    OBVIOUS
  <2>3. PICK t \in Differs : \A u \in Differs : ~(u \subseteq t /\ u # t)
    <3> HIDE DEF Differs
    <3> QED BY <2>1, <2>2, SmallestSubset
  <2> DEFINE x == CHOOSE y \in t : TRUE
  <2>4. t \in SUBSET S /\ f[t] # g[t]
    OBVIOUS
  <2>5. t # {}
    BY <1>1, <2>4 DEF AddsUp
  <2>6. x \in t
    BY <2>5
  <2>7. f[t] = w[x] + f[t \ {x}] /\ g[t] = w[x] + g[t \ {x}]
    BY <1>1, <2>4, <2>5 DEF AddsUp
  <2> HIDE DEF x
  <2>8. t \ {x} \in SUBSET S /\ t \ {x} \subseteq t /\ t \ {x} # t
    BY <2>4, <2>6
  <2>9. t \ {x} \notin Differs
    <3> HIDE DEF Differs
    <3> QED BY <2>3, <2>8
  <2>10. f[t \ {x}] = g[t \ {x}]
    BY <2>8, <2>9
  <2> QED BY <2>4, <2>7, <2>10
<1>4. S \in SUBSET S
  OBVIOUS
<1> QED BY <1>2, <1>3, <1>4

-----------------------------------------------------------------------------
(* What a call can charge. *)

\* The rate that counts is one of the bundle's.
LEMMA RateIs ==
  ASSUME NEW m, HasRate(m)
  PROVE  Rate(m) \in ProfileCandidates
<1> DEFINE last == Max(RatesOf(m))
           j == Max(PricingRates(last, m))
<1>1. ASSUME NEW S, NEW n \in Nat, S \subseteq 1..n, S # {}
      PROVE  Max(S) \in S
  <2>1. IsFiniteSet(S)
    <3> DEFINE T == 1..n
    <3>1. IsFiniteSet(T) /\ S \subseteq T
      BY <1>1, FS_Interval
    <3> HIDE DEF T
    <3> QED BY <3>1, FS_Subset
  <2>2. \A x \in S : x \in Nat
    BY <1>1
  <2> QED BY <1>1, <2>1, <2>2, LargestOf
<1>2. last \in RatesOf(m)
  <2>1. RatesOf(m) \subseteq 1..Len(Bundle) /\ Len(Bundle) \in Nat
    BY BundleAssumption DEF RatesOf
  <2> QED BY <1>1, <2>1 DEF HasRate, PricingTable
<1>3. last \in DOMAIN Bundle /\ PricingRates(last, m) # {}
  BY <1>2 DEF RatesOf
<1>4. Bundle[last].candidates \in Seq(ProfileCandidates)
  <2>1. Bundle[last] \in Profiles
    BY <1>3, BundleAssumption
  <2> QED BY <2>1 DEF Profiles
<1> HIDE DEF last
<1>5. j \in PricingRates(last, m)
  <2>1. PricingRates(last, m) \subseteq DOMAIN Bundle[last].candidates
    BY DEF PricingRates
  <2>2. DOMAIN Bundle[last].candidates = 1..Len(Bundle[last].candidates)
        /\ Len(Bundle[last].candidates) \in Nat
    BY <1>4
  <2> QED BY <1>1, <1>3, <2>1, <2>2
<1>6. j \in DOMAIN Bundle[last].candidates
  BY <1>5 DEF PricingRates
<1>7. Rate(m) = Bundle[last].candidates[j]
  BY DEF HasRate, Rate, PricingTable, last
<1> HIDE DEF j
<1> QED BY <1>4, <1>6, <1>7

\* A cost is a natural number, or unknown.
LEMMA CostIs ==
  ASSUME NEW m, NEW u \in ReportRec
  PROVE  OrZero(CostUSD(m, u)) \in Nat
<1>1. CASE HasRate(m) /\ u.prompt # Nil /\ u.completion # Nil
  <2>1. Rate(m).rateIn \in Nat /\ Rate(m).rateOut \in Nat
    BY <1>1, RateIs DEF ProfileCandidates
  <2>2. u.prompt \in Nat /\ u.completion \in Nat
    BY <1>1 DEF ReportRec, Counter
  <2>3. u.prompt * Rate(m).rateIn \in Nat /\ u.completion * Rate(m).rateOut \in Nat
    <3>1. \A x, y \in Nat : x * y \in Nat
      OBVIOUS
    <3> QED BY <2>1, <2>2, <3>1
  <2>4. u.prompt * Rate(m).rateIn + u.completion * Rate(m).rateOut \in Nat
    BY <2>3
  <2> QED BY <2>4 DEF CostUSD, OrZero
<1>2. CASE ~(HasRate(m) /\ u.prompt # Nil /\ u.completion # Nil)
  BY <1>2 DEF CostUSD, OrZero
<1> QED BY <1>1, <1>2

\* A set of naturals that a finite set indexes, and 0, has a largest member.
LEMMA LargestImage ==
  ASSUME NEW I, IsFiniteSet(I), NEW w \in [I -> Nat]
  PROVE  LET S == {0} \cup {w[i] : i \in I}
         IN  Max(S) \in Nat /\ \A i \in I : w[i] <= Max(S)
<1> DEFINE T == {w[i] : i \in I}
           S == {0} \cup T
<1>1. IsFiniteSet(T)
  <2>1. w \in Surjection(I, T)
    BY DEF Surjection
  <2> QED BY <2>1, FS_Surjection
<1>2. IsFiniteSet(S)
  <2>1. IsFiniteSet({0})
    BY FS_Singleton
  <2> HIDE DEF T
  <2> QED BY <1>1, <2>1, FS_Union
<1>3. S # {} /\ (\A x \in S : x \in Nat) /\ \A i \in I : w[i] \in S
  OBVIOUS
<1> HIDE DEF S
<1>4. Max(S) \in S /\ \A y \in S : y <= Max(S)
  BY <1>2, <1>3, LargestOf
<1>5. Max(S) \in Nat /\ \A i \in I : w[i] <= Max(S)
  BY <1>3, <1>4
<1> QED BY <1>5 DEF S

\* The dearest answer of a model bounds what any of its answers costs.
LEMMA DearestAnswerIs ==
  ASSUME NEW m
  PROVE  /\ DearestAnswer(m) \in Nat
         /\ \A u \in Usages : OrZero(CostUSD(m, u)) <= DearestAnswer(m)
<1> DEFINE w == [u \in Usages |-> OrZero(CostUSD(m, u))]
<1>1. ASSUME NEW u \in Usages PROVE OrZero(CostUSD(m, u)) \in Nat
  <2>1. u \in ReportRec
    BY UsagesAssumption DEF ReportRec, Counter
  <2> QED BY <2>1, CostIs
<1>2. w \in [Usages -> Nat]
  BY <1>1
<1>3. {w[u] : u \in Usages} = {OrZero(CostUSD(m, u)) : u \in Usages}
  OBVIOUS
<1>4. \A u \in Usages : w[u] = OrZero(CostUSD(m, u))
  OBVIOUS
<1> HIDE DEF w
<1>5. /\ Max({0} \cup {w[u] : u \in Usages}) \in Nat
      /\ \A u \in Usages : w[u] <= Max({0} \cup {w[x] : x \in Usages})
  BY <1>2, FiniteAssumption, LargestImage
<1>6. DearestAnswer(m) = Max({0} \cup {w[x] : x \in Usages})
  BY <1>3 DEF DearestAnswer
<1> QED BY <1>4, <1>5, <1>6

\* So it bounds what is recorded of one, for a report is the usage, less than it, or has no price.
LEMMA ReportedCost ==
  ASSUME NEW m, NEW u \in Usages, NEW r, NEW by, Reported(by, r, u)
  PROVE  OrZero(CostUSD(m, r)) <= DearestAnswer(m)
<1>0. u \in UsageRec /\ u \in [prompt : Nat, completion : Nat]
  BY UsagesAssumption DEF UsageRec
<1>1. CASE HasRate(m) /\ r.prompt # Nil /\ r.completion # Nil
  <2>1. r.prompt \in 0..u.prompt /\ r.completion = u.completion
    BY <1>1 DEF Reported
  <2>2. CASE Rate(m).costModel = "token_based"
    <3> DEFINE i == Rate(m).rateIn
               o == Rate(m).rateOut
    <3>1. i \in Nat /\ o \in Nat
      BY <1>1, RateIs DEF ProfileCandidates
    <3>2. u.prompt \in Nat /\ u.completion \in Nat /\ u.prompt # Nil /\ u.completion # Nil
      BY <1>0 DEF Nil
    <3>3. /\ CostUSD(m, r) = r.prompt * i + u.completion * o
          /\ CostUSD(m, u) = u.prompt * i + u.completion * o
      BY <1>1, <2>1, <2>2, <3>2 DEF CostUSD
    <3> HIDE DEF i, o
    <3>4. \A a, b, d \in Nat : a <= b => a * d <= b * d /\ a * d \in Nat /\ b * d \in Nat
      BY SMTT(30)
    <3>5. /\ r.prompt * i <= u.prompt * i /\ r.prompt * i \in Nat /\ u.prompt * i \in Nat
          /\ u.completion * o \in Nat
      BY <2>1, <3>1, <3>2, <3>4
    <3>6. CostUSD(m, r) \in Nat /\ CostUSD(m, u) \in Nat /\ CostUSD(m, r) <= CostUSD(m, u)
      BY <3>3, <3>5
    <3>7. OrZero(CostUSD(m, r)) <= OrZero(CostUSD(m, u))
      BY <3>6 DEF OrZero, Nil
    <3>8. /\ OrZero(CostUSD(m, u)) <= DearestAnswer(m) /\ DearestAnswer(m) \in Nat
          /\ OrZero(CostUSD(m, r)) \in Nat /\ OrZero(CostUSD(m, u)) \in Nat
      BY <3>6, DearestAnswerIs DEF OrZero
    <3> QED BY <3>7, <3>8
  <2>3. CASE Rate(m).costModel # "token_based"
    <3>1. OrZero(CostUSD(m, r)) = 0
      BY <2>3 DEF CostUSD, OrZero
    <3> QED BY <3>1, DearestAnswerIs
  <2> QED BY <2>2, <2>3
<1>2. CASE ~(HasRate(m) /\ r.prompt # Nil /\ r.completion # Nil)
  <2>1. OrZero(CostUSD(m, r)) = 0
    BY <1>2 DEF CostUSD, OrZero
  <2> QED BY <2>1, DearestAnswerIs
<1> QED BY <1>1, <1>2

\* The pool of a request, and the most its candidates can charge together.
LEMMA PoolIs ==
  ASSUME NEW q \in Requests
  PROVE  /\ PoolOf(q) \subseteq CandidateRec /\ IsFiniteSet(PoolOf(q))
         /\ DearestOf(q) = SumOf([x \in PoolOf(q) |-> DearestAnswer(x.model)])
         /\ DearestOf(q) \in Nat
<1>1. PoolOf(q) \subseteq CandidateRec /\ IsFiniteSet(PoolOf(q))
  <2>1. CASE q.door = "decide"
    BY <2>1, RequestsAssumption DEF PoolOf, CandidateRec
  <2>2. CASE q.door # "decide" /\ Resolves(q.profile)
    <3>1. PoolOf(q) = ResolveProfile(q.profile).candidates
      BY <2>2 DEF PoolOf, Resolves
    <3> QED BY <2>2, <3>1, Resolved
  <2>3. CASE q.door # "decide" /\ ~Resolves(q.profile)
    <3>1. PoolOf(q) = {}
      BY <2>3 DEF PoolOf, Resolves
    <3> QED BY <3>1, FS_EmptySet
  <2> QED BY <2>1, <2>2, <2>3
<1> DEFINE S == PoolOf(q)
           w == [x \in S |-> DearestAnswer(x.model)]
<1>2. w \in [S -> Nat]
  BY DearestAnswerIs
<1>3. DearestOf(q) = SumOf(w)
  <2> DEFINE P(it) == it = [s \in SUBSET S |->
                 IF s = {} THEN 0
                 ELSE LET x == CHOOSE y \in s : TRUE IN DearestAnswer(x.model) + it[s \ {x}]]
             f == CHOOSE it : P(it)
  <2>1. DearestOf(q) = f[S]
    BY DEF DearestOf, MapThenSumSet, MapThenFoldSet
  <2>2. ASSUME NEW s \in SUBSET S, s # {}
        PROVE  w[CHOOSE y \in s : TRUE] = DearestAnswer((CHOOSE y \in s : TRUE).model)
    BY <2>2
  <2> HIDE DEF S, w
  <2>3. \E it : P(it)
    <3>1. PICK g : AddsUp(g, S, w)
      BY <1>1, <1>2, FoldExists DEF S
    <3>2. P(g)
      BY <2>2, <3>1, ZenonT(60) DEF AddsUp
    <3> QED BY <3>2
  <2>4. P(f)
    BY <2>3
  <2> HIDE DEF f
  <2>5. AddsUp(f, S, w)
    BY <2>2, <2>4 DEF AddsUp
  <2> QED BY <1>1, <1>2, <2>1, <2>5, FoldIsSum DEF S
<1>4. DearestOf(q) \in Nat
  BY <1>1, <1>2, <1>3, SumIsNat
<1> QED BY <1>1, <1>3, <1>4

\* The dearest call is the dearest of the requests.
LEMMA DearestCallIs ==
  /\ DearestCall \in Nat
  /\ \A q \in Requests : DearestOf(q) <= DearestCall
<1> DEFINE w == [q \in Requests |-> DearestOf(q)]
<1>1. w \in [Requests -> Nat]
  BY PoolIs
<1>2. {w[q] : q \in Requests} = {DearestOf(q) : q \in Requests}
  OBVIOUS
<1>3. \A q \in Requests : w[q] = DearestOf(q)
  OBVIOUS
<1> HIDE DEF w
<1>4. /\ Max({0} \cup {w[q] : q \in Requests}) \in Nat
      /\ \A q \in Requests : w[q] <= Max({0} \cup {w[x] : x \in Requests})
  BY <1>1, FiniteAssumption, LargestImage
<1> QED BY <1>2, <1>3, <1>4 DEF DearestCall

-----------------------------------------------------------------------------
(* What a run has spent, and what the calls under way may still add. *)

Spend(ld, r) == SpendForRun(ld, r).cost

\* The cost of a true row counts for a natural number.
LEMMA RowCostIs ==
  ASSUME NEW pf, NEW n, PlatformTrue(pf, n), NEW e, RowTrue(e, pf)
  PROVE  OrZero(e.cost) \in Nat
<1>1. CASE e.replayOf # NoId
  <2>1. e.cost = 0
    BY <1>1 DEF RowTrue
  <2> QED BY <2>1 DEF OrZero
<1>2. CASE e.replayOf = NoId
  <2>1. e.of \in DOMAIN pf /\ Reported(e.model, e.usage, pf[e.of].usage) /\ e.cost = CostUSD(e.model, e.usage)
    BY <1>2 DEF RowTrue
  <2>2. e.usage \in ReportRec
    BY <2>1, ReportedIsReport DEF PlatformTrue
  <2> QED BY <2>1, <2>2, CostIs
<1> QED BY <1>1, <1>2

\* SpendForRun's sum.
LEMMA SpendIs ==
  ASSUME NEW ld, IsFiniteSet(ld), NEW pf, NEW n, PlatformTrue(pf, n), LedgerTrue(ld, pf), NEW r
  PROVE  LET w == [e \in RowsOf(ld, r) |-> OrZero(e.cost)]
         IN  /\ IsFiniteSet(RowsOf(ld, r)) /\ w \in [RowsOf(ld, r) -> Nat]
             /\ Spend(ld, r) = SumOf(w) /\ Spend(ld, r) \in Nat
<1> DEFINE S == RowsOf(ld, r)
           w == [e \in S |-> OrZero(e.cost)]
<1>1. S \subseteq ld /\ IsFiniteSet(S)
  <2>1. S \subseteq ld
    BY DEF RowsOf
  <2> HIDE DEF S
  <2> QED BY <2>1, FS_Subset
<1>2. \A e \in S : OrZero(e.cost) \in Nat
  BY <1>1, RowCostIs DEF LedgerTrue
<1> HIDE DEF S
<1>3. w \in [S -> Nat]
  BY <1>2
<1>4. Spend(ld, r) = SumOf(w)
  <2> DEFINE P(it) == it = [s \in SUBSET S |->
                 IF s = {} THEN 0
                 ELSE LET x == CHOOSE y \in s : TRUE IN OrZero(x.cost) + it[s \ {x}]]
             f == CHOOSE it : P(it)
  <2>1. Spend(ld, r) = f[S]
    BY DEF Spend, SpendForRun, MapThenSumSet, MapThenFoldSet, S
  <2>2. ASSUME NEW s \in SUBSET S, s # {}
        PROVE  w[CHOOSE y \in s : TRUE] = OrZero((CHOOSE y \in s : TRUE).cost)
    BY <2>2
  <2> HIDE DEF w
  <2>3. \E it : P(it)
    <3>1. PICK g : AddsUp(g, S, w)
      BY <1>1, <1>3, FoldExists
    <3>2. P(g)
      BY <2>2, <3>1, ZenonT(60) DEF AddsUp
    <3> QED BY <3>2
  <2>4. P(f)
    BY <2>3
  <2> HIDE DEF f
  <2>5. AddsUp(f, S, w)
    BY <2>2, <2>4 DEF AddsUp
  <2> QED BY <1>1, <1>3, <2>1, <2>5, FoldIsSum
<1>5. Spend(ld, r) \in Nat
  BY <1>1, <1>3, <1>4, SumIsNat
<1> QED BY <1>1, <1>3, <1>4, <1>5 DEF S

\* One more row adds its cost at most, and only to its own run.
LEMMA SpendGrows ==
  ASSUME NEW ld, IsFiniteSet(ld), NEW pf, NEW n, PlatformTrue(pf, n), LedgerTrue(ld, pf), NEW r,
         NEW e, RowTrue(e, pf)
  PROVE  /\ IsFiniteSet(ld \cup {e})
         /\ Spend(ld \cup {e}, r) <= Spend(ld, r) + OrZero(e.cost)
         /\ e.run # r => Spend(ld \cup {e}, r) = Spend(ld, r)
<1> DEFINE ld2 == ld \cup {e}
           S == RowsOf(ld, r)
           S2 == RowsOf(ld2, r)
           w == [x \in S |-> OrZero(x.cost)]
           w2 == [x \in S2 |-> OrZero(x.cost)]
<1>1. IsFiniteSet(ld2)
  BY FS_AddElement
<1>2. LedgerTrue(ld2, pf)
  BY DEF LedgerTrue
<1>3. OrZero(e.cost) \in Nat
  BY RowCostIs
<1>4. Spend(ld, r) = SumOf(w) /\ Spend(ld, r) \in Nat
  BY SpendIs
<1>5. /\ IsFiniteSet(S2) /\ w2 \in [S2 -> Nat]
      /\ Spend(ld2, r) = SumOf(w2)
  <2> HIDE DEF ld2
  <2> QED BY <1>1, <1>2, SpendIs
<1>6. CASE e \in ld \/ e.run # r
  <2>1. S2 = S
    BY <1>6 DEF RowsOf
  <2>2. Spend(ld2, r) = Spend(ld, r)
    BY <1>4, <1>5, <2>1
  <2> QED BY <1>1, <1>3, <1>4, <2>2
<1>7. CASE e \notin ld /\ e.run = r
  <2>1. e \in S2 /\ S2 \ {e} = S
    BY <1>7 DEF RowsOf
  <2> HIDE DEF S2, S
  <2>2. SumOf(w2) = w2[e] + SumOf([x \in S2 \ {e} |-> w2[x]])
    <3> HIDE DEF w2
    <3> QED BY <1>5, <2>1, SumSplits
  <2>3. [x \in S2 \ {e} |-> w2[x]] = w /\ w2[e] = OrZero(e.cost)
    BY <2>1
  <2>4. Spend(ld2, r) = OrZero(e.cost) + Spend(ld, r)
    BY <1>4, <1>5, <2>2, <2>3
  <2> QED BY <1>1, <1>3, <1>4, <1>7, <2>4
<1> QED BY <1>6, <1>7

\* What an attempt owes, what is left of a row, and what a call may still charge: what it
\* discarded and, for each candidate left, its dearest answer; then its rows.
Owes(a) == IF a.kind = "discarded" THEN OrZero(CostUSD(a.model, a.usage)) ELSE 0
RowCost(R) == IF R = {} THEN 0 ELSE OrZero((CHOOSE e \in R : TRUE).cost)
Bill(k) ==
    IF k.pc = "recording" THEN [i \in DOMAIN k.rows |-> RowCost(k.rows[i])]
    ELSE [i \in 1..(Len(k.attempts) + Len(k.todo)) |->
            IF i <= Len(k.attempts) THEN Owes(k.attempts[i])
            ELSE DearestAnswer(k.todo[i - Len(k.attempts)].model)]

InFlight(k, r) == k.pc # "idle" /\ k.request.run = r
Left(k, r) == IF InFlight(k, r) THEN SumOf(Bill(k)) ELSE 0
Pending(cs, r) == SumOf([c \in Calls |-> Left(cs[c], r)])

\* A place of rows holds one row, of the call's own run, or none.
OneRowEach(k) ==
    \A i \in DOMAIN k.rows : 
        k.rows[i] = {} \/ \E e \in RowRec : k.rows[i] = {e} /\ e.run = k.request.run
Billed(k) == k.pc # "idle" => OneRowEach(k) /\ SumOf(Bill(k)) <= DearestCall

\* What a provider has stored under a key is an answer to this gateway.
Metered(pf) == \A id \in DOMAIN pf : pf[id].key # NoKey => pf[id].usage \in Usages

Active(cs, ld, r) ==
    (\E e \in RowsOf(ld, r) : e.of[1] # 0) \/ \E c \in Calls : InFlight(cs[c], r)
Allowance == Ceiling["costUsd"] + Cardinality(Calls) * DearestCall
Watched(bl) == {r \in RunsNamed \ bl : Ceiling["costUsd"] # Nil}

\* The invariant of the overshoot: what is recorded and what the calls under way can still
\* add stay below the ceiling and one dearest call for each request at a time.
CostInv ==
    /\ IsFiniteSet(ledger) /\ Metered(platform)
    /\ \A c \in Calls : Billed(calls[c])
    /\ \A r \in Watched(blind) :
          Active(calls, ledger, r) => Spend(ledger, r) + Pending(calls, r) < Allowance

\* The bill of a call is a finite family of naturals.
LEMMA BillIs ==
  ASSUME NEW k \in CallRec, OneRowEach(k)
  PROVE  /\ IsFiniteSet(DOMAIN Bill(k)) /\ Bill(k) \in [DOMAIN Bill(k) -> Nat]
         /\ SumOf(Bill(k)) \in Nat
         /\ \A i \in DOMAIN Bill(k) : Bill(k)[i] \in Nat
<1>1. /\ k.attempts \in Seq(AttemptRec) /\ k.todo \in Seq(CandidateRec)
      /\ k.rows \in Seq(SUBSET RowRec)
  BY DEF CallRec
<1>2. CASE k.pc = "recording"
  <2>1. Bill(k) = [i \in DOMAIN k.rows |-> RowCost(k.rows[i])]
    BY <1>2 DEF Bill
  <2>2. IsFiniteSet(DOMAIN k.rows)
    <3>1. DOMAIN k.rows = 1..Len(k.rows) /\ Len(k.rows) \in Nat
      BY <1>1
    <3> QED BY <3>1, FS_Interval
  <2>3. ASSUME NEW i \in DOMAIN k.rows PROVE RowCost(k.rows[i]) \in Nat
    <3>1. CASE k.rows[i] = {}
      BY <3>1 DEF RowCost
    <3>2. CASE k.rows[i] # {}
      <4>1. PICK e \in RowRec : k.rows[i] = {e}
        BY <3>2 DEF OneRowEach
      <4>2. (CHOOSE x \in k.rows[i] : TRUE) = e
        BY <4>1
      <4>3. e.cost \in Costs
        BY DEF RowRec
      <4>4. OrZero(e.cost) \in Nat
        <5>1. CASE e.cost = 0
          BY <5>1 DEF OrZero
        <5>2. CASE \E m \in Models, u \in ReportRec : e.cost = CostUSD(m, u)
          BY <5>2, CostIs
        <5> QED BY <4>3, <5>1, <5>2 DEF Costs
      <4> QED BY <3>2, <4>2, <4>4 DEF RowCost
    <3> QED BY <3>1, <3>2
  <2>4. Bill(k) \in [DOMAIN k.rows -> Nat] /\ DOMAIN Bill(k) = DOMAIN k.rows
    BY <2>1, <2>3
  <2>5. SumOf(Bill(k)) \in Nat
    BY <2>2, <2>4, SumIsNat
  <2> QED BY <2>2, <2>4, <2>5
<1>3. CASE k.pc # "recording"
  <2> DEFINE a == Len(k.attempts)
             t == Len(k.todo)
             I == 1..(a + t)
  <2>0. Bill(k) = [i \in I |-> IF i <= a THEN Owes(k.attempts[i])
                                         ELSE DearestAnswer(k.todo[i - a].model)]
    BY <1>3 DEF Bill
  <2>1. a \in Nat /\ t \in Nat /\ a + t \in Nat
    <3>1. a \in Nat
      BY <1>1
    <3>2. t \in Nat
      BY <1>1
    <3> HIDE DEF a, t
    <3> QED BY <3>1, <3>2
  <2>2. IsFiniteSet(I)
    <3>1. \A n \in Nat : IsFiniteSet(1..n)
      BY FS_Interval
    <3> QED BY <2>1, <3>1
  <2>3. ASSUME NEW i \in I, i <= a PROVE Owes(k.attempts[i]) \in Nat
    <3>1. k.attempts[i] \in AttemptRec
      <4>1. i \in 1..a
        BY <2>1, <2>3
      <4> QED BY <1>1, <4>1
    <3>2. k.attempts[i].usage \in ReportRec
      BY <3>1 DEF AttemptRec
    <3>3. OrZero(CostUSD(k.attempts[i].model, k.attempts[i].usage)) \in Nat
      BY <3>2, CostIs
    <3> QED BY <3>3 DEF Owes
  <2>4. \A m : DearestAnswer(m) \in Nat
    BY DearestAnswerIs
  <2> HIDE DEF I, a
  <2>5. Bill(k) \in [I -> Nat] /\ DOMAIN Bill(k) = I
    BY <2>0, <2>3, <2>4
  <2>6. SumOf(Bill(k)) \in Nat
    BY <2>2, <2>5, SumIsNat
  <2> QED BY <2>2, <2>5, <2>6
<1> QED BY <1>2, <1>3

\* What one call may still charge to a run.
LEMMA LeftIs ==
  ASSUME NEW k \in CallRec, Billed(k), NEW r
  PROVE  Left(k, r) \in Nat /\ Left(k, r) <= DearestCall
<1>1. DearestCall \in Nat
  BY DearestCallIs
<1>2. CASE InFlight(k, r)
  <2>1. SumOf(Bill(k)) \in Nat /\ SumOf(Bill(k)) <= DearestCall
    BY <1>2, BillIs DEF Billed, InFlight
  <2> QED BY <1>2, <2>1 DEF Left
<1>3. CASE ~InFlight(k, r)
  BY <1>1, <1>3 DEF Left
<1> QED BY <1>2, <1>3

\* One call moves: what is recorded and pending grows by no more than what it gave up, or the
\* run was below its ceiling.
LEMMA CostMoves ==
  ASSUME IInv, IInv', CostInv, NEW c \in Calls, NEW k2, calls' = [calls EXCEPT ![c] = k2],
         Billed(k2), IsFiniteSet(ledger'), Metered(platform'), blind \subseteq blind',
         \A r \in Watched(blind') : Active(calls', ledger', r) =>
            \/ /\ Active(calls, ledger, r)
               /\ Spend(ledger', r) + Left(k2, r) <= Spend(ledger, r) + Left(calls[c], r)
            \/ Spend(ledger', r) < Ceiling["costUsd"]
  PROVE  CostInv'
<1>1. calls \in [Calls -> CallRec] /\ calls' \in [Calls -> CallRec] /\ calls'[c] = k2
  BY DEF IInv
<1>2. \A d \in Calls : Billed(calls'[d])
  BY <1>1 DEF CostInv
<1>3. ASSUME NEW r \in Watched(blind'), Active(calls', ledger', r)
      PROVE  Spend(ledger', r) + Pending(calls', r) < Allowance
  <2> DEFINE w == [d \in Calls |-> Left(calls[d], r)]
             w2 == [d \in Calls |-> Left(calls'[d], r)]
             rest == [d \in Calls \ {c} |-> w[d]]
             D == DearestCall
             N == Cardinality(Calls)
  <2>1. w \in [Calls -> Nat]
    BY <1>1, LeftIs DEF CostInv
  <2>2. w2 \in [Calls -> Nat] /\ \A d \in Calls : w2[d] <= D
    BY <1>1, <1>2, LeftIs
  <2>3. IsFiniteSet(Calls) /\ N \in Nat /\ D \in Nat
    BY FiniteAssumption, FS_CardinalityType, DearestCallIs
  <2>4. Spend(ledger, r) \in Nat /\ Spend(ledger', r) \in Nat
    <3>1. Spend(ledger, r) \in Nat
      BY SpendIs DEF CostInv, IInv, Books
    <3>2. PlatformTrue(platform', arrivals') /\ LedgerTrue(ledger', platform')
      BY DEF IInv, Books
    <3> QED BY <3>1, <3>2, SpendIs
  <2>5. Ceiling["costUsd"] \in Nat
    <3>1. Ceiling["costUsd"] # Nil
      BY DEF Watched
    <3> QED BY <3>1, BudgetsAssumption DEF Ceiling, CeilingFromManifest, BudgetNames
  <2>6. CASE Active(calls, ledger, r)
             /\ Spend(ledger', r) + Left(k2, r) <= Spend(ledger, r) + Left(calls[c], r)
    <3>1. r \in Watched(blind)
      BY DEF Watched
    <3>2. Spend(ledger, r) + SumOf(w) < Allowance
      BY <2>6, <3>1 DEF CostInv, Pending
    <3>3. [d \in Calls \ {c} |-> w2[d]] = rest /\ w2[c] = Left(k2, r) /\ w[c] = Left(calls[c], r)
      BY <1>1
    <3> HIDE DEF w, w2
    <3>4. SumOf(w) = w[c] + SumOf(rest)
      BY <2>1, <2>3, SumSplits
    <3>5. SumOf(w2) = w2[c] + SumOf([d \in Calls \ {c} |-> w2[d]])
      BY <2>2, <2>3, SumSplits
    <3>6. SumOf(rest) \in Nat
      <4>1. IsFiniteSet(Calls \ {c}) /\ rest \in [Calls \ {c} -> Nat]
        BY <2>1, <2>3, FS_RemoveElement
      <4> QED BY <4>1, SumIsNat
    <3>7. w[c] \in Nat /\ w2[c] \in Nat
      BY <2>1, <2>2
    <3>8. N * D \in Nat
      <4>1. \A x, y \in Nat : x * y \in Nat
        OBVIOUS
      <4> QED BY <2>3, <4>1
    <3>9. Pending(calls', r) = SumOf(w2)
      BY DEF Pending, w2
    <3>10. Allowance = Ceiling["costUsd"] + N * D
      BY DEF Allowance
    <3> HIDE DEF rest, N, D
    <3>11. SumOf(w2) = w2[c] + SumOf(rest)
      BY <3>3, <3>5
    <3>12. Spend(ledger', r) + w2[c] <= Spend(ledger, r) + w[c]
      BY <2>6, <3>3
    <3> QED BY <2>4, <2>5, <3>2, <3>4, <3>6, <3>7, <3>8, <3>9, <3>10, <3>11, <3>12
  <2>7. CASE Spend(ledger', r) < Ceiling["costUsd"]
    <3>1. SumOf(w2) <= N * D /\ SumOf(w2) \in Nat
      <4> HIDE DEF w2, N, D
      <4>1. SumOf(w2) <= Cardinality(Calls) * D
        BY <2>2, <2>3, SumIsBounded
      <4> QED BY <2>2, <2>3, <4>1, SumIsNat DEF N
    <3>2. N * D \in Nat
      <4>1. \A x, y \in Nat : x * y \in Nat
        OBVIOUS
      <4> QED BY <2>3, <4>1
    <3>3. Pending(calls', r) = SumOf(w2)
      BY DEF Pending
    <3>4. Allowance = Ceiling["costUsd"] + N * D
      BY DEF Allowance
    <3> HIDE DEF w2, N, D
    <3> QED BY <2>4, <2>5, <2>7, <3>1, <3>2, <3>3, <3>4
  <2> QED BY <1>3, <2>6, <2>7
<1> QED BY <1>2, <1>3 DEF CostInv

\* A call under way that goes on with a bill no larger than before.
LEMMA Cheaper ==
  ASSUME IInv, IInv', CostInv, NEW c \in Calls, NEW k2, calls' = [calls EXCEPT ![c] = k2],
         calls[c].pc # "idle", k2.pc # "idle", k2.request = calls[c].request, OneRowEach(k2),
         SumOf(Bill(k2)) <= SumOf(Bill(calls[c])), Metered(platform'), UNCHANGED <<ledger, blind>>
  PROVE  CostInv'
<1>1. calls \in [Calls -> CallRec] /\ calls' \in [Calls -> CallRec] /\ calls'[c] = k2
      /\ \A d \in Calls : d # c => calls'[d] = calls[d]
  BY DEF IInv
<1>2. Billed(calls[c]) /\ OneRowEach(calls[c])
  BY DEF CostInv, Billed
<1>3. SumOf(Bill(k2)) \in Nat /\ SumOf(Bill(calls[c])) \in Nat
  BY <1>1, <1>2, BillIs
<1>4. Billed(k2)
  <2>1. SumOf(Bill(calls[c])) <= DearestCall /\ DearestCall \in Nat
    BY <1>2, DearestCallIs DEF Billed
  <2> QED BY <1>3, <2>1 DEF Billed
<1>5. ASSUME NEW r, Active(calls', ledger', r)
      PROVE  /\ Active(calls, ledger, r)
             /\ Spend(ledger', r) + Left(k2, r) <= Spend(ledger, r) + Left(calls[c], r)
  <2>1. Active(calls, ledger, r)
    BY <1>1, <1>5 DEF Active, InFlight
  <2>2. Left(k2, r) <= Left(calls[c], r) /\ Left(k2, r) \in Nat /\ Left(calls[c], r) \in Nat
    BY <1>3 DEF Left, InFlight
  <2>3. Spend(ledger, r) \in Nat /\ ledger' = ledger
    BY SpendIs DEF CostInv, IInv, Books
  <2>4. Spend(ledger', r) = Spend(ledger, r)
    BY <2>3
  <2> QED BY <2>1, <2>2, <2>3, <2>4
<1> QED BY <1>4, <1>5, CostMoves DEF CostInv

\* One more attempt that owes no more than its model's dearest answer.
LEMMA TriedBill ==
  ASSUME NEW k \in CallRec, k.pc # "recording", k.todo # <<>>, NEW k2, NEW a, Tried(k, k2, a),
         k2.pc # "recording", Owes(a) <= DearestAnswer(a.model), OneRowEach(k), OneRowEach(k2)
  PROVE  SumOf(Bill(k2)) <= SumOf(Bill(k))
<1> DEFINE n == Len(k.attempts)
           t == Len(k.todo)
           I == 1..(n + t)
<1>0. /\ k2 \in CallRec /\ a \in AttemptRec /\ a.model = Head(k.todo).model
      /\ k2.todo = Tail(k.todo) /\ k2.attempts = Append(k.attempts, a)
  BY DEF Tried
<1>1. k.todo \in Seq(CandidateRec) /\ k.attempts \in Seq(AttemptRec)
  BY DEF CallRec
<1>2. /\ n \in Nat /\ t \in Nat /\ t >= 1
      /\ Len(k2.attempts) = n + 1 /\ Len(k2.todo) = t - 1
      /\ k2.attempts[n + 1] = a
      /\ \A i \in 1..n : k2.attempts[i] = k.attempts[i]
      /\ \A i \in 1..(t - 1) : k2.todo[i] = k.todo[i + 1]
      /\ a.model = k.todo[1].model
  BY <1>0, <1>1
<1>3. Bill(k) = [i \in I |-> IF i <= n THEN Owes(k.attempts[i])
                                      ELSE DearestAnswer(k.todo[i - n].model)]
  BY DEF Bill
<1>4. Bill(k2) = [i \in 1..(Len(k2.attempts) + Len(k2.todo)) |->
                    IF i <= Len(k2.attempts) THEN Owes(k2.attempts[i])
                    ELSE DearestAnswer(k2.todo[i - Len(k2.attempts)].model)]
  BY DEF Bill
<1> HIDE DEF n, t
<1>5. 1..(Len(k2.attempts) + Len(k2.todo)) = I
  <2>1. (n + 1) + (t - 1) = n + t
    BY <1>2
  <2> QED BY <1>2, <2>1
<1>6. Bill(k2) = [i \in I |-> IF i <= n + 1 THEN Owes(k2.attempts[i])
                                          ELSE DearestAnswer(k2.todo[i - (n + 1)].model)]
  BY <1>2, <1>4, <1>5
<1>7. /\ DOMAIN Bill(k) = I /\ DOMAIN Bill(k2) = I /\ IsFiniteSet(I)
      /\ Bill(k) \in [I -> Nat] /\ Bill(k2) \in [I -> Nat]
  <2>1. DOMAIN Bill(k) = I /\ DOMAIN Bill(k2) = I
    BY <1>3, <1>6
  <2> HIDE DEF I
  <2> QED BY <1>0, <2>1, BillIs
<1>8. ASSUME NEW i \in I PROVE Bill(k2)[i] <= Bill(k)[i]
  <2>0. Bill(k)[i] \in Nat /\ i \in Nat /\ 1 <= i /\ i <= n + t
    BY <1>2, <1>7
  <2>1. CASE i <= n
    <3>1. i <= n + 1 /\ i \in 1..n
      BY <1>2, <2>0, <2>1
    <3>2. Bill(k2)[i] = Owes(k2.attempts[i]) /\ Bill(k)[i] = Owes(k.attempts[i])
      BY <1>3, <1>6, <2>1, <3>1
    <3> QED BY <1>2, <2>0, <3>1, <3>2
  <2>2. CASE i = n + 1
    <3>1. ~(i <= n) /\ i - n = 1 /\ i <= n + 1
      BY <1>2, <2>2
    <3>2. Bill(k2)[i] = Owes(a) /\ Bill(k)[i] = DearestAnswer(a.model)
      BY <1>2, <1>3, <1>6, <2>2, <3>1
    <3> QED BY <3>2
  <2>3. CASE i > n + 1
    <3>1. ~(i <= n + 1) /\ ~(i <= n) /\ i - (n + 1) \in 1..(t - 1) /\ (i - (n + 1)) + 1 = i - n
      BY <1>2, <2>0, <2>3
    <3>2. /\ Bill(k2)[i] = DearestAnswer(k2.todo[i - (n + 1)].model)
          /\ Bill(k)[i] = DearestAnswer(k.todo[i - n].model)
      BY <1>3, <1>6, <3>1
    <3>3. k2.todo[i - (n + 1)] = k.todo[(i - (n + 1)) + 1]
      BY <1>2, <3>1
    <3> QED BY <2>0, <3>1, <3>2, <3>3
  <2> QED BY <1>2, <2>0, <2>1, <2>2, <2>3
<1> DEFINE f == [i \in I |-> i]
<1>9. f \in [I -> I] /\ (\A i, j \in I : f[i] = f[j] => i = j) /\ \A i \in I : f[i] = i
  OBVIOUS
<1>10. \A i \in I : Bill(k2)[i] <= Bill(k)[f[i]]
  BY <1>8, <1>9
<1> HIDE DEF f, I
<1> QED BY <1>7, <1>9, <1>10, SumIsCarried

-----------------------------------------------------------------------------
(* The steps of a call, and the overshoot. *)

\* The cascade goes on after an attempt that owes no more than its model's dearest answer.
LEMMA TriesCheaper ==
  ASSUME IInv, IInv', CostInv, NEW c \in Calls, Trying(c), NEW k2, NEW a,
         Tried(calls[c], k2, a), Kept(calls[c], k2), Owes(a) <= DearestAnswer(a.model),
         calls' = [calls EXCEPT ![c] = k2], Metered(platform'), UNCHANGED <<ledger, blind>>
  PROVE  CostInv'
<1> DEFINE k == calls[c]
<1>1. k \in CallRec /\ Single(k) /\ k.pc = "trying" /\ k.todo # <<>> /\ k.rows = <<>>
  BY CallFacts DEF Trying, Single
<1>2. k2.pc = "trying" /\ k2.rows = <<>> /\ k2.request = k.request
  BY <1>1 DEF Kept, Tried
<1>3. OneRowEach(k) /\ OneRowEach(k2)
  BY <1>1, <1>2 DEF OneRowEach
<1>4. SumOf(Bill(k2)) <= SumOf(Bill(k))
  BY <1>1, <1>2, <1>3, TriedBill
<1> QED BY <1>1, <1>2, <1>3, <1>4, Cheaper

\* An attempt that was no discarded answer owes nothing.
LEMMA OwesNothing ==
  ASSUME NEW a, a.kind # "discarded"
  PROVE  Owes(a) <= DearestAnswer(a.model)
<1>1. Owes(a) = 0
  BY DEF Owes
<1>2. DearestAnswer(a.model) \in Nat
  BY DearestAnswerIs
<1> QED BY <1>1, <1>2

\* Skip leaves the overshoot bounded.
LEMMA SkipCost ==
  ASSUME IInv, IInv', CostInv, NEW c \in Calls, Skip(c)
  PROVE  CostInv'
<1> DEFINE k2 == Attempted(c, "skipped", NoId, NoUsage)
           a == AttemptOf(c, "skipped", NoId, NoUsage)
<1>1. Trying(c) /\ calls[c].todo # <<>> /\ calls[c] \in CallRec
  BY CallFacts DEF Skip, Trying
<1>2. Tried(calls[c], k2, a) /\ Kept(calls[c], k2)
  BY <1>1, NoUsageIs, AttemptedIs DEF Kinds
<1>3. a.kind = "skipped"
  BY DEF AttemptOf
<1>4. calls' = [calls EXCEPT ![c] = k2] /\ UNCHANGED <<ledger, blind, platform>>
  BY DEF Skip
<1>5. Metered(platform')
  BY <1>4 DEF CostInv
<1> HIDE DEF k2, a
<1>6. Owes(a) <= DearestAnswer(a.model)
  BY <1>3, OwesNothing
<1> QED BY <1>1, <1>2, <1>4, <1>5, <1>6, TriesCheaper

\* Fails leaves the overshoot bounded.
LEMMA FailsCost ==
  ASSUME IInv, IInv', CostInv, NEW c \in Calls, Fails(c)
  PROVE  CostInv'
<1>0. PICK kind \in {"throttled", "error"} :
        calls' = [calls EXCEPT ![c] = Started(c, Attempted(c, kind, NoId, NoUsage))]
  BY DEF Fails, Failures
<1> DEFINE k1 == Attempted(c, kind, NoId, NoUsage)
           k2 == Started(c, k1)
           a == AttemptOf(c, kind, NoId, NoUsage)
<1>1. Trying(c) /\ calls[c].todo # <<>> /\ calls[c] \in CallRec
  BY CallFacts DEF Fails, Callable, Trying
<1>2. Tried(calls[c], k1, a) /\ Kept(calls[c], k1)
  BY <1>1, NoUsageIs, AttemptedIs DEF Kinds
<1>3. a.kind \in {"throttled", "error"}
  BY DEF AttemptOf
<1>4. calls' = [calls EXCEPT ![c] = k2] /\ UNCHANGED <<ledger, blind, platform>>
  BY <1>0 DEF Fails
<1>5. Metered(platform')
  BY <1>4 DEF CostInv
<1> HIDE DEF k1, a
<1>6. Tried(calls[c], k2, a) /\ Kept(calls[c], k2)
  BY <1>2, StartedIs
<1> HIDE DEF k2
<1>7. Owes(a) <= DearestAnswer(a.model)
  BY <1>3, OwesNothing
<1> QED BY <1>1, <1>4, <1>5, <1>6, <1>7, TriesCheaper

\* What a provider adds to its records is within the usages of an answer.
LEMMA DoesMetered ==
  ASSUME IInv, CostInv, NEW c \in Calls, calls[c].pc \in {"trying", "streaming"},
         calls[c].todo # <<>>, NEW kind, NEW usage \in Usages, NEW of, Does(c, kind, usage, of)
  PROVE  Metered(platform') /\ platform'[This(c)].usage \in Usages
<1>1. This(c) \notin DOMAIN platform
  BY ThisIsNew
<1>2. platform' = [id \in DOMAIN platform \cup {This(c)} |->
                    IF id # This(c) THEN platform[id]
                    ELSE [kind |-> kind, model |-> Model(c), usage |-> usage, of |-> of,
                          key |-> calls[c].request.key]]
  BY DEF Does
<1>3. platform'[This(c)].usage = usage
  BY <1>2
<1>4. \A id \in DOMAIN platform : platform'[id] = platform[id]
  BY <1>1, <1>2
<1>5. DOMAIN platform' = DOMAIN platform \cup {This(c)}
  BY <1>2
<1> QED BY <1>3, <1>4, <1>5 DEF Metered, CostInv

\* A replay too: a stored answer is one that this gateway asked for.
LEMMA GeneratesMetered ==
  ASSUME IInv, CostInv, NEW c \in Calls, calls[c].pc \in {"trying", "streaming"},
         calls[c].todo # <<>>, Generates(c)
  PROVE  Metered(platform') /\ platform'[This(c)].usage \in Usages
<1>1. CASE Stored(c) = {}
  <2>1. PICK u \in Usages : Does(c, "generated", u, This(c))
    BY <1>1 DEF Generates
  <2> QED BY <2>1, DoesMetered
<1>2. CASE Stored(c) # {}
  <2>1. PICK id \in Stored(c) : Does(c, "replayed", platform[id].usage, id)
    BY <1>2 DEF Generates
  <2>2. platform[id].usage \in Usages
    BY DEF Stored, CostInv, Metered
  <2> QED BY <2>1, <2>2, DoesMetered
<1> QED BY <1>1, <1>2

\* AnswerGetsLost leaves the overshoot bounded.
LEMMA AnswerGetsLostCost ==
  ASSUME IInv, IInv', CostInv, NEW c \in Calls, AnswerGetsLost(c)
  PROVE  CostInv'
<1> DEFINE k1 == Attempted(c, "error", NoId, NoUsage)
           k2 == Started(c, k1)
           a == AttemptOf(c, "error", NoId, NoUsage)
<1>1. Trying(c) /\ calls[c].todo # <<>> /\ calls[c] \in CallRec /\ calls[c].pc = "trying"
  BY CallFacts DEF AnswerGetsLost, Callable, Trying
<1>2. Tried(calls[c], k1, a) /\ Kept(calls[c], k1)
  BY <1>1, NoUsageIs, AttemptedIs DEF Kinds
<1>3. a.kind = "error"
  BY DEF AttemptOf
<1>4. calls' = [calls EXCEPT ![c] = k2] /\ UNCHANGED <<ledger, blind>>
  BY DEF AnswerGetsLost
<1>5. Metered(platform')
  <2>1. PICK u \in Usages : Does(c, "unanswered", u, This(c))
    BY DEF AnswerGetsLost
  <2> QED BY <1>1, <2>1, DoesMetered
<1> HIDE DEF k1, a
<1>6. Tried(calls[c], k2, a) /\ Kept(calls[c], k2)
  BY <1>2, StartedIs
<1> HIDE DEF k2
<1>7. Owes(a) <= DearestAnswer(a.model)
  BY <1>3, OwesNothing
<1> QED BY <1>1, <1>4, <1>5, <1>6, <1>7, TriesCheaper

\* The rows that a call writes, each against a place of its bill: a call that ends.
LEMMA EndsCheaper ==
  ASSUME IInv, IInv', CostInv, NEW c \in Calls, calls[c].pc \in {"trying", "streaming"},
         NEW k2, calls' = [calls EXCEPT ![c] = k2], k2.pc = "recording",
         k2.request = calls[c].request, OneRowEach(k2), Metered(platform'),
         UNCHANGED <<ledger, blind>>,
         NEW f \in [DOMAIN k2.rows -> DOMAIN Bill(calls[c])],
         \A i, j \in DOMAIN k2.rows : f[i] = f[j] => i = j,
         \A i \in DOMAIN k2.rows : RowCost(k2.rows[i]) <= Bill(calls[c])[f[i]]
  PROVE  CostInv'
<1> DEFINE k == calls[c]
<1>1. k \in CallRec /\ k2 \in CallRec
  <2>1. calls'[c] = k2 /\ calls' \in [Calls -> CallRec]
    BY DEF IInv
  <2> QED BY <2>1, CallFacts
<1>2. OneRowEach(k)
  BY DEF CostInv, Billed
<1>3. IsFiniteSet(DOMAIN Bill(k)) /\ Bill(k) \in [DOMAIN Bill(k) -> Nat]
  BY <1>1, <1>2, BillIs
<1>4. Bill(k2) \in [DOMAIN Bill(k2) -> Nat]
  BY <1>1, BillIs
<1>5. Bill(k2) = [i \in DOMAIN k2.rows |-> RowCost(k2.rows[i])]
  BY DEF Bill
<1>6. DOMAIN Bill(k2) = DOMAIN k2.rows /\ \A i \in DOMAIN k2.rows : Bill(k2)[i] <= Bill(k)[f[i]]
  BY <1>5
<1>7. SumOf(Bill(k2)) <= SumOf(Bill(k))
  BY <1>3, <1>4, <1>6, SumIsCarried
<1> QED BY <1>7, Cheaper

\* A row of its own.
LEMMA RowCostOne == ASSUME NEW e PROVE RowCost({e}) = OrZero(e.cost)
<1>1. (CHOOSE x \in {e} : TRUE) = e
  OBVIOUS
<1> QED BY <1>1 DEF RowCost

\* The bill of a call under way, place by place.
LEMMA BillOf ==
  ASSUME NEW k \in CallRec, k.pc # "recording"
  PROVE  /\ Len(k.attempts) \in Nat /\ DOMAIN k.attempts = 1..Len(k.attempts)
         /\ \A i \in DOMAIN k.attempts : i \in DOMAIN Bill(k) /\ Bill(k)[i] = Owes(k.attempts[i])
         /\ k.todo # <<>> => /\ Len(k.attempts) + 1 \in DOMAIN Bill(k)
                             /\ Bill(k)[Len(k.attempts) + 1] = DearestAnswer(Head(k.todo).model)
<1> DEFINE n == Len(k.attempts)
           t == Len(k.todo)
<1>1. k.todo \in Seq(CandidateRec) /\ k.attempts \in Seq(AttemptRec)
  BY DEF CallRec
<1>2. n \in Nat /\ t \in Nat /\ DOMAIN k.attempts = 1..n
  BY <1>1
<1>3. Bill(k) = [i \in 1..(n + t) |-> IF i <= n THEN Owes(k.attempts[i])
                                           ELSE DearestAnswer(k.todo[i - n].model)]
  BY DEF Bill
<1>4. k.todo # <<>> => t >= 1 /\ Head(k.todo) = k.todo[1]
  BY <1>1
<1> HIDE DEF n, t
<1>5. ASSUME NEW i \in DOMAIN k.attempts
      PROVE  i \in DOMAIN Bill(k) /\ Bill(k)[i] = Owes(k.attempts[i])
  <2>1. i \in 1..(n + t) /\ i <= n
    BY <1>2
  <2> QED BY <1>3, <2>1
<1>6. ASSUME k.todo # <<>>
      PROVE  n + 1 \in DOMAIN Bill(k) /\ Bill(k)[n + 1] = DearestAnswer(Head(k.todo).model)
  <2>1. n + 1 \in 1..(n + t) /\ ~(n + 1 <= n) /\ (n + 1) - n = 1
    BY <1>2, <1>4, <1>6
  <2> QED BY <1>3, <1>4, <1>6, <2>1
<1> QED BY <1>2, <1>5, <1>6 DEF n

\* What recordDiscardedAttempts writes for an attempt is what the attempt owes.
LEMMA DiscardedPlaces ==
  ASSUME NEW run \in Runs, NEW k \in CallRec, NEW pf, NEW n, PlatformTrue(pf, n), Accounted(k, pf),
         NEW D, D = DiscardedEntries(run, k.attempts)
  PROVE  /\ DOMAIN D = DOMAIN k.attempts
         /\ \A i \in DOMAIN D : D[i] = {} \/ \E e \in RowRec : D[i] = {e} /\ e.run = run
         /\ \A i \in DOMAIN D : RowCost(D[i]) <= Owes(k.attempts[i])
<1> DEFINE row(a) == Entry(run, a.model, a.usage, CostUSD(a.model, a.usage), RequestId(a.of),
                           NoId, TRUE, a.of)
<1>1. D = [i \in DOMAIN k.attempts |->
            IF k.attempts[i].kind = "discarded" /\ k.attempts[i].usage # NoUsage
            THEN {row(k.attempts[i])} ELSE {}]
  BY DEF DiscardedEntries, Discarded
<1>2. ASSUME NEW i \in DOMAIN k.attempts, k.attempts[i].kind = "discarded"
      PROVE  LET e == row(k.attempts[i])
             IN  e \in RowRec /\ e.run = run /\ OrZero(e.cost) = Owes(k.attempts[i])
  <2> DEFINE a == k.attempts[i]
  <2>1. a.of \in DOMAIN pf /\ a.model = a.of[2] /\ Reported(a.model, a.usage, pf[a.of].usage)
    BY <1>2 DEF Accounted, AttemptTrue
  <2> DEFINE yes == TRUE
             e == row(a)
  <2>2. e = Entry(run, a.model, a.usage, CostUSD(a.model, a.usage), RequestId(a.of),
                       NoId, yes, a.of)
    OBVIOUS
  <2>3. yes \in BOOLEAN /\ RequestId(a.of) \in {RequestId(a.of), NoId}
    OBVIOUS
  <2>4. e.cost = CostUSD(a.model, a.usage)
    BY <2>2 DEF Entry
  <2>5. OrZero(CostUSD(a.model, a.usage)) = Owes(a)
    BY <1>2 DEF Owes
  <2> HIDE DEF a, yes, e, row
  <2>6. e \in RowRec /\ e.run = run
    BY <2>1, <2>2, <2>3, PricedRow
  <2> QED BY <2>4, <2>5, <2>6 DEF a, e
<1> HIDE DEF row
<1>3. ASSUME NEW i \in DOMAIN k.attempts
      PROVE  /\ D[i] = {} \/ \E e \in RowRec : D[i] = {e} /\ e.run = run
             /\ RowCost(D[i]) <= Owes(k.attempts[i])
  <2>0. Owes(k.attempts[i]) \in Nat
    <3>1. k.attempts[i].usage \in ReportRec
      <4>1. k.attempts \in Seq(AttemptRec)
        BY DEF CallRec
      <4>2. k.attempts[i] \in AttemptRec
        BY <4>1
      <4> QED BY <4>2 DEF AttemptRec
    <3>2. OrZero(CostUSD(k.attempts[i].model, k.attempts[i].usage)) \in Nat
      BY <3>1, CostIs
    <3> QED BY <3>2 DEF Owes
  <2>1. CASE k.attempts[i].kind = "discarded" /\ k.attempts[i].usage # NoUsage
    <3> DEFINE e == row(k.attempts[i])
    <3>1. D[i] = {e}
      BY <1>1, <2>1
    <3>2. e \in RowRec /\ e.run = run /\ OrZero(e.cost) = Owes(k.attempts[i])
      BY <1>2, <2>1
    <3> HIDE DEF e
    <3>3. RowCost(D[i]) = OrZero(e.cost)
      BY <3>1, RowCostOne
    <3> QED BY <2>0, <3>1, <3>2, <3>3
  <2>2. CASE ~(k.attempts[i].kind = "discarded" /\ k.attempts[i].usage # NoUsage)
    <3>1. D[i] = {}
      BY <1>1, <2>2
    <3>2. RowCost(D[i]) = 0
      BY <3>1 DEF RowCost
    <3> QED BY <2>0, <3>1, <3>2
  <2> QED BY <2>1, <2>2
<1> QED BY <1>1, <1>3

\* Exhausted leaves the overshoot bounded.
LEMMA ExhaustedCost ==
  ASSUME IInv, IInv', CostInv, NEW c \in Calls, Exhausted(c)
  PROVE  CostInv'
<1> DEFINE k == calls[c]
           D == DiscardedEntries(k.request.run, k.attempts)
           status == IF ~Streamed(c) /\ ThrottleRefusal(k.attempts) THEN "429" ELSE "502"
           k2 == [k EXCEPT !.pc = "recording", !.rows = D, !.status = status]
<1>1. /\ k \in CallRec /\ k.pc = "trying" /\ CallTrue(k, platform, ledger, arrivals)
      /\ UNCHANGED <<platform, ledger, blind>>
  BY CallFacts DEF Exhausted
<1>2. calls' = [calls EXCEPT ![c] = k2]
  BY DEF Exhausted
<1>3. /\ DOMAIN D = DOMAIN k.attempts
      /\ \A i \in DOMAIN D : D[i] = {} \/ \E e \in RowRec : D[i] = {e} /\ e.run = k.request.run
      /\ \A i \in DOMAIN D : RowCost(D[i]) <= Owes(k.attempts[i])
  <2>1. k.request.run \in Runs
    BY <1>1, RunIs
  <2>2. Accounted(k, platform) /\ PlatformTrue(platform, arrivals)
    BY <1>1 DEF CallTrue, IInv, Books
  <2> QED BY <1>1, <2>1, <2>2, DiscardedPlaces
<1> HIDE DEF D, status
<1>4. k2.pc = "recording" /\ k2.rows = D /\ k2.request = k.request
  BY <1>1 DEF CallRec
<1> HIDE DEF k2
<1>5. OneRowEach(k2)
  BY <1>3, <1>4 DEF OneRowEach
<1>6. \A i \in DOMAIN k.attempts : i \in DOMAIN Bill(k) /\ Bill(k)[i] = Owes(k.attempts[i])
  BY <1>1, BillOf
<1> DEFINE f == [i \in DOMAIN k2.rows |-> i]
<1>7. /\ f \in [DOMAIN k2.rows -> DOMAIN Bill(k)]
      /\ \A i, j \in DOMAIN k2.rows : f[i] = f[j] => i = j
      /\ \A i \in DOMAIN k2.rows : RowCost(k2.rows[i]) <= Bill(k)[f[i]]
  BY <1>3, <1>4, <1>6
<1>8. Metered(platform')
  BY <1>1 DEF CostInv
<1> HIDE DEF f
<1> QED BY <1>1, <1>2, <1>4, <1>5, <1>7, <1>8, EndsCheaper

\* A row for the answer of the candidate that is tried now costs its dearest answer at most.
LEMMA ServedCost ==
  ASSUME NEW m, NEW u \in Usages, NEW r, NEW by, Reported(by, r, u), NEW e,
         e.cost = 0 \/ e.cost = CostUSD(m, r)
  PROVE  RowCost({e}) <= DearestAnswer(m)
<1>1. RowCost({e}) = OrZero(e.cost)
  BY RowCostOne
<1>2. CASE e.cost = 0
  <2>1. OrZero(e.cost) = 0 /\ DearestAnswer(m) \in Nat
    BY <1>2, DearestAnswerIs DEF OrZero
  <2> QED BY <1>1, <2>1
<1>3. CASE e.cost = CostUSD(m, r)
  BY <1>1, <1>3, ReportedCost
<1> QED BY <1>2, <1>3

\* Answers leaves the overshoot bounded: each row has its own candidate to be charged against.
LEMMA AnswersCost ==
  ASSUME IInv, IInv', CostInv, NEW c \in Calls, Answers(c)
  PROVE  CostInv'
<1> DEFINE k == calls[c]
           id == This(c)
           run == k.request.run
           D == DiscardedEntries(run, k.attempts)
           n == Len(k.attempts)
<1>1. /\ Trying(c) /\ k.todo # <<>> /\ k \in CallRec /\ k.pc = "trying"
      /\ UNCHANGED <<ledger, blind>> /\ id[2] = Model(c) /\ Generates(c)
  BY CallFacts, ThisIsNew DEF Answers, Callable, Trying
<1>2. New(c) /\ Metered(platform') /\ platform'[id].usage \in Usages
  BY <1>1, GeneratesIs, GeneratesMetered
<1>3. PICK body \in Bodies, u \in Reports(Model(c), platform'[id].usage) :
        calls' = [calls EXCEPT ![c] =
            IF EmptyAnswer(Answer(Provider[Model(c)], body)) THEN Attempted(c, "discarded", id, u)
            ELSE [Attempted(c, "served", id, u) EXCEPT
                    !.pc = "recording", !.status = "200",
                    !.rows = RowsServed(run, u, id, platform'[id], k.attempts)]]
  BY DEF Answers
<1>4. u \in ReportRec /\ Reported(id[2], u, platform'[id].usage) /\ id \in DOMAIN platform' /\ id \in Refs
  BY <1>1, <1>2, ReportsIs
<1>5. run \in Runs
  BY <1>1, RunIs
<1>6. CASE EmptyAnswer(Answer(Provider[Model(c)], body))
  <2> DEFINE k2 == Attempted(c, "discarded", id, u)
             a == AttemptOf(c, "discarded", id, u)
  <2>1. Tried(k, k2, a) /\ Kept(k, k2)
    BY <1>1, <1>4, AttemptedIs DEF Kinds
  <2>2. a.kind = "discarded" /\ a.usage = u /\ a.model = Model(c)
    BY DEF AttemptOf
  <2>3. calls' = [calls EXCEPT ![c] = k2]
    BY <1>3, <1>6
  <2> HIDE DEF k2, a
  <2>4. Owes(a) <= DearestAnswer(a.model)
    <3>1. Owes(a) = OrZero(CostUSD(a.model, u))
      BY <2>2 DEF Owes
    <3> QED BY <1>2, <1>4, <3>1, ReportedCost
  <2> QED BY <1>1, <1>2, <2>1, <2>3, <2>4, TriesCheaper
<1>7. CASE ~EmptyAnswer(Answer(Provider[Model(c)], body))
  <2> DEFINE k1 == Attempted(c, "served", id, u)
             a == AttemptOf(c, "served", id, u)
             R == RowsServed(run, u, id, platform'[id], k.attempts)
             k2 == [k1 EXCEPT !.pc = "recording", !.status = "200", !.rows = R]
             e == ServedEntry(run, u, id, platform'[id])
             X == IF platform'[id].kind = "replayed" THEN <<>> ELSE D
  <2>1. Tried(k, k1, a) /\ Kept(k, k1) /\ k1 \in CallRec /\ k1.request = k.request
    <3>1. Tried(k, k1, a) /\ Kept(k, k1)
      BY <1>1, <1>4, AttemptedIs DEF Kinds
    <3> QED BY <3>1 DEF Tried
  <2>2. calls' = [calls EXCEPT ![c] = k2]
    BY <1>3, <1>7
  <2>3. Extends(platform, platform') /\ PlatformTrue(platform', arrivals)
    BY <1>2 DEF New
  <2>4. e \in RowRec /\ e.run = run
    BY <1>4, <1>5, <2>3, ServedRow
  <2>5. e.cost = 0 \/ e.cost = CostUSD(Model(c), u)
    BY <1>1 DEF ServedEntry, Entry
  <2>6. Accounted(k, platform')
    <3>1. Accounted(k, platform)
      BY CallFacts DEF CallTrue
    <3> QED BY <1>1, <2>3, <3>1 DEF Accounted, AttemptTrue, Extends
  <2>7. /\ DOMAIN D = DOMAIN k.attempts
        /\ \A i \in DOMAIN D : D[i] = {} \/ \E x \in RowRec : D[i] = {x} /\ x.run = run
        /\ \A i \in DOMAIN D : RowCost(D[i]) <= Owes(k.attempts[i])
    BY <1>1, <1>5, <2>3, <2>6, DiscardedPlaces
  <2>8. R = <<{e}>> \o X
    BY DEF RowsServed
  <2>9. k2.pc = "recording" /\ k2.rows = R /\ k2.request = k.request
    BY <2>1 DEF CallRec
  <2>10. D \in Seq(SUBSET RowRec)
    <3>1. RowsFor(D, run, k, platform')
      BY <1>1, <1>5, <2>3, <2>6, DiscardedRows
    <3> QED BY <3>1 DEF RowsFor
  <2> HIDE DEF e, D, R, k1, a, k2, n
  <2>11. /\ n \in Nat /\ DOMAIN k.attempts = 1..n
         /\ \A i \in DOMAIN k.attempts : i \in DOMAIN Bill(k) /\ Bill(k)[i] = Owes(k.attempts[i])
         /\ n + 1 \in DOMAIN Bill(k) /\ Bill(k)[n + 1] = DearestAnswer(Model(c))
    BY <1>1, BillOf DEF n, Model
  <2>12. /\ 1 \in DOMAIN R /\ R[1] = {e}
         /\ \A i \in DOMAIN R : i # 1 => i - 1 \in DOMAIN D /\ R[i] = D[i - 1]
         /\ \A i \in DOMAIN R : i \in Nat
    <3>1. ASSUME NEW S, NEW Y \in Seq(S), NEW x \in S
          PROVE  /\ 1 \in DOMAIN (<<x>> \o Y) /\ (<<x>> \o Y)[1] = x
                 /\ \A i \in DOMAIN (<<x>> \o Y) : 
                      i # 1 => i - 1 \in DOMAIN Y /\ (<<x>> \o Y)[i] = Y[i - 1]
                 /\ \A i \in DOMAIN (<<x>> \o Y) : i \in Nat
      OBVIOUS
    <3>2. {e} \in SUBSET RowRec
      BY <2>4
    <3>3. CASE platform'[id].kind = "replayed"
      <4>1. R = <<{e}>> \o <<>> /\ <<>> \in Seq(SUBSET RowRec) /\ DOMAIN <<>> = {}
        BY <2>8, <3>3
      <4> QED BY <3>1, <3>2, <4>1
    <3>4. CASE platform'[id].kind # "replayed"
      <4>1. R = <<{e}>> \o D
        BY <2>8, <3>4
      <4> QED BY <2>10, <3>1, <3>2, <4>1
    <3> QED BY <3>3, <3>4
  <2>13. OneRowEach(k2)
    BY <2>4, <2>7, <2>9, <2>12 DEF OneRowEach
  <2> DEFINE f == [i \in DOMAIN R |-> IF i = 1 THEN n + 1 ELSE i - 1]
  <2>14. \A i \in DOMAIN R : i # 1 => i - 1 \in 1..n /\ i - 1 \in DOMAIN Bill(k)
    BY <2>7, <2>11, <2>12
  <2>15. f \in [DOMAIN R -> DOMAIN Bill(k)]
    BY <2>11, <2>14
  <2>16. \A i, j \in DOMAIN R : f[i] = f[j] => i = j
    BY <2>11, <2>12, <2>14
  <2>17. RowCost({e}) <= DearestAnswer(Model(c))
    BY <1>2, <1>4, <2>5, ServedCost
  <2>18. ASSUME NEW i \in DOMAIN R PROVE RowCost(R[i]) <= Bill(k)[f[i]]
    <3>1. CASE i = 1
      BY <2>11, <2>12, <2>17, <3>1
    <3>2. CASE i # 1
      <4>1. i - 1 \in DOMAIN D /\ R[i] = D[i - 1] /\ f[i] = i - 1 /\ i - 1 \in DOMAIN k.attempts
        BY <2>7, <2>12, <3>2
      <4>2. Bill(k)[i - 1] = Owes(k.attempts[i - 1]) /\ RowCost(D[i - 1]) <= Owes(k.attempts[i - 1])
        BY <2>7, <2>11, <4>1
      <4> QED BY <4>1, <4>2
    <3> QED BY <3>1, <3>2
  <2> HIDE DEF f
  <2> QED BY <1>1, <1>2, <2>2, <2>9, <2>13, <2>15, <2>16, <2>18, EndsCheaper
<1> QED BY <1>6, <1>7

\* StreamBegins leaves the overshoot bounded.
LEMMA StreamBeginsCost ==
  ASSUME IInv, IInv', CostInv, NEW c \in Calls, StreamBegins(c)
  PROVE  CostInv'
<1> DEFINE k == calls[c]
           k1 == [k EXCEPT !.pc = "streaming", !.sent = Append(k.sent, Model(c))]
           k2 == Started(c, k1)
<1>1. /\ k \in CallRec /\ k.pc = "trying" /\ k.todo # <<>> /\ Single(k) /\ k.rows = <<>>
      /\ UNCHANGED <<platform, ledger, blind>> /\ calls' = [calls EXCEPT ![c] = k2]
  BY CallFacts DEF StreamBegins, Callable, Trying, Single
<1>2. k1 \in CallRec
  <2>1. Model(c) \in Models
    BY <1>1, ThisIsNew
  <2>2. Append(k.sent, Model(c)) \in Seq(Models)
    BY <1>1, <2>1 DEF CallRec
  <2> QED BY <1>1, <2>2 DEF CallRec
<1>3. k1.pc = "streaming" /\ k1.attempts = k.attempts /\ k1.todo = k.todo /\ k1.rows = k.rows
      /\ k1.request = k.request
  BY <1>1 DEF CallRec
<1> HIDE DEF k1
<1>4. k2.pc = "streaming" /\ k2.attempts = k.attempts /\ k2.todo = k.todo /\ k2.rows = <<>>
      /\ k2.request = k.request
  BY <1>1, <1>2, <1>3, StartedKeeps DEF Kept
<1> HIDE DEF k2
<1>5. Bill(k2) = Bill(k)
  BY <1>1, <1>4 DEF Bill
<1>6. OneRowEach(k) /\ OneRowEach(k2)
  BY <1>1, <1>4 DEF OneRowEach
<1>7. SumOf(Bill(k)) \in Nat
  BY <1>1, <1>6, BillIs
<1>8. SumOf(Bill(k2)) <= SumOf(Bill(k))
  BY <1>5, <1>7
<1>9. Metered(platform')
  BY <1>1 DEF CostInv
<1> QED BY <1>1, <1>4, <1>6, <1>8, <1>9, Cheaper

\* StreamEnds leaves the overshoot bounded: one row, for the candidate that streamed.
LEMMA StreamEndsCost ==
  ASSUME IInv, IInv', CostInv, NEW c \in Calls, StreamEnds(c)
  PROVE  CostInv'
<1> DEFINE k == calls[c]
           id == This(c)
           run == k.request.run
           n == Len(k.attempts)
<1>1. /\ k.todo # <<>> /\ k \in CallRec /\ k.pc = "streaming" /\ Generates(c)
      /\ UNCHANGED <<ledger, blind>> /\ id[2] = Model(c)
  BY CallFacts, ThisIsNew DEF StreamEnds, Single
<1>2. New(c) /\ Metered(platform') /\ platform'[id].usage \in Usages
  BY <1>1, GeneratesIs, GeneratesMetered
<1>3. PICK u \in Reports(Model(c), platform'[id].usage) :
        calls' = [calls EXCEPT ![c] = [Attempted(c, "served", id, u) EXCEPT
                    !.pc = "recording", !.status = "200", !.rows = <<{StreamedRow(run, u, id)}>>]]
  BY DEF StreamEnds
<1>4. u \in ReportRec /\ Reported(id[2], u, platform'[id].usage) /\ id \in DOMAIN platform' /\ id \in Refs
  BY <1>1, <1>2, ReportsIs
<1>5. run \in Runs
  BY <1>1, RunIs
<1> DEFINE k1 == Attempted(c, "served", id, u)
           a == AttemptOf(c, "served", id, u)
           e == StreamedRow(run, u, id)
           R == <<{e}>>
           k2 == [k1 EXCEPT !.pc = "recording", !.status = "200", !.rows = R]
           no == FALSE
<1>6. k1 \in CallRec /\ k1.request = k.request
  <2>1. Tried(k, k1, a)
    BY <1>1, <1>4, AttemptedIs DEF Kinds
  <2> QED BY <2>1 DEF Tried
<1>7. calls' = [calls EXCEPT ![c] = k2]
  BY <1>3
<1>8. e = Entry(run, id[2], u, CostUSD(id[2], u), NoId, NoId, no, id) /\ no \in BOOLEAN
  BY DEF StreamedRow
<1>9. e.cost = CostUSD(Model(c), u)
  BY <1>1, <1>8 DEF Entry
<1> HIDE DEF e, no
<1>10. e \in RowRec /\ e.run = run
  <2>1. PlatformTrue(platform', arrivals) /\ NoId \in {RequestId(id), NoId}
    BY <1>2 DEF New
  <2> HIDE DEF id, run
  <2> QED BY <1>4, <1>5, <1>8, <2>1, PricedRow
<1> HIDE DEF k1
<1>11. k2.pc = "recording" /\ k2.rows = R /\ k2.request = k.request
  BY <1>6 DEF CallRec
<1>12. DOMAIN R = {1} /\ R[1] = {e}
  OBVIOUS
<1> HIDE DEF k2, R, n
<1>13. OneRowEach(k2)
  BY <1>10, <1>11, <1>12 DEF OneRowEach
<1>14. n + 1 \in DOMAIN Bill(k) /\ Bill(k)[n + 1] = DearestAnswer(Model(c))
  BY <1>1, BillOf DEF n, Model
<1> DEFINE f == [i \in DOMAIN R |-> n + 1]
<1>15. f \in [DOMAIN R -> DOMAIN Bill(k)] /\ \A i, j \in DOMAIN R : f[i] = f[j] => i = j
  BY <1>12, <1>14
<1>16. RowCost({e}) <= DearestAnswer(Model(c))
  BY <1>2, <1>4, <1>9, ServedCost
<1>17. \A i \in DOMAIN R : RowCost(R[i]) <= Bill(k)[f[i]]
  BY <1>12, <1>14, <1>16
<1> HIDE DEF f
<1> QED BY <1>1, <1>2, <1>7, <1>11, <1>13, <1>15, <1>17, EndsCheaper

\* StreamBreaks leaves the overshoot bounded: it records nothing.
LEMMA StreamBreaksCost ==
  ASSUME IInv, IInv', CostInv, NEW c \in Calls, StreamBreaks(c)
  PROVE  CostInv'
<1> DEFINE k == calls[c]
           k1 == Attempted(c, "error", This(c), NoUsage)
           k2 == AfterBreak(k1)
<1>1. /\ k.todo # <<>> /\ k \in CallRec /\ k.pc = "streaming" /\ Generates(c) /\ This(c) \in Ids
      /\ UNCHANGED <<ledger, blind>> /\ calls' = [calls EXCEPT ![c] = k2]
  BY CallFacts, ThisIsNew DEF StreamBreaks, Single
<1>2. Metered(platform')
  BY <1>1, GeneratesMetered
<1>3. k1 \in CallRec /\ k1.request = k.request
  <2>1. Tried(k, k1, AttemptOf(c, "error", This(c), NoUsage))
    BY <1>1, NoUsageIs, AttemptedIs DEF Kinds, Refs
  <2> QED BY <2>1 DEF Tried
<1> HIDE DEF k1
<1>4. k2.pc = "recording" /\ k2.rows = <<>> /\ k2.request = k.request
  BY <1>3 DEF AfterBreak, CallRec
<1> HIDE DEF k2
<1>5. DOMAIN k2.rows = {}
  BY <1>4
<1>6. OneRowEach(k2)
  BY <1>5 DEF OneRowEach
<1> DEFINE f == [i \in DOMAIN k2.rows |-> 0]
<1>7. /\ f \in [DOMAIN k2.rows -> DOMAIN Bill(k)]
      /\ \A i, j \in DOMAIN k2.rows : f[i] = f[j] => i = j
      /\ \A i \in DOMAIN k2.rows : RowCost(k2.rows[i]) <= Bill(k)[f[i]]
  BY <1>5
<1> HIDE DEF f
<1> QED BY <1>1, <1>2, <1>4, <1>6, <1>7, EndsCheaper

\* The first row leaves the bill, with its cost.
LEMMA RowLeaves ==
  ASSUME NEW k \in CallRec, k.pc = "recording", k.rows # <<>>, OneRowEach(k),
         NEW k2 \in CallRec, k2.pc = "recording", k2.rows = Tail(k.rows), k2.request = k.request
  PROVE  /\ OneRowEach(k2) /\ RowCost(Head(k.rows)) \in Nat
         /\ SumOf(Bill(k2)) + RowCost(Head(k.rows)) <= SumOf(Bill(k))
<1> DEFINE T == Tail(k.rows)
           I == DOMAIN k.rows
           J == DOMAIN T
           w == Bill(k)
           rest == [i \in I \ {1} |-> w[i]]
<1>1. k.rows \in Seq(SUBSET RowRec)
  BY DEF CallRec
<1>2. /\ 1 \in I /\ Head(k.rows) = k.rows[1]
      /\ \A i \in J : i \in Nat /\ i + 1 \in I /\ i + 1 # 1 /\ T[i] = k.rows[i + 1]
  BY <1>1
<1>3. OneRowEach(k2)
  BY <1>2 DEF OneRowEach
<1>4. w = [i \in I |-> RowCost(k.rows[i])] /\ Bill(k2) = [i \in J |-> RowCost(T[i])]
  BY DEF Bill
<1> HIDE DEF T
<1>5. IsFiniteSet(I) /\ w \in [I -> Nat] /\ Bill(k2) \in [J -> Nat] /\ SumOf(Bill(k2)) \in Nat
  <2>1. DOMAIN w = I /\ DOMAIN Bill(k2) = J
    BY <1>4
  <2> HIDE DEF w, I, J
  <2>2. IsFiniteSet(DOMAIN Bill(k)) /\ Bill(k) \in [DOMAIN Bill(k) -> Nat]
    BY BillIs
  <2>3. Bill(k2) \in [DOMAIN Bill(k2) -> Nat] /\ SumOf(Bill(k2)) \in Nat
    BY <1>3, BillIs
  <2> QED BY <2>1, <2>2, <2>3 DEF w
<1>6. w[1] = RowCost(Head(k.rows)) /\ w[1] \in Nat
  BY <1>2, <1>4, <1>5
<1> DEFINE f == [i \in J |-> i + 1]
<1>7. /\ f \in [J -> I \ {1}] /\ (\A i, j \in J : f[i] = f[j] => i = j)
      /\ \A i \in J : Bill(k2)[i] <= rest[f[i]]
  <2>1. f \in [J -> I \ {1}] /\ \A i, j \in J : f[i] = f[j] => i = j
    BY <1>2
  <2>2. ASSUME NEW i \in J PROVE Bill(k2)[i] <= rest[f[i]]
    <3>1. i + 1 \in I \ {1} /\ rest[f[i]] = w[i + 1]
      BY <1>2
    <3>2. Bill(k2)[i] = w[i + 1]
      BY <1>2, <1>4, <3>1
    <3>3. w[i + 1] \in Nat
      BY <1>5, <3>1
    <3> QED BY <3>1, <3>2, <3>3
  <2> QED BY <2>1, <2>2
<1>8. IsFiniteSet(I \ {1}) /\ rest \in [I \ {1} -> Nat]
  BY <1>5, FS_RemoveElement
<1> HIDE DEF I, J, f, w
<1>9. SumOf(w) = w[1] + SumOf(rest)
  <2>1. ASSUME NEW x \in I PROVE SumOf(w) = w[x] + SumOf([i \in I \ {x} |-> w[i]])
    BY <1>5, SumSplits, ZenonT(60)
  <2> QED BY <1>2, <2>1
<1> HIDE DEF rest
<1>10. SumOf(Bill(k2)) <= SumOf(rest)
  BY <1>5, <1>7, <1>8, SumIsCarried
<1>11. SumOf(rest) \in Nat
  BY <1>8, SumIsNat
<1> QED BY <1>3, <1>5, <1>6, <1>9, <1>10, <1>11 DEF w

\* RecordRow leaves the overshoot bounded: what the ledger gains the call's bill loses.
LEMMA RecordRowCost ==
  ASSUME IInv, IInv', CostInv, NEW c \in Calls, RecordRow(c)
  PROVE  CostInv'
<1> DEFINE k == calls[c]
           k2 == calls'[c]
           H == Head(k.rows)
<1>1. /\ k \in CallRec /\ k.pc = "recording" /\ k.rows # <<>> /\ UNCHANGED <<platform, blind>>
      /\ k2 \in CallRec /\ calls \in [Calls -> CallRec]
  <2>1. k2 \in CallRec
    BY DEF IInv
  <2> QED BY <2>1, CallFacts DEF RecordRow, IInv
<1>2. /\ calls' = [calls EXCEPT ![c] = k2] /\ k2.pc = "recording" /\ k2.rows = Tail(k.rows)
      /\ k2.request = k.request
  <2>1. CASE calls' = [calls EXCEPT ![c].rows = Tail(@)]
    <3>1. k2 = [k EXCEPT !.rows = Tail(k.rows)]
      BY <1>1, <2>1
    <3>2. calls' = [calls EXCEPT ![c] = k2]
      BY <1>1, <2>1
    <3> QED BY <1>1, <3>1, <3>2 DEF CallRec
  <2>2. CASE calls' = [calls EXCEPT ![c].rows = Tail(@), ![c].lost = TRUE]
    <3>1. k2 = [k EXCEPT !.rows = Tail(k.rows), !.lost = TRUE]
      BY <1>1, <2>2
    <3>2. calls' = [calls EXCEPT ![c] = k2]
      BY <1>1, <2>2
    <3> QED BY <1>1, <3>1, <3>2 DEF CallRec
  <2> QED BY <2>1, <2>2 DEF RecordRow
<1>3. OneRowEach(k) /\ Billed(k) /\ SumOf(Bill(k)) <= DearestCall
  BY <1>1 DEF CostInv, Billed
<1> HIDE DEF k2
<1>4. /\ OneRowEach(k2) /\ RowCost(H) \in Nat
      /\ SumOf(Bill(k2)) + RowCost(H) <= SumOf(Bill(k))
  BY <1>1, <1>2, <1>3, RowLeaves
<1>5. SumOf(Bill(k2)) \in Nat /\ SumOf(Bill(k)) \in Nat
  BY <1>1, <1>3, <1>4, BillIs
<1>6. Billed(k2)
  <2>1. DearestCall \in Nat
    BY DearestCallIs
  <2> QED BY <1>3, <1>4, <1>5, <2>1 DEF Billed
<1>7. H = {} \/ \E e \in RowRec : H = {e} /\ e.run = k.request.run
  <2>1. k.rows \in Seq(SUBSET RowRec)
    BY <1>1 DEF CallRec
  <2>2. 1 \in DOMAIN k.rows /\ H = k.rows[1]
    BY <1>1, <2>1
  <2> QED BY <1>3, <2>2 DEF OneRowEach
<1>8. \A e \in H : RowTrue(e, platform)
  <2>1. k.rows \in Seq(SUBSET RowRec)
    BY <1>1 DEF CallRec
  <2>2. 1 \in DOMAIN k.rows /\ H = k.rows[1]
    BY <1>1, <2>1
  <2> QED BY <2>2, CallFacts DEF CallTrue, RowsTrue
<1>9. IsFiniteSet(ledger) /\ PlatformTrue(platform, arrivals) /\ LedgerTrue(ledger, platform)
  BY DEF CostInv, IInv, Books
<1>10. ledger' = ledger \/ ledger' = ledger \cup H
  BY DEF RecordRow
<1>11. /\ IsFiniteSet(ledger')
       /\ \A r : /\ Spend(ledger, r) \in Nat /\ Spend(ledger', r) \in Nat
                 /\ Spend(ledger', r) <= Spend(ledger, r) + RowCost(H)
                 /\ k.request.run # r => Spend(ledger', r) = Spend(ledger, r)
       /\ \A e \in ledger' \ ledger : e.run = k.request.run
  <2>1. \A r : Spend(ledger, r) \in Nat
    BY <1>9, SpendIs
  <2>2. CASE ledger' = ledger
    <3>1. \A r : Spend(ledger', r) = Spend(ledger, r)
      BY <2>2
    <3> QED BY <1>4, <1>9, <2>1, <2>2, <3>1
  <2>3. CASE ledger' # ledger
    <3>1. PICK e \in RowRec : H = {e} /\ e.run = k.request.run
      BY <1>7, <1>10, <2>3
    <3>2. ledger' = ledger \cup {e} /\ RowTrue(e, platform) /\ RowCost(H) = OrZero(e.cost)
      BY <1>8, <1>10, <2>3, <3>1, RowCostOne
    <3> HIDE DEF H, k
    <3>3. ASSUME NEW r
          PROVE  /\ IsFiniteSet(ledger')
                 /\ Spend(ledger', r) <= Spend(ledger, r) + RowCost(H)
                 /\ k.request.run # r => Spend(ledger', r) = Spend(ledger, r)
      BY <1>9, <3>1, <3>2, SpendGrows
    <3>4. LedgerTrue(ledger', platform)
      BY <1>9, <3>2 DEF LedgerTrue
    <3>5. \A r : Spend(ledger', r) \in Nat
      BY <1>9, <3>3, <3>4, SpendIs
    <3> QED BY <2>1, <3>1, <3>2, <3>3, <3>5
  <2> QED BY <2>2, <2>3
<1>12. ASSUME NEW r, Active(calls', ledger', r)
       PROVE  /\ Active(calls, ledger, r)
              /\ Spend(ledger', r) + Left(k2, r) <= Spend(ledger, r) + Left(calls[c], r)
  <2>1. calls'[c] = k2 /\ \A d \in Calls : d # c => calls'[d] = calls[d]
    BY <1>1, <1>2
  <2>2. Active(calls, ledger, r)
    <3>1. CASE k.request.run = r
      BY <1>1, <3>1 DEF Active, InFlight
    <3>2. CASE k.request.run # r
      <4>1. RowsOf(ledger', r) \subseteq RowsOf(ledger, r)
        BY <1>11, <3>2 DEF RowsOf
      <4> QED BY <1>2, <1>12, <2>1, <3>2, <4>1 DEF Active, InFlight
    <3> QED BY <3>1, <3>2
  <2>3. CASE k.request.run = r
    <3>1. Left(k2, r) = SumOf(Bill(k2)) /\ Left(calls[c], r) = SumOf(Bill(k))
      BY <1>1, <1>2, <2>3 DEF Left, InFlight
    <3>2. /\ Spend(ledger, r) \in Nat /\ Spend(ledger', r) \in Nat
          /\ Spend(ledger', r) <= Spend(ledger, r) + RowCost(H)
      BY <1>11
    <3> HIDE DEF H, k
    <3> QED BY <1>4, <1>5, <2>2, <3>1, <3>2
  <2>4. CASE k.request.run # r
    <3>1. Left(k2, r) = 0 /\ Left(calls[c], r) = 0
      BY <1>2, <2>4 DEF Left, InFlight
    <3>2. Spend(ledger, r) \in Nat /\ Spend(ledger', r) = Spend(ledger, r)
      BY <1>11, <2>4
    <3> QED BY <2>2, <3>1, <3>2
  <2> QED BY <2>3, <2>4
<1>13. Metered(platform') /\ blind \subseteq blind'
  BY <1>1 DEF CostInv
<1> QED BY <1>2, <1>6, <1>11, <1>12, <1>13, CostMoves

\* A call that comes to rest without a row: Respond, and every refusal.
LEMMA RestsCost ==
  ASSUME IInv, IInv', CostInv, NEW c \in Calls, NEW k2, calls' = [calls EXCEPT ![c] = k2],
         k2.pc = "idle", blind \subseteq blind', UNCHANGED <<ledger, platform>>
  PROVE  CostInv'
<1>1. calls \in [Calls -> CallRec] /\ calls'[c] = k2
      /\ \A d \in Calls : d # c => calls'[d] = calls[d]
  BY DEF IInv
<1>2. Billed(k2)
  BY DEF Billed
<1>3. ASSUME NEW r, Active(calls', ledger', r)
      PROVE  /\ Active(calls, ledger, r)
             /\ Spend(ledger', r) + Left(k2, r) <= Spend(ledger, r) + Left(calls[c], r)
  <2>1. Active(calls, ledger, r)
    BY <1>1, <1>3 DEF Active, InFlight
  <2>2. Left(k2, r) = 0
    BY DEF Left, InFlight
  <2>3. Left(calls[c], r) \in Nat
    BY <1>1, LeftIs DEF CostInv
  <2>4. Spend(ledger, r) \in Nat
    BY SpendIs DEF CostInv, IInv, Books
  <2>5. Spend(ledger', r) = Spend(ledger, r)
    OBVIOUS
  <2> QED BY <2>1, <2>2, <2>3, <2>4, <2>5
<1>4. Metered(platform') /\ IsFiniteSet(ledger')
  BY DEF CostInv
<1> QED BY <1>2, <1>3, <1>4, CostMoves

\* Respond leaves the overshoot bounded.
LEMMA RespondCost ==
  ASSUME IInv, IInv', CostInv, NEW c \in Calls, Respond(c)
  PROVE  CostInv'
<1>1. Answered(calls[c].status).pc = "idle"
  BY DEF Answered, IdleCall
<1>2. /\ calls' = [calls EXCEPT ![c] = Answered(calls[c].status)]
      /\ UNCHANGED <<ledger, platform, blind>>
  BY DEF Respond
<1> QED BY <1>1, <1>2, RestsCost

\* The order a pool is tried in names each candidate once.
LEMMA OrdersOnce ==
  ASSUME NEW pool, IsFiniteSet(pool), NEW s \in TryOrders(pool)
  PROVE  \A i, j \in DOMAIN s : s[i] = s[j] => i = j
<1>1. s \in SetToSeqs(pool)
  BY DEF TryOrders
<1> QED BY <1>1 DEF SetToSeqs

\* A call that was just admitted can charge what its pool can.
LEMMA AdmittedBill ==
  ASSUME NEW q \in Requests, NEW inside, inside \subseteq PoolOf(q), NEW order \in TryOrders(inside),
         NEW k \in CallRec, k.pc = "trying", k.attempts = <<>>, k.rows = <<>>, k.todo = order
  PROVE  Billed(k)
<1> DEFINE S == PoolOf(q)
           v == [x \in S |-> DearestAnswer(x.model)]
           w == Bill(k)
<1>1. /\ S \subseteq CandidateRec /\ IsFiniteSet(S) /\ DearestOf(q) = SumOf(v)
      /\ DearestOf(q) <= DearestCall
  BY PoolIs, DearestCallIs
<1>2. IsFiniteSet(inside) /\ inside \in SUBSET CandidateRec
  BY <1>1, FS_Subset
<1>3. /\ order \in Seq(CandidateRec) /\ \A i \in DOMAIN order : order[i] \in inside
      /\ \A i, j \in DOMAIN order : order[i] = order[j] => i = j
  BY <1>2, Orders, OrdersOnce
<1>4. w = [i \in DOMAIN order |-> DearestAnswer(order[i].model)]
  <2>1. Len(k.attempts) = 0 /\ Len(order) \in Nat /\ DOMAIN order = 1..Len(order)
    BY <1>3
  <2>2. w = [i \in 1..(Len(k.attempts) + Len(order)) |->
              IF i <= Len(k.attempts) THEN Owes(k.attempts[i])
              ELSE DearestAnswer(order[i - Len(k.attempts)].model)]
    BY DEF Bill
  <2>3. 0 + Len(order) = Len(order)
    BY <2>1
  <2>4. w = [i \in 1..Len(order) |-> IF i <= 0 THEN Owes(k.attempts[i])
                                                ELSE DearestAnswer(order[i - 0].model)]
    BY <2>1, <2>2, <2>3
  <2>5. \A i \in 1..Len(order) : ~(i <= 0) /\ i - 0 = i
    BY <2>1
  <2> HIDE DEF w
  <2> QED BY <2>1, <2>4, <2>5
<1>5. OneRowEach(k)
  BY DEF OneRowEach
<1>6. DOMAIN w = DOMAIN order /\ w \in [DOMAIN order -> Nat]
  <2>1. w \in [DOMAIN w -> Nat]
    BY <1>5, BillIs
  <2> QED BY <1>4, <2>1
<1>7. v \in [S -> Nat]
  BY DearestAnswerIs
<1> DEFINE f == [i \in DOMAIN order |-> order[i]]
<1>8. f \in [DOMAIN order -> S] /\ \A i, j \in DOMAIN order : f[i] = f[j] => i = j
  BY <1>3
<1>9. \A i \in DOMAIN order : w[i] <= v[f[i]]
  <2>1. ASSUME NEW i \in DOMAIN order PROVE w[i] = v[f[i]] /\ w[i] \in Nat
    <3>1. order[i] \in S /\ f[i] = order[i]
      BY <1>3
    <3>2. w[i] = DearestAnswer(order[i].model) /\ v[order[i]] = DearestAnswer(order[i].model)
      BY <1>4, <3>1
    <3> QED BY <1>6, <3>1, <3>2
  <2> QED BY <2>1
<1> HIDE DEF f, v, w, S
<1>10. SumOf(w) <= SumOf(v)
  BY <1>1, <1>6, <1>7, <1>8, <1>9, SumIsCarried
<1>11. SumOf(w) \in Nat /\ DearestCall \in Nat /\ DearestOf(q) \in Nat
  BY <1>5, BillIs, DearestCallIs, PoolIs DEF w
<1>12. SumOf(Bill(k)) <= DearestCall
  BY <1>1, <1>10, <1>11 DEF w
<1> QED BY <1>5, <1>12 DEF Billed

\* A request that is not turned away: its run was below its ceiling, or it is blind from now on.
LEMMA AdmitCost ==
  ASSUME IInv, IInv', CostInv, NEW c \in Calls, calls[c].pc = "idle", NEW q \in Requests, NEW restricted,
         Admit(c, q, PoolOf(q), restricted), blind \subseteq blind', UNCHANGED <<ledger, platform>>,
         q.run \in blind' \/ ~OverBudget(q.run)
  PROVE  CostInv'
<1> DEFINE inside == RestrictPool(PoolOf(q), restricted)
<1>1. CASE inside = {}
  <2>1. calls' = [calls EXCEPT ![c] = Answered("502")] /\ Answered("502").pc = "idle"
    BY <1>1 DEF Admit, Answered, IdleCall
  <2> QED BY <2>1, RestsCost
<1>2. CASE inside # {}
  <2>1. PICK order \in TryOrders(inside) :
          calls' = [calls EXCEPT ![c] =
                    [IdleCall EXCEPT !.pc = "trying", !.request = q, !.no = arrivals',
                                     !.todo = order]]
    BY <1>2 DEF Admit
  <2> DEFINE k2 == [IdleCall EXCEPT !.pc = "trying", !.request = q, !.no = arrivals',
                                    !.todo = order]
  <2>2. /\ k2.pc = "trying" /\ k2.request = q /\ k2.todo = order /\ k2.attempts = <<>>
        /\ k2.rows = <<>>
    BY DEF IdleCall
  <2>3. calls' = [calls EXCEPT ![c] = k2]
    BY <2>1
  <2> HIDE DEF k2
  <2>4. calls \in [Calls -> CallRec] /\ calls'[c] = k2 /\ k2 \in CallRec
        /\ \A d \in Calls : d # c => calls'[d] = calls[d]
    BY <2>3 DEF IInv
  <2>5. inside \subseteq PoolOf(q)
    BY DEF RestrictPool
  <2> HIDE DEF inside
  <2>6. Billed(k2)
    BY <2>2, <2>4, <2>5, AdmittedBill
  <2>7. ASSUME NEW r \in Watched(blind'), Active(calls', ledger', r)
        PROVE  \/ /\ Active(calls, ledger, r)
                  /\ Spend(ledger', r) + Left(k2, r) <= Spend(ledger, r) + Left(calls[c], r)
               \/ Spend(ledger', r) < Ceiling["costUsd"]
    <3>0. Spend(ledger, r) \in Nat /\ Spend(ledger', r) = Spend(ledger, r)
      BY SpendIs DEF CostInv, IInv, Books
    <3>1. CASE r = q.run
      <4>1. r # NoRun /\ Ceiling["costUsd"] # Nil /\ r \notin blind'
        BY DEF Watched, RunsNamed
      <4>2. ~Exceeded(Ceiling, SpendForRun(ledger, r))
        <5>1. ~OverBudget(r) /\ Declared(Ceiling)
          BY <3>1, <4>1 DEF Declared, BudgetNames
        <5> QED BY <4>1, <5>1 DEF OverBudget
      <4>3. ~(Spend(ledger, r) >= Ceiling["costUsd"])
        BY <4>1, <4>2 DEF Exceeded, Reaches, Spend
      <4>4. Ceiling["costUsd"] \in Int
        BY <4>1, BudgetsAssumption DEF Ceiling, CeilingFromManifest, BudgetNames
      <4> QED BY <3>0, <4>3, <4>4
    <3>2. CASE r # q.run
      <4>1. Active(calls, ledger, r)
        BY <2>2, <2>4, <2>7, <3>2 DEF Active, InFlight
      <4>2. Left(k2, r) = 0 /\ Left(calls[c], r) = 0
        BY <2>2, <3>2 DEF Left, InFlight
      <4> QED BY <3>0, <4>1, <4>2
    <3> QED BY <3>1, <3>2
  <2>8. Metered(platform') /\ IsFiniteSet(ledger')
    BY DEF CostInv
  <2> QED BY <2>3, <2>6, <2>7, <2>8, CostMoves
<1> QED BY <1>1, <1>2

\* overBudget, read or not.
LEMMA BudgetedCost ==
  ASSUME IInv, IInv', CostInv, NEW c \in Calls, NEW q \in Requests, NEW restricted,
         Arrives(c, q), Budgeted(c, q, PoolOf(q), restricted)
  PROVE  CostInv'
<1>1. calls[c].pc = "idle" /\ UNCHANGED <<ledger, platform>>
  BY DEF Arrives
<1>2. CASE calls' = [calls EXCEPT ![c] = Answered("402")] /\ UNCHANGED <<blind, faults>>
  <2>1. Answered("402").pc = "idle"
    BY DEF Answered, IdleCall
  <2> QED BY <1>1, <1>2, <2>1, RestsCost
<1>3. CASE Admit(c, q, PoolOf(q), restricted) /\ blind' = blind \cup {q.run}
  BY <1>1, <1>3, AdmitCost
<1>4. CASE Admit(c, q, PoolOf(q), restricted) /\ ~OverBudget(q.run) /\ UNCHANGED <<blind, faults>>
  BY <1>1, <1>4, AdmitCost
<1> QED BY <1>2, <1>3, <1>4 DEF Budgeted

\* The three doors.
LEMMA ArriveCost ==
  ASSUME IInv, IInv', CostInv, NEW c \in Calls, NEW q \in Requests,
         ArriveDecide(c, q) \/ ArriveChat(c, q)
  PROVE  CostInv'
<1>1. CASE ArriveDecide(c, q)
  <2>1. Arrives(c, q) /\ Budgeted(c, q, PoolOf(q), q.restricted)
    BY <1>1 DEF ArriveDecide, PoolOf
  <2> QED BY <2>1, BudgetedCost
<1>2. CASE ArriveChat(c, q) /\ ResolveProfile(q.profile).error = ""
  <2>1. Arrives(c, q) /\ PoolOf(q) = ResolveProfile(q.profile).candidates
    BY <1>2 DEF ArriveChat, PoolOf
  <2>2. Budgeted(c, q, PoolOf(q), ResolveProfile(q.profile).restricted)
    BY <1>2, <2>1 DEF ArriveChat
  <2> QED BY <2>1, <2>2, BudgetedCost
<1>3. CASE ArriveChat(c, q) /\ ResolveProfile(q.profile).error # ""
  <2>1. PICK status \in {"404", "403"} : calls' = [calls EXCEPT ![c] = Answered(status)]
    BY <1>3 DEF ArriveChat
  <2>2. UNCHANGED <<ledger, platform, blind>>
    BY <1>3 DEF ArriveChat, Arrives
  <2>3. Answered(status).pc = "idle"
    BY DEF Answered, IdleCall
  <2> QED BY <2>1, <2>2, <2>3, RestsCost
<1> QED BY <1>1, <1>2, <1>3

-----------------------------------------------------------------------------
(* The overshoot is bounded. *)

\* At first no call is under way, and no row is this gateway's.
LEMMA CostInit == Init => CostInv
<1> SUFFICES ASSUME Init PROVE CostInv
  OBVIOUS
<1>1. PICK past \in SUBSET Past :
        /\ platform = [id \in {<<0, p.model, 0>> : p \in past} |->
                         [kind |-> "generated", model |-> id[2], of |-> id, key |-> NoKey,
                          usage |-> (CHOOSE p \in past : p.model = id[2]).usage]]
        /\ ledger = {Entry(p.run, p.model, p.usage, CostUSD(p.model, p.usage),
                           RequestId(<<0, p.model, 0>>), NoId, FALSE, <<0, p.model, 0>>) :
                        p \in past}
  BY DEF Init
<1> DEFINE row(p) == Entry(p.run, p.model, p.usage, CostUSD(p.model, p.usage),
                           RequestId(<<0, p.model, 0>>), NoId, FALSE, <<0, p.model, 0>>)
<1>2. ledger = {row(p) : p \in past}
  BY <1>1
<1>3. \A p \in past : row(p).of = <<0, p.model, 0>>
  BY DEF Entry
<1> HIDE DEF row
<1>4. IsFiniteSet(ledger)
  <2> DEFINE f == [p \in past |-> row(p)]
  <2>1. f \in Surjection(past, ledger)
    BY <1>2 DEF Surjection
  <2>2. IsFiniteSet(past)
    BY FiniteAssumption, FS_Subset
  <2> HIDE DEF f
  <2> QED BY <2>1, <2>2, FS_Surjection
<1>5. \A e \in ledger : e.of[1] = 0
  BY <1>2, <1>3
<1>6. Metered(platform)
  <2>1. ASSUME NEW id \in DOMAIN platform PROVE platform[id].key = NoKey
    BY <1>1
  <2> QED BY <2>1 DEF Metered
<1>7. \A c \in Calls : calls[c].pc = "idle"
  BY DEF Init, IdleCall
<1>8. \A c \in Calls : Billed(calls[c])
  BY <1>7 DEF Billed
<1>9. \A r : ~Active(calls, ledger, r)
  BY <1>5, <1>7 DEF Active, InFlight, RowsOf
<1> QED BY <1>4, <1>6, <1>8, <1>9 DEF CostInv

\* Every step leaves it bounded.
LEMMA CostStep ==
  ASSUME IInv, IInv', CostInv, [Next]_vars
  PROVE  CostInv'
<1>1. ASSUME NEW c \in Calls, Step(c) PROVE CostInv'
  BY <1>1, SkipCost, FailsCost, AnswerGetsLostCost, AnswersCost, ExhaustedCost,
     StreamBeginsCost, StreamEndsCost, StreamBreaksCost, RecordRowCost, RespondCost DEF Step
<1>2. ASSUME NEW c \in Calls, NEW q \in Requests, ArriveDecide(c, q) \/ ArriveChat(c, q)
      PROVE  CostInv'
  BY <1>2, ArriveCost
<1>3. ASSUME UNCHANGED <<calls, ledger, platform, blind>> PROVE CostInv'
  BY <1>3 DEF CostInv
<1>4. ASSUME NEW m \in Scored, Report(m) PROVE CostInv'
  BY <1>3, <1>4 DEF Report
<1>5. CASE UNCHANGED vars
  BY <1>3, <1>5 DEF vars
<1> QED BY <1>1, <1>2, <1>4, <1>5 DEF Next

\* Nothing pending is negative, so what is recorded is below the allowance alone.
LEMMA OvershootFollows == IInv /\ CostInv => OvershootIsBounded
<1> SUFFICES ASSUME IInv, CostInv, NEW r \in Capped
             PROVE  Overshoot(r) < Cardinality(Calls) * DearestCall
  BY DEF OvershootIsBounded
<1>1. r \in Watched(blind) /\ Active(calls, ledger, r)
  BY DEF Capped, Charged, Watched, Active
<1>2. Spend(ledger, r) + Pending(calls, r) < Allowance
  BY <1>1 DEF CostInv
<1>3. Spend(ledger, r) \in Nat
  BY SpendIs DEF CostInv, IInv, Books
<1>4. Pending(calls, r) \in Nat
  <2> DEFINE w == [c \in Calls |-> Left(calls[c], r)]
  <2>1. w \in [Calls -> Nat]
    BY LeftIs DEF CostInv, IInv
  <2>2. Pending(calls, r) = SumOf(w)
    BY DEF Pending
  <2> HIDE DEF w
  <2> QED BY <2>1, <2>2, FiniteAssumption, SumIsNat
<1>5. Ceiling["costUsd"] \in Int
  <2>1. Ceiling["costUsd"] # Nil
    BY <1>1 DEF Watched
  <2> QED BY <2>1, BudgetsAssumption DEF Ceiling, CeilingFromManifest, BudgetNames
<1>6. Cardinality(Calls) * DearestCall \in Int
  <2>1. Cardinality(Calls) \in Nat /\ DearestCall \in Nat
    BY FiniteAssumption, FS_CardinalityType, DearestCallIs
  <2>2. \A x, y \in Nat : x * y \in Nat
    OBVIOUS
  <2> QED BY <2>1, <2>2
<1>7. Overshoot(r) = Spend(ledger, r) - Ceiling["costUsd"]
  BY DEF Overshoot, Spend
<1>8. Allowance = Ceiling["costUsd"] + Cardinality(Calls) * DearestCall
  BY DEF Allowance
<1> DEFINE b == Cardinality(Calls) * DearestCall
<1> HIDE DEF b
<1>9. b \in Int /\ Allowance = Ceiling["costUsd"] + b
  BY <1>6, <1>8 DEF b
<1>10. Overshoot(r) < b
  BY <1>2, <1>3, <1>4, <1>5, <1>7, <1>9
<1> QED BY <1>10 DEF b

-----------------------------------------------------------------------------
(* The properties. *)

\* The type invariant follows from the inductive one.
LEMMA TypesFollow == IInv => TypeOK
<1> SUFFICES ASSUME IInv PROVE TypeOK
  OBVIOUS
<1>1. \A c \in Calls : /\ calls[c].pc \in {"idle", "trying", "streaming", "recording"}
                       /\ calls[c].status \in Statuses
  BY CallFacts DEF CallRec
<1>2. \A e \in ledger : e.of \in DOMAIN platform
  BY DEF IInv, Books, LedgerTrue, RowTrue
<1> QED BY <1>1, <1>2 DEF TypeOK, IInv, Bounds

\* A call sends one model's chunks at most.
LEMMA SplicesFollow == IInv => NeverSpliced
<1> SUFFICES ASSUME IInv, NEW c \in Calls PROVE Cardinality(Range(calls[c].sent)) <= 1
  BY DEF NeverSpliced
<1>1. calls[c].sent = <<>> \/ \E m \in Models : calls[c].sent = <<m>>
  BY CallFacts DEF Single
<1>2. CASE calls[c].sent = <<>>
  <2>1. Range(calls[c].sent) = {}
    BY <1>2 DEF Range
  <2>2. Cardinality({}) = 0
    BY FS_EmptySet
  <2> QED BY <2>1, <2>2
<1>3. CASE \E m \in Models : calls[c].sent = <<m>>
  <2>1. PICK m \in Models : calls[c].sent = <<m>>
    BY <1>3
  <2>2. Range(<<m>>) = {m}
    BY DEF Range
  <2> QED BY <2>1, <2>2, FS_Singleton
<1> QED BY <1>1, <1>2, <1>3

\* The attempts of a restricted call are inside.
LEMMA InsideFollows == IInv => RestrictedStaysInside
<1>1. ASSUME IInv, NEW c \in Calls PROVE Inside(calls[c])
  BY <1>1, CallFacts DEF CallTrue
<1> QED BY <1>1 DEF RestrictedStaysInside, RestrictedRequests, Inside

\* With no row left to write, what is owed is in the ledger.
LEMMA RecordsFollow == IInv => EveryAnswerIsRecorded
<1> SUFFICES ASSUME IInv, NEW c \in Calls, Recording(c), ~calls[c].lost,
                    NEW i \in DOMAIN calls[c].attempts,
                    \/ calls[c].attempts[i].kind = "served"
                    \/ /\ calls[c].attempts[i].kind = "discarded"
                       /\ calls[c].attempts[i].usage # NoUsage
                       /\ ~ServedByReplay(calls[c])
             PROVE  \E e \in ledger : e.of = calls[c].attempts[i].of /\ e.run = calls[c].request.run
  BY DEF EveryAnswerIsRecorded
<1>0. ServedByReplay(calls[c]) <=> Replayed(calls[c], platform)
  BY DEF Replayed, ServedByReplay
<1>1. Due(calls[c].attempts[i], calls[c], platform)
  <2>1. CASE calls[c].attempts[i].kind = "served"
    BY <2>1 DEF Due
  <2>2. CASE calls[c].attempts[i].kind = "discarded" /\ calls[c].attempts[i].usage # NoUsage
             /\ ~ServedByReplay(calls[c])
    BY <1>0, <2>2 DEF Due
  <2> QED BY <2>1, <2>2
<1>2. Owed(calls[c], platform, ledger)
  BY CallFacts DEF CallTrue
<1>3. calls[c].pc = "recording" /\ calls[c].rows = <<>> /\ DOMAIN <<>> = {}
  BY DEF Recording
<1> QED BY <1>1, <1>2, <1>3 DEF Owed, Pays

\* Row by row, a true ledger diverges from the platform in these ways only.
LEMMA GapsFollow == IInv => ReconcileFindsOnlyGaps
<1> SUFFICES ASSUME IInv, NEW e \in ledger, e.id # NoId, NEW x \in Divergences(e, platform)
             PROVE  x \in {"tokens_unmeasured", "unpriced_here", "missing"}
  BY DEF ReconcileFindsOnlyGaps, Reconcile
<1>1. RowTrue(e, platform) /\ e.of \in DOMAIN platform /\ e.id = e.of /\ Keyed(e.of[2])
  BY DEF IInv, Books, LedgerTrue, RowTrue
<1>2. CASE e.replayOf # NoId
  BY <1>1, <1>2 DEF Divergences, RowTrue
<1>3. CASE e.replayOf = NoId /\ platform[e.id].kind = "replayed"
  BY <1>3 DEF Divergences
<1>4. CASE e.replayOf = NoId /\ platform[e.id].kind # "replayed"
  <2> DEFINE there == platform[e.id]
             cost == CostUSD(there.model, there.usage)
  <2>1. /\ e.model = there.model /\ Reported(e.model, e.usage, there.usage)
        /\ e.cost = CostUSD(e.model, e.usage)
        /\ there.usage \in UsageRec /\ there.model = e.of[2]
    BY <1>1, <1>4 DEF RowTrue, IInv, Books, PlatformTrue
  <2> HIDE DEF there
  <2>2. Nil \notin {e.usage.prompt, e.usage.completion} => e.usage = there.usage
    BY <1>1, <2>1 DEF Reported, UsageRec
  <2>3. e.cost # Nil => e.usage.prompt # Nil /\ e.usage.completion # Nil
    BY <2>1 DEF CostUSD
  <2>4. e.cost # Nil => e.cost = cost
    BY <2>1, <2>2, <2>3
  <2>5. x \in {"model", "tokens_unmeasured", "tokens", "unpriced_here", "unpriced_there", "cost"}
    BY <1>4 DEF Divergences, there
  <2>6. x # "model"
    BY <1>4, <2>1 DEF Divergences, there
  <2>7. x # "tokens"
    BY <1>4, <2>2 DEF Divergences, there
  <2>8. x # "unpriced_there"
    BY <1>4, <2>4 DEF Divergences, there
  <2>9. x # "cost"
    BY <1>4, <2>4 DEF Divergences, there
  <2> QED BY <2>5, <2>6, <2>7, <2>8, <2>9
<1> QED BY <1>2, <1>3, <1>4

\* Every state of the Model Gateway is well typed, and every row is about a request that was made.
THEOREM TypeCorrect == Spec => []TypeOK
BY Invariance, TypesFollow, PTL

\* DecideStream's fallback stops at the first chunk: for every pool and every interleaving, what
\* a client reads comes from one model.
THEOREM StreamsAreNotSpliced == Spec => []NeverSpliced
BY Invariance, SplicesFollow, PTL

\* restrictPool is enough: however many candidates fail, are skipped or answer nothing, the
\* cascade of a restricted call never reaches a provider its profile does not declare.
THEOREM RestrictedDataStaysInside == Spec => []RestrictedStaysInside
BY Invariance, InsideFollows, PTL

\* recordCost and recordDiscardedAttempts leave out no answer: when a call is about to be
\* answered and none of its writes failed, each answer it was charged for has its row.
THEOREM AnswersAreRecorded == Spec => []EveryAnswerIsRecorded
BY Invariance, RecordsFollow, PTL

\* Whatever calls were made and whichever writes failed, Reconcile finds no wrong model, no
\* wrong count, no wrong price and no billed replay in what this gateway wrote.
THEOREM ReconciliationFindsOnlyGaps == Spec => []ReconcileFindsOnlyGaps
BY Invariance, GapsFollow, PTL

\* overBudget reads the ledger before the call and the call is charged after it; however many
\* calls pass together, through whichever door and with whatever replays, discarded answers and
\* failed writes, a run whose ceiling could be read is over it by less than one dearest call for
\* each request that can be under way at a time.
THEOREM OvershootStaysBounded == Spec => []OvershootIsBounded
<1>1. Spec => []CostInv
  <2>1. CostInv /\ [Next]_vars /\ IInv /\ IInv' => CostInv'
    BY CostStep
  <2> QED BY CostInit, <2>1, Invariance, PTL DEF Spec
<1> QED BY <1>1, Invariance, OvershootFollows, PTL

\* "the overshoot is bounded by one call's cost, because the next one is refused"
\* (model_gateway_handlers.go:557) is so for a gateway that serves one call at a time.
THEOREM SerialOvershootIsOneCall == Cardinality(Calls) = 1 => (Spec => []OvershootIsOneCall)
<1> SUFFICES ASSUME Cardinality(Calls) = 1 PROVE Spec => []OvershootIsOneCall
  OBVIOUS
<1>1. OvershootIsBounded => OvershootIsOneCall
  <2>1. Cardinality(Calls) * DearestCall = DearestCall
    BY DearestCallIs
  <2> QED BY <2>1 DEF OvershootIsBounded, OvershootIsOneCall
<1> QED BY <1>1, OvershootStaysBounded, PTL
====
