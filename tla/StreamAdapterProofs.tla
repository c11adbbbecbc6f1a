------------------------ MODULE StreamAdapterProofs ------------------------
(***************************************************************************)
(* Proofs about the streaming adapter, for any wire chunks, any tool call  *)
(* indices and any number of chunks, cut at any event: the flags of        *)
(* streamPhases always agree with what the events handed over say is open. *)
(***************************************************************************)
EXTENDS StreamAdapter, FiniteSetTheorems, SequenceTheorems, TLAPS

-----------------------------------------------------------------------------
(* The inductive invariant. *)

\* What the flags say is open.
IsOpen(ph, phase, index) ==
    \/ phase = "text" /\ ph.text
    \/ phase = "reasoning" /\ ph.reasoning
    \/ phase = "tool_call" /\ ph.call = index

AllPlaced(log) ==
    \A n \in DOMAIN log : \A phase \in PhaseNames : \A index \in IndicesOf(phase) :
        Placed(log, n, phase, index)
Unfinished(log) == \A n \in DOMAIN log : log[n].at # "finish"

\* The flags agree with the events.
Tracks(ph, log) ==
    \A phase \in PhaseNames : \A index \in IndicesOf(phase) :
        OpenAt(log, phase, index, Len(log)) <=> IsOpen(ph, phase, index)

\* The fragments accumulated are those shown, and a call that is not open is
\* complete.
HasLast(log, i) == EndsIn(log, i) # {} => Max(EndsIn(log, i)) \in EndsIn(log, i)
Counts(ph, log) ==
    \A i \in Indices : /\ ph.args[i] = Cardinality(FragmentsIn(log, i))
                       /\ HasLast(log, i)
                       /\ ph.call # i => Complete(log, i)

Good(st) ==
    /\ st \in [ph : PhasesSet, log : Seq(EventSet)]
    /\ AllPlaced(st.log) /\ Unfinished(st.log)
    /\ Tracks(st.ph, st.log)
    /\ Counts(st.ph, st.log)

-----------------------------------------------------------------------------
(* What one more event changes of a log. *)

\* The log with one more event.
LEMMA AppendedLog ==
    ASSUME NEW log \in Seq(EventSet), NEW e \in EventSet
    PROVE  /\ Append(log, e) \in Seq(EventSet)
           /\ Len(log) \in Nat
           /\ Len(Append(log, e)) = Len(log) + 1
           /\ DOMAIN log = 1..Len(log)
           /\ DOMAIN Append(log, e) = 1..(Len(log) + 1)
           /\ \A n \in 1..Len(log) : Append(log, e)[n] = log[n]
           /\ Append(log, e)[Len(log) + 1] = e
  OBVIOUS

\* What was open at an earlier event is not changed by a later one.
LEMMA OpenBefore ==
    ASSUME NEW log \in Seq(EventSet), NEW e \in EventSet, NEW phase, NEW index,
           NEW n \in Int, n <= Len(log)
    PROVE  OpenAt(Append(log, e), phase, index, n) <=> OpenAt(log, phase, index, n)
<1> DEFINE more == Append(log, e)
<1>1. \A i \in 1..n : more[i] = log[i] /\ \A j \in i..n : more[j] = log[j]
  BY AppendedLog
<1> HIDE DEF more
<1> QED BY <1>1 DEF OpenAt, more

\* A phase is open after an event that starts it, or if it was and the event does not end it.
LEMMA OpenAfter ==
    ASSUME NEW log \in Seq(EventSet), NEW e \in EventSet, NEW phase, NEW index
    PROVE  OpenAt(Append(log, e), phase, index, Len(log) + 1) <=>
               \/ Is(e, phase, "start", index)
               \/ OpenAt(log, phase, index, Len(log)) /\ ~Is(e, phase, "end", index)
<1> DEFINE more == Append(log, e)
           len == Len(log)
<1>1. /\ len \in Nat /\ more[len + 1] = e
      /\ \A i \in 1..len : more[i] = log[i]
  BY AppendedLog
<1>2. Is(e, phase, "start", index) => ~Is(e, phase, "end", index)
  BY DEF Is
<1> HIDE DEF more, len
<1>3. ASSUME Is(e, phase, "start", index) PROVE OpenAt(more, phase, index, len + 1)
  <2>1. len + 1 \in 1..(len + 1) /\ \A j \in (len + 1)..(len + 1) : more[j] = e
    BY <1>1
  <2> QED BY <1>1, <1>2, <1>3, <2>1 DEF OpenAt
<1>4. ASSUME OpenAt(log, phase, index, len), ~Is(e, phase, "end", index)
      PROVE  OpenAt(more, phase, index, len + 1)
  <2>1. PICK i \in 1..len : Is(log[i], phase, "start", index) /\ \A j \in i..len : ~Is(log[j], phase, "end", index)
    BY <1>4 DEF OpenAt
  <2>2. i \in 1..(len + 1) /\ Is(more[i], phase, "start", index)
    BY <2>1, <1>1
  <2>3. ASSUME NEW j \in i..(len + 1) PROVE ~Is(more[j], phase, "end", index)
    <3>1. CASE j = len + 1
      BY <3>1, <1>1, <1>4
    <3>2. CASE j # len + 1
      <4>1. j \in i..len /\ j \in 1..len
        BY <3>2, <1>1
      <4> QED BY <4>1, <1>1, <2>1
    <3> QED BY <3>1, <3>2
  <2> QED BY <2>2, <2>3 DEF OpenAt
<1>5. ASSUME OpenAt(more, phase, index, len + 1), ~Is(e, phase, "start", index)
      PROVE  OpenAt(log, phase, index, len) /\ ~Is(e, phase, "end", index)
  <2>1. PICK i \in 1..(len + 1) : /\ Is(more[i], phase, "start", index)
                                  /\ \A j \in i..(len + 1) : ~Is(more[j], phase, "end", index)
    BY <1>5 DEF OpenAt
  <2>2. i # len + 1
    BY <2>1, <1>1, <1>5
  <2>3. i \in 1..len /\ len + 1 \in i..(len + 1)
    BY <2>2, <1>1
  <2>4. \A j \in i..len : ~Is(log[j], phase, "end", index)
    <3> TAKE j \in i..len
    <3>1. j \in 1..len /\ j \in i..(len + 1)
      BY <2>3, <1>1
    <3> QED BY <3>1, <2>1, <1>1
  <2>5. ~Is(e, phase, "end", index)
    BY <2>1, <2>3, <1>1
  <2>6. Is(log[i], phase, "start", index)
    BY <2>1, <2>3, <1>1
  <2> QED BY <2>3, <2>4, <2>5, <2>6 DEF OpenAt
<1> QED BY <1>3, <1>4, <1>5 DEF more, len

\* Whether an earlier event is in its place is not changed by a later one.
LEMMA PlacedBefore ==
    ASSUME NEW log \in Seq(EventSet), NEW e \in EventSet, NEW phase, NEW index,
           NEW n \in 1..Len(log)
    PROVE  Placed(Append(log, e), n, phase, index) <=> Placed(log, n, phase, index)
<1>1. Append(log, e)[n] = log[n] /\ n - 1 \in Int /\ n - 1 <= Len(log) /\ n \in Int /\ n <= Len(log)
  BY AppendedLog
<1>2. /\ OpenAt(Append(log, e), phase, index, n - 1) <=> OpenAt(log, phase, index, n - 1)
      /\ OpenAt(Append(log, e), "reasoning", NoCall, n) <=> OpenAt(log, "reasoning", NoCall, n)
      /\ \A i \in Indices : OpenAt(Append(log, e), "tool_call", i, n - 1) <=> OpenAt(log, "tool_call", i, n - 1)
  BY <1>1, OpenBefore
<1> QED BY <1>1, <1>2 DEF Placed

\* One more delta is one more fragment, one more end one more end.
LEMMA SetsAfter ==
    ASSUME NEW log \in Seq(EventSet), NEW e \in EventSet, NEW i
    PROVE  /\ FragmentsIn(Append(log, e), i) =
                IF Is(e, "tool_call", "delta", i) THEN FragmentsIn(log, i) \cup {Len(log) + 1}
                ELSE FragmentsIn(log, i)
           /\ EndsIn(Append(log, e), i) =
                IF Is(e, "tool_call", "end", i) THEN EndsIn(log, i) \cup {Len(log) + 1}
                ELSE EndsIn(log, i)
           /\ IsFiniteSet(FragmentsIn(log, i)) /\ Cardinality(FragmentsIn(log, i)) \in Nat
           /\ Len(log) + 1 \notin FragmentsIn(log, i)
           /\ EndsIn(log, i) \subseteq 1..Len(log)
<1> DEFINE more == Append(log, e)
           len == Len(log)
<1>1. /\ len \in Nat /\ more[len + 1] = e /\ DOMAIN log = 1..len /\ DOMAIN more = 1..(len + 1)
      /\ \A n \in 1..len : more[n] = log[n]
  BY AppendedLog
<1>2. 1..(len + 1) = 1..len \cup {len + 1} /\ len + 1 \notin 1..len
  BY <1>1
<1>3. IsFiniteSet(1..len)
  BY <1>1, FS_Interval
<1> HIDE DEF more, len
<1>4. FragmentsIn(more, i) = IF Is(e, "tool_call", "delta", i) THEN FragmentsIn(log, i) \cup {len + 1}
                             ELSE FragmentsIn(log, i)
  BY <1>1, <1>2 DEF FragmentsIn
<1>5. EndsIn(more, i) = IF Is(e, "tool_call", "end", i) THEN EndsIn(log, i) \cup {len + 1}
                        ELSE EndsIn(log, i)
  BY <1>1, <1>2 DEF EndsIn
<1>6. FragmentsIn(log, i) \subseteq 1..len /\ EndsIn(log, i) \subseteq 1..len
  BY <1>1 DEF FragmentsIn, EndsIn
<1>7. IsFiniteSet(FragmentsIn(log, i)) /\ Cardinality(FragmentsIn(log, i)) \in Nat
  BY <1>3, <1>6, FS_Subset, FS_CardinalityType
<1> QED BY <1>2, <1>4, <1>5, <1>6, <1>7 DEF more, len

\* A new last element is the largest.
LEMMA LargestIsNew ==
    ASSUME NEW len \in Nat, NEW S, S \subseteq 1..len
    PROVE  Max(S \cup {len + 1}) = len + 1
<1> DEFINE T == S \cup {len + 1}
<1>1. len + 1 \in T /\ \A y \in T : len + 1 >= y
  OBVIOUS
<1>2. \A x \in T : (\A y \in T : x >= y) => x = len + 1
  OBVIOUS
<1> HIDE DEF T
<1> QED BY <1>1, <1>2 DEF Max, T

\* An event that is no fragment and no end of a call leaves it complete.
LEMMA CompleteAfterOther ==
    ASSUME NEW log \in Seq(EventSet), NEW e \in EventSet, NEW i,
           ~Is(e, "tool_call", "delta", i), ~Is(e, "tool_call", "end", i),
           HasLast(log, i), Complete(log, i)
    PROVE  Complete(Append(log, e), i)
<1>1. FragmentsIn(Append(log, e), i) = FragmentsIn(log, i) /\ EndsIn(Append(log, e), i) = EndsIn(log, i)
  BY SetsAfter
<1>2. EndsIn(log, i) # {} => Append(log, e)[Max(EndsIn(log, i))] = log[Max(EndsIn(log, i))]
  BY SetsAfter, AppendedLog DEF HasLast
<1> QED BY <1>1, <1>2 DEF Complete

\* An end that counts all the fragments shown makes the call complete.
LEMMA CompleteAfterEnd ==
    ASSUME NEW log \in Seq(EventSet), NEW e \in EventSet, NEW i,
           Is(e, "tool_call", "end", i), e.n = Cardinality(FragmentsIn(log, i))
    PROVE  Complete(Append(log, e), i)
<1>1. ~Is(e, "tool_call", "delta", i)
  BY DEF Is
<1>2. /\ FragmentsIn(Append(log, e), i) = FragmentsIn(log, i)
      /\ EndsIn(Append(log, e), i) = EndsIn(log, i) \cup {Len(log) + 1}
  BY <1>1, SetsAfter
<1>3. Max(EndsIn(Append(log, e), i)) = Len(log) + 1
  BY <1>2, SetsAfter, LargestIsNew, AppendedLog
<1>4. Append(log, e)[Len(log) + 1] = e
  BY AppendedLog
<1> QED BY <1>2, <1>3, <1>4 DEF Complete

\* The ends of a call keep a last one.
LEMMA LastAfter ==
    ASSUME NEW log \in Seq(EventSet), NEW e \in EventSet, NEW i, HasLast(log, i)
    PROVE  HasLast(Append(log, e), i)
<1>1. CASE Is(e, "tool_call", "end", i)
  <2>1. EndsIn(Append(log, e), i) = EndsIn(log, i) \cup {Len(log) + 1}
    BY <1>1, SetsAfter
  <2>2. Max(EndsIn(Append(log, e), i)) = Len(log) + 1
    BY <2>1, SetsAfter, LargestIsNew, AppendedLog
  <2> QED BY <2>1, <2>2 DEF HasLast
<1>2. CASE ~Is(e, "tool_call", "end", i)
  BY <1>2, SetsAfter DEF HasLast
<1> QED BY <1>1, <1>2

-----------------------------------------------------------------------------
(* One event that fits the flags keeps them in agreement with the events. *)

\* An event the flags allow, for one phase.
Fits(ph, e, phase, index) ==
    /\ Is(e, phase, "delta", index) \/ Is(e, phase, "end", index) => IsOpen(ph, phase, index)
    /\ Is(e, phase, "start", index) =>
        /\ ~IsOpen(ph, phase, index)
        /\ phase = "tool_call" => ph.call = NoCall
    /\ Is(e, "text", "delta", NoCall) \/ (e.phase = "tool_call" /\ e.at # "end") => ~ph.reasoning
    /\ e.at = "finish" => ~IsOpen(ph, phase, index)

\* The flags after an event.
Follows(ph, e, after) ==
    /\ \A phase \in PhaseNames : \A index \in IndicesOf(phase) :
        IsOpen(after, phase, index) <=>
            \/ Is(e, phase, "start", index)
            \/ IsOpen(ph, phase, index) /\ ~Is(e, phase, "end", index)
    /\ \A i \in Indices :
        /\ after.args[i] = IF Is(e, "tool_call", "delta", i) THEN ph.args[i] + 1 ELSE ph.args[i]
        /\ Is(e, "tool_call", "end", i) => e.n = ph.args[i]

\* An event that fits the flags is in its place.
LEMMA PlacedAfter ==
    ASSUME NEW ph \in PhasesSet, NEW log \in Seq(EventSet), NEW e \in EventSet,
           AllPlaced(log), Tracks(ph, log),
           \A phase \in PhaseNames : \A index \in IndicesOf(phase) : Fits(ph, e, phase, index)
    PROVE  AllPlaced(Append(log, e))
<1> DEFINE more == Append(log, e)
           len == Len(log)
<1>1. /\ len \in Nat /\ more[len + 1] = e /\ DOMAIN log = 1..len /\ DOMAIN more = 1..(len + 1)
  BY AppendedLog
<1> SUFFICES ASSUME NEW n \in 1..(len + 1), NEW phase \in PhaseNames, NEW index \in IndicesOf(phase)
             PROVE  Placed(more, n, phase, index)
  BY <1>1 DEF AllPlaced
<1>2. CASE n # len + 1
  <2>1. n \in 1..len
    BY <1>1, <1>2
  <2>2. Placed(log, n, phase, index)
    BY <2>1, <1>1 DEF AllPlaced
  <2> QED BY <2>1, <2>2, PlacedBefore
<1>3. CASE n = len + 1
  <2>1. OpenAt(more, phase, index, n - 1) <=> IsOpen(ph, phase, index)
    <3>1. n - 1 = len
      BY <1>1, <1>3
    <3>2. OpenAt(more, phase, index, len) <=> OpenAt(log, phase, index, len)
      BY <1>1, OpenBefore
    <3> QED BY <3>1, <3>2 DEF Tracks
  <2>2. \A i \in Indices : OpenAt(more, "tool_call", i, n - 1) <=> ph.call = i
    <3> TAKE i \in Indices
    <3>1. n - 1 = len
      BY <1>1, <1>3
    <3>2. OpenAt(more, "tool_call", i, len) <=> OpenAt(log, "tool_call", i, len)
      BY <1>1, OpenBefore
    <3>3. "tool_call" \in PhaseNames /\ i \in IndicesOf("tool_call")
      BY DEF PhaseNames, IndicesOf
    <3>4. OpenAt(log, "tool_call", i, len) <=> IsOpen(ph, "tool_call", i)
      BY <3>3 DEF Tracks
    <3> QED BY <3>1, <3>2, <3>4 DEF IsOpen
  <2>3. Is(e, "text", "delta", NoCall) \/ (e.phase = "tool_call" /\ e.at # "end") =>
            (OpenAt(more, "reasoning", NoCall, n) <=> ph.reasoning)
    <3>1. "reasoning" \in PhaseNames /\ NoCall \in IndicesOf("reasoning")
      BY DEF PhaseNames, IndicesOf
    <3>2. OpenAt(log, "reasoning", NoCall, len) <=> ph.reasoning
      BY <3>1 DEF Tracks, IsOpen
    <3>3. OpenAt(more, "reasoning", NoCall, len + 1) <=>
              \/ Is(e, "reasoning", "start", NoCall)
              \/ OpenAt(log, "reasoning", NoCall, len) /\ ~Is(e, "reasoning", "end", NoCall)
      BY OpenAfter
    <3> QED BY <1>3, <3>2, <3>3 DEF Is
  <2>4. Fits(ph, e, phase, index) /\ more[n] = e
    BY <1>1, <1>3
  <2>5. \A i \in Indices : i # NoCall
    BY IndicesAssumption DEF NoCall
  <2> HIDE DEF more
  <2> QED BY <2>1, <2>2, <2>3, <2>4, <2>5 DEF Placed, Fits
<1> QED BY <1>2, <1>3

\* An event that fits the flags, with the flags that follow it, keeps the invariant.
LEMMA GoodAfter ==
    ASSUME NEW st, Good(st), NEW e \in EventSet, NEW after \in PhasesSet, e.at # "finish",
           \A phase \in PhaseNames : \A index \in IndicesOf(phase) : Fits(st.ph, e, phase, index),
           Follows(st.ph, e, after)
    PROVE  Good([ph |-> after, log |-> Append(st.log, e)])
<1> DEFINE log == st.log
           ph == st.ph
           more == Append(log, e)
<1>1. /\ ph \in PhasesSet /\ log \in Seq(EventSet) /\ AllPlaced(log) /\ Unfinished(log)
      /\ Tracks(ph, log) /\ Counts(ph, log)
  BY DEF Good
<1> HIDE DEF log, ph
<1>2. more \in Seq(EventSet)
  BY <1>1, AppendedLog
<1>3. AllPlaced(more)
  BY <1>1, PlacedAfter DEF ph
<1>4. Unfinished(more)
  <2> SUFFICES ASSUME NEW n \in DOMAIN more PROVE more[n].at # "finish"
    BY DEF Unfinished
  <2>1. n \in 1..Len(log) \/ n = Len(log) + 1
    BY <1>1, AppendedLog
  <2>2. n \in 1..Len(log) => more[n] = log[n] /\ n \in DOMAIN log
    BY <1>1, AppendedLog
  <2>3. more[Len(log) + 1] = e
    BY <1>1, AppendedLog
  <2> QED BY <1>1, <2>1, <2>2, <2>3 DEF Unfinished
<1>5. Tracks(after, more)
  <2> SUFFICES ASSUME NEW phase \in PhaseNames, NEW index \in IndicesOf(phase)
               PROVE  OpenAt(more, phase, index, Len(more)) <=> IsOpen(after, phase, index)
    BY DEF Tracks
  <2>1. Len(more) = Len(log) + 1
    BY <1>1, AppendedLog
  <2>2. OpenAt(more, phase, index, Len(log) + 1) <=>
            \/ Is(e, phase, "start", index)
            \/ OpenAt(log, phase, index, Len(log)) /\ ~Is(e, phase, "end", index)
    BY <1>1, OpenAfter
  <2>3. OpenAt(log, phase, index, Len(log)) <=> IsOpen(ph, phase, index)
    BY <1>1 DEF Tracks
  <2>4. IsOpen(after, phase, index) <=>
            \/ Is(e, phase, "start", index)
            \/ IsOpen(ph, phase, index) /\ ~Is(e, phase, "end", index)
    BY DEF Follows, ph
  <2> QED BY <2>1, <2>2, <2>3, <2>4
<1>6. Counts(after, more)
  <2> SUFFICES ASSUME NEW i \in Indices
               PROVE  /\ after.args[i] = Cardinality(FragmentsIn(more, i))
                      /\ HasLast(more, i)
                      /\ after.call # i => Complete(more, i)
    BY DEF Counts
  <2>1. /\ ph.args[i] = Cardinality(FragmentsIn(log, i)) /\ HasLast(log, i)
        /\ ph.call # i => Complete(log, i)
    BY <1>1 DEF Counts
  <2>2. /\ after.args[i] = IF Is(e, "tool_call", "delta", i) THEN ph.args[i] + 1 ELSE ph.args[i]
        /\ Is(e, "tool_call", "end", i) => e.n = ph.args[i]
    BY DEF Follows, ph
  <2>3. HasLast(more, i)
    BY <1>1, <2>1, LastAfter
  <2>4. "tool_call" \in PhaseNames /\ i \in IndicesOf("tool_call")
    BY DEF PhaseNames, IndicesOf
  <2>5. after.call = i <=> \/ Is(e, "tool_call", "start", i)
                           \/ ph.call = i /\ ~Is(e, "tool_call", "end", i)
    BY <2>4 DEF Follows, IsOpen, ph
  <2>6. Is(e, "tool_call", "delta", i) => ph.call = i
    BY <2>4 DEF Fits, IsOpen, ph
  <2>7. CASE Is(e, "tool_call", "delta", i)
    <3>1. FragmentsIn(more, i) = FragmentsIn(log, i) \cup {Len(log) + 1}
      BY <1>1, <2>7, SetsAfter
    <3>2. Cardinality(FragmentsIn(more, i)) = Cardinality(FragmentsIn(log, i)) + 1
      <4>1. IsFiniteSet(FragmentsIn(log, i)) /\ Len(log) + 1 \notin FragmentsIn(log, i)
        BY <1>1, SetsAfter
      <4>2. Cardinality(FragmentsIn(log, i) \cup {Len(log) + 1}) = Cardinality(FragmentsIn(log, i)) + 1
        BY <4>1, FS_AddElement, Zenon
      <4> QED BY <3>1, <4>2
    <3>3. after.call = i
      BY <2>5, <2>6, <2>7 DEF Is
    <3> QED BY <2>1, <2>2, <2>3, <2>7, <3>2, <3>3
  <2>8. CASE Is(e, "tool_call", "end", i)
    <3>1. ~Is(e, "tool_call", "delta", i)
      BY <2>8 DEF Is
    <3>2. FragmentsIn(more, i) = FragmentsIn(log, i)
      BY <1>1, <3>1, SetsAfter
    <3>3. Complete(more, i)
      BY <1>1, <2>1, <2>2, <2>8, CompleteAfterEnd
    <3> QED BY <2>1, <2>2, <2>3, <3>1, <3>2, <3>3
  <2>9. CASE ~Is(e, "tool_call", "delta", i) /\ ~Is(e, "tool_call", "end", i)
    <3>1. FragmentsIn(more, i) = FragmentsIn(log, i)
      BY <1>1, <2>9, SetsAfter
    <3>2. Complete(log, i) => Complete(more, i)
      BY <1>1, <2>1, <2>9, CompleteAfterOther
    <3> QED BY <2>1, <2>2, <2>3, <2>5, <2>9, <3>1, <3>2
  <2> QED BY <2>7, <2>8, <2>9
<1> QED BY <1>2, <1>3, <1>4, <1>5, <1>6 DEF Good, log

-----------------------------------------------------------------------------
(* Every operation on the phases, one event at a time. *)

\* The types of the flags and of the log.
LEMMA GoodTypes ==
    ASSUME NEW st, Good(st)
    PROVE  /\ st.ph \in PhasesSet /\ st.log \in Seq(EventSet)
           /\ st = [ph |-> st.ph, log |-> st.log]
           /\ st.ph.text \in BOOLEAN /\ st.ph.reasoning \in BOOLEAN
           /\ st.ph.call \in Indices \cup {NoCall} /\ st.ph.args \in [Indices -> Nat]
  BY DEF Good, PhasesSet

\* No tool call has the index that stands for none (-1 in streamPhases).
LEMMA CallsAreIndices == \A i \in Indices : i \in Nat /\ i # NoCall
  BY IndicesAssumption DEF NoCall

\* closeReasoning ends the reasoning if it is open, and clears its flag alone.
LEMMA CloseReasoningKeeps ==
    ASSUME NEW st, Good(st)
    PROVE  Good(CloseReasoning(st)) /\ CloseReasoning(st).ph = [st.ph EXCEPT !.reasoning = FALSE]
<1> DEFINE e == Plain("reasoning", "end")
           after == [st.ph EXCEPT !.reasoning = FALSE]
<1>1. CASE st.ph.reasoning
  <2>1. e \in EventSet /\ after \in PhasesSet /\ e.at # "finish"
    BY GoodTypes DEF EventSet, PhasesSet, PhaseNames, Plain, Event
  <2>2. ASSUME NEW phase \in PhaseNames, NEW index \in IndicesOf(phase)
        PROVE  Fits(st.ph, e, phase, index)
    BY <1>1, CallsAreIndices DEF Fits, Is, IsOpen, Plain, Event
  <2>3. Follows(st.ph, e, after)
    BY GoodTypes DEF Follows, Is, IsOpen, Plain, Event, PhasesSet, PhaseNames, IndicesOf
  <2>4. CloseReasoning(st) = [ph |-> after, log |-> Append(st.log, e)]
    BY <1>1 DEF CloseReasoning, Emit
  <2>5. Good([ph |-> after, log |-> Append(st.log, e)])
    BY <2>1, <2>2, <2>3, GoodAfter
  <2>6. CloseReasoning(st).ph = after
    BY <2>4
  <2> QED BY <2>4, <2>5, <2>6
<1>2. CASE ~st.ph.reasoning
  <2>1. CloseReasoning(st) = st
    BY <1>2 DEF CloseReasoning
  <2>2. st.ph = after
    BY <1>2, GoodTypes DEF PhasesSet
  <2> QED BY <2>1, <2>2
<1> QED BY <1>1, <1>2

\* closeText ends the text if it is open, and clears its flag alone.
LEMMA CloseTextKeeps ==
    ASSUME NEW st, Good(st)
    PROVE  Good(CloseText(st)) /\ CloseText(st).ph = [st.ph EXCEPT !.text = FALSE]
<1> DEFINE e == Plain("text", "end")
           after == [st.ph EXCEPT !.text = FALSE]
<1>1. CASE st.ph.text
  <2>1. e \in EventSet /\ after \in PhasesSet /\ e.at # "finish"
    BY GoodTypes DEF EventSet, PhasesSet, PhaseNames, Plain, Event
  <2>2. ASSUME NEW phase \in PhaseNames, NEW index \in IndicesOf(phase)
        PROVE  Fits(st.ph, e, phase, index)
    BY <1>1, CallsAreIndices DEF Fits, Is, IsOpen, Plain, Event
  <2>3. Follows(st.ph, e, after)
    BY GoodTypes DEF Follows, Is, IsOpen, Plain, Event, PhasesSet, PhaseNames, IndicesOf
  <2>4. CloseText(st) = [ph |-> after, log |-> Append(st.log, e)]
    BY <1>1 DEF CloseText, Emit
  <2>5. Good([ph |-> after, log |-> Append(st.log, e)])
    BY <2>1, <2>2, <2>3, GoodAfter
  <2>6. CloseText(st).ph = after
    BY <2>4
  <2> QED BY <2>4, <2>5, <2>6
<1>2. CASE ~st.ph.text
  <2>1. CloseText(st) = st
    BY <1>2 DEF CloseText
  <2>2. st.ph = after
    BY <1>2, GoodTypes DEF PhasesSet
  <2> QED BY <2>1, <2>2
<1> QED BY <1>1, <1>2

\* closeToolCall ends the open call with all of its arguments, and clears its flag alone.
LEMMA CloseToolCallKeeps ==
    ASSUME NEW st, Good(st)
    PROVE  Good(CloseToolCall(st)) /\ CloseToolCall(st).ph = [st.ph EXCEPT !.call = NoCall]
<1> DEFINE i == st.ph.call
           e == Event("tool_call", "end", i, st.ph.args[i])
           after == [st.ph EXCEPT !.call = NoCall]
<1>1. CASE i # NoCall
  <2>0. i \in Indices /\ st.ph.args[i] \in Nat
    BY <1>1, GoodTypes
  <2>1. e \in EventSet /\ after \in PhasesSet /\ e.at # "finish"
    BY <2>0, GoodTypes DEF EventSet, PhasesSet, PhaseNames, Event
  <2>2. ASSUME NEW phase \in PhaseNames, NEW index \in IndicesOf(phase)
        PROVE  Fits(st.ph, e, phase, index)
    BY <1>1 DEF Fits, Is, IsOpen, Event
  <2>3. Follows(st.ph, e, after)
    BY <2>0, GoodTypes, CallsAreIndices DEF Follows, Is, IsOpen, Event, PhasesSet, PhaseNames, IndicesOf
  <2>4. CloseToolCall(st) = [ph |-> after, log |-> Append(st.log, e)]
    BY <1>1 DEF CloseToolCall, Emit
  <2> QED BY <2>1, <2>2, <2>3, <2>4, GoodAfter
<1>2. CASE i = NoCall
  <2>1. CloseToolCall(st) = st
    BY <1>2 DEF CloseToolCall
  <2>2. st.ph = after
    BY <1>2, GoodTypes DEF PhasesSet
  <2> QED BY <2>1, <2>2
<1> QED BY <1>1, <1>2

\* closeAll leaves nothing open.
LEMMA CloseAllKeeps ==
    ASSUME NEW st, Good(st)
    PROVE  /\ Good(CloseAll(st))
           /\ CloseAll(st).ph.call = NoCall /\ ~CloseAll(st).ph.text /\ ~CloseAll(st).ph.reasoning
<1> DEFINE one == CloseReasoning(st)
           two == CloseText(one)
           three == CloseToolCall(two)
<1>1. Good(one) /\ one.ph = [st.ph EXCEPT !.reasoning = FALSE]
  BY CloseReasoningKeeps
<1>2. Good(two) /\ two.ph = [one.ph EXCEPT !.text = FALSE]
  BY <1>1, CloseTextKeeps
<1>3. Good(three) /\ three.ph = [two.ph EXCEPT !.call = NoCall]
  BY <1>2, CloseToolCallKeeps
<1>4. CloseAll(st) = three
  BY DEF CloseAll
<1>5. st.ph \in PhasesSet /\ one.ph \in PhasesSet /\ two.ph \in PhasesSet
  BY <1>1, <1>2, GoodTypes
<1> HIDE DEF one, two, three
<1> QED BY <1>1, <1>2, <1>3, <1>4, <1>5 DEF PhasesSet

\* A start of the reasoning, which was not open.
LEMMA ReasoningOpens ==
    ASSUME NEW st, Good(st), ~st.ph.reasoning
    PROVE  Good(Emit(st, [st.ph EXCEPT !.reasoning = TRUE], Plain("reasoning", "start")))
<1> DEFINE e == Plain("reasoning", "start")
           after == [st.ph EXCEPT !.reasoning = TRUE]
<1>1. e \in EventSet /\ after \in PhasesSet /\ e.at # "finish"
  BY GoodTypes DEF EventSet, PhasesSet, PhaseNames, Plain, Event
<1>2. ASSUME NEW phase \in PhaseNames, NEW index \in IndicesOf(phase)
      PROVE  Fits(st.ph, e, phase, index)
  BY CallsAreIndices DEF Fits, Is, IsOpen, Plain, Event
<1>3. Follows(st.ph, e, after)
  BY GoodTypes DEF Follows, Is, IsOpen, Plain, Event, PhasesSet, PhaseNames, IndicesOf
<1>4. Emit(st, after, e) = [ph |-> after, log |-> Append(st.log, e)]
  BY DEF Emit
<1> QED BY <1>1, <1>2, <1>3, <1>4, GoodAfter

\* A start of the text, which was not open.
LEMMA TextOpens ==
    ASSUME NEW st, Good(st), ~st.ph.text
    PROVE  Good(Emit(st, [st.ph EXCEPT !.text = TRUE], Plain("text", "start")))
<1> DEFINE e == Plain("text", "start")
           after == [st.ph EXCEPT !.text = TRUE]
<1>1. e \in EventSet /\ after \in PhasesSet /\ e.at # "finish"
  BY GoodTypes DEF EventSet, PhasesSet, PhaseNames, Plain, Event
<1>2. ASSUME NEW phase \in PhaseNames, NEW index \in IndicesOf(phase)
      PROVE  Fits(st.ph, e, phase, index)
  BY CallsAreIndices DEF Fits, Is, IsOpen, Plain, Event
<1>3. Follows(st.ph, e, after)
  BY GoodTypes DEF Follows, Is, IsOpen, Plain, Event, PhasesSet, PhaseNames, IndicesOf
<1>4. Emit(st, after, e) = [ph |-> after, log |-> Append(st.log, e)]
  BY DEF Emit
<1> QED BY <1>1, <1>2, <1>3, <1>4, GoodAfter

\* A delta of the reasoning, which is open.
LEMMA ReasoningContinues ==
    ASSUME NEW st, Good(st), st.ph.reasoning
    PROVE  Good(Emit(st, st.ph, Plain("reasoning", "delta")))
<1> DEFINE e == Plain("reasoning", "delta")
<1>1. e \in EventSet /\ st.ph \in PhasesSet /\ e.at # "finish"
  BY GoodTypes DEF EventSet, PhaseNames, Plain, Event
<1>2. ASSUME NEW phase \in PhaseNames, NEW index \in IndicesOf(phase)
      PROVE  Fits(st.ph, e, phase, index)
  BY CallsAreIndices DEF Fits, Is, IsOpen, Plain, Event
<1>3. Follows(st.ph, e, st.ph)
  BY GoodTypes DEF Follows, Is, IsOpen, Plain, Event, PhasesSet, PhaseNames, IndicesOf
<1>4. Emit(st, st.ph, e) = [ph |-> st.ph, log |-> Append(st.log, e)]
  BY DEF Emit
<1> QED BY <1>1, <1>2, <1>3, <1>4, GoodAfter

\* A delta of the text, which is open, with no reasoning around it.
LEMMA TextContinues ==
    ASSUME NEW st, Good(st), st.ph.text, ~st.ph.reasoning
    PROVE  Good(Emit(st, st.ph, Plain("text", "delta")))
<1> DEFINE e == Plain("text", "delta")
<1>1. e \in EventSet /\ st.ph \in PhasesSet /\ e.at # "finish"
  BY GoodTypes DEF EventSet, PhaseNames, Plain, Event
<1>2. ASSUME NEW phase \in PhaseNames, NEW index \in IndicesOf(phase)
      PROVE  Fits(st.ph, e, phase, index)
  BY CallsAreIndices DEF Fits, Is, IsOpen, Plain, Event
<1>3. Follows(st.ph, e, st.ph)
  BY GoodTypes DEF Follows, Is, IsOpen, Plain, Event, PhasesSet, PhaseNames, IndicesOf
<1>4. Emit(st, st.ph, e) = [ph |-> st.ph, log |-> Append(st.log, e)]
  BY DEF Emit
<1> QED BY <1>1, <1>2, <1>3, <1>4, GoodAfter

\* A piece of reasoning keeps the invariant, whatever was open.
LEMMA OnReasoningKeeps ==
    ASSUME NEW st, Good(st)
    PROVE  Good(OnReasoning(st))
<1> DEFINE opened == IF st.ph.reasoning THEN st
                     ELSE Emit(st, [st.ph EXCEPT !.reasoning = TRUE], Plain("reasoning", "start"))
<1>1. Good(opened)
  BY ReasoningOpens
<1>2. opened.ph.reasoning
  BY GoodTypes DEF Emit, PhasesSet
<1>3. OnReasoning(st) = Emit(opened, opened.ph, Plain("reasoning", "delta"))
  BY DEF OnReasoning
<1> HIDE DEF opened
<1> QED BY <1>1, <1>2, <1>3, ReasoningContinues

\* A piece of text keeps the invariant, whatever was open.
LEMMA OnTextKeeps ==
    ASSUME NEW st, Good(st)
    PROVE  Good(OnText(st))
<1> DEFINE closed == CloseReasoning(st)
           opened == IF closed.ph.text THEN closed
                     ELSE Emit(closed, [closed.ph EXCEPT !.text = TRUE], Plain("text", "start"))
<1>1. Good(closed) /\ closed.ph = [st.ph EXCEPT !.reasoning = FALSE]
  BY CloseReasoningKeeps
<1>2. ~closed.ph.reasoning
  BY <1>1, GoodTypes DEF PhasesSet
<1>3. OnText(st) = Emit(opened, opened.ph, Plain("text", "delta"))
  BY DEF OnText
<1> HIDE DEF closed
<1>4. Good(opened)
  BY <1>1, TextOpens
<1>5. opened.ph.text /\ ~opened.ph.reasoning
  BY <1>1, <1>2, GoodTypes DEF Emit, PhasesSet
<1> HIDE DEF opened
<1> QED BY <1>3, <1>4, <1>5, TextContinues

\* A start of a tool call when none is open.
LEMMA CallOpens ==
    ASSUME NEW st, Good(st), NEW i \in Indices, st.ph.call = NoCall, ~st.ph.reasoning
    PROVE  Good(OpenToolCall(st, i))
<1> DEFINE e == Event("tool_call", "start", i, 0)
           after == [st.ph EXCEPT !.call = i]
<1>1. e \in EventSet /\ after \in PhasesSet /\ e.at # "finish"
  BY GoodTypes DEF EventSet, PhasesSet, PhaseNames, Event
<1>2. ASSUME NEW phase \in PhaseNames, NEW index \in IndicesOf(phase)
      PROVE  Fits(st.ph, e, phase, index)
  BY CallsAreIndices DEF Fits, Is, IsOpen, Event
<1>3. Follows(st.ph, e, after)
  BY GoodTypes, CallsAreIndices DEF Follows, Is, IsOpen, Event, PhasesSet, PhaseNames, IndicesOf
<1>4. OpenToolCall(st, i) = [ph |-> after, log |-> Append(st.log, e)]
  BY DEF OpenToolCall, Emit
<1> QED BY <1>1, <1>2, <1>3, <1>4, GoodAfter

\* A fragment of the open call, with arguments or without.
LEMMA OnArgsKeeps ==
    ASSUME NEW st, Good(st), NEW i \in Indices, NEW args, st.ph.call = i, ~st.ph.reasoning
    PROVE  Good(OnArgs(st, i, args))
<1> DEFINE e == Event("tool_call", "delta", i, 0)
           after == [st.ph EXCEPT !.args[i] = @ + 1]
<1>0. [st.ph.args EXCEPT ![i] = @ + 1] \in [Indices -> Nat]
  BY GoodTypes
<1>1. e \in EventSet /\ after \in PhasesSet /\ e.at # "finish"
  BY <1>0, GoodTypes DEF EventSet, PhasesSet, PhaseNames, Event
<1>2. ASSUME NEW phase \in PhaseNames, NEW index \in IndicesOf(phase)
      PROVE  Fits(st.ph, e, phase, index)
  BY CallsAreIndices DEF Fits, Is, IsOpen, Event
<1>3. Follows(st.ph, e, after)
  BY GoodTypes, CallsAreIndices DEF Follows, Is, IsOpen, Event, PhasesSet, PhaseNames, IndicesOf
<1>4. Emit(st, after, e) = [ph |-> after, log |-> Append(st.log, e)]
  BY DEF Emit
<1>5. Good(Emit(st, after, e))
  BY <1>1, <1>2, <1>3, <1>4, GoodAfter
<1> QED BY <1>5 DEF OnArgs

\* A fragment of any call keeps the invariant: the open call is ended, and this one opened, first.
LEMMA OnCallKeeps ==
    ASSUME NEW st, Good(st), NEW i \in Indices, NEW args
    PROVE  Good(OnCall(st, i, args))
<1> DEFINE closed == CloseReasoning(st)
           shut == CloseToolCall(closed)
           opened == IF closed.ph.call = i THEN closed
                     ELSE OpenToolCall(shut, i)
<1>1. Good(closed) /\ closed.ph = [st.ph EXCEPT !.reasoning = FALSE]
  BY CloseReasoningKeeps
<1>2. ~closed.ph.reasoning
  BY <1>1, GoodTypes DEF PhasesSet
<1>3. OnCall(st, i, args) = OnArgs(opened, i, args)
  BY DEF OnCall
<1> HIDE DEF closed
<1>4. Good(shut) /\ shut.ph = [closed.ph EXCEPT !.call = NoCall]
  BY <1>1, CloseToolCallKeeps
<1>5. shut.ph.call = NoCall /\ ~shut.ph.reasoning
  BY <1>1, <1>2, <1>4, GoodTypes DEF PhasesSet
<1> HIDE DEF shut
<1>6. Good(opened)
  BY <1>1, <1>4, <1>5, CallOpens
<1>7. opened.ph.call = i /\ ~opened.ph.reasoning
  BY <1>2, <1>4, <1>5, GoodTypes DEF OpenToolCall, Emit, PhasesSet
<1> HIDE DEF opened
<1> QED BY <1>3, <1>6, <1>7, OnArgsKeeps

\* A flag of the finish event changes nothing that is shown.
LEMMA SilentKeeps ==
    ASSUME NEW st, Good(st)
    PROVE  /\ Good([ph |-> [st.ph EXCEPT !.sawFinish = TRUE], log |-> st.log])
           /\ Good([ph |-> [st.ph EXCEPT !.usage = TRUE], log |-> st.log])
<1> DEFINE ph1 == [st.ph EXCEPT !.sawFinish = TRUE]
           ph2 == [st.ph EXCEPT !.usage = TRUE]
<1>2. /\ ph1 \in PhasesSet /\ ph1.text = st.ph.text /\ ph1.reasoning = st.ph.reasoning
      /\ ph1.call = st.ph.call /\ ph1.args = st.ph.args
      /\ ph2 \in PhasesSet /\ ph2.text = st.ph.text /\ ph2.reasoning = st.ph.reasoning
      /\ ph2.call = st.ph.call /\ ph2.args = st.ph.args
  BY GoodTypes DEF PhasesSet
<1> HIDE DEF ph1, ph2
<1>3. Tracks(st.ph, st.log) => Tracks(ph1, st.log) /\ Tracks(ph2, st.log)
  BY <1>2 DEF Tracks, IsOpen
<1>4. Counts(st.ph, st.log) => Counts(ph1, st.log) /\ Counts(ph2, st.log)
  BY <1>2 DEF Counts
<1>5. Good([ph |-> ph1, log |-> st.log]) /\ Good([ph |-> ph2, log |-> st.log])
  BY <1>2, <1>3, <1>4 DEF Good
<1> QED BY <1>5 DEF ph1, ph2

\* Each part of a chunk keeps the invariant.
LEMMA OnPartKeeps ==
    ASSUME NEW st, Good(st), NEW p \in PartSet
    PROVE  Good(OnPart(st, p))
<1>1. CASE p.kind = "reasoning"
  BY <1>1, OnReasoningKeeps DEF OnPart
<1>2. CASE p.kind = "text"
  BY <1>2, OnTextKeeps DEF OnPart
<1>3. CASE p.kind = "call"
  BY <1>3, OnCallKeeps DEF OnPart, PartSet
<1>4. CASE p.kind = "finish"
  BY <1>4, SilentKeeps DEF OnPart
<1>5. CASE p.kind = "usage"
  BY <1>5, SilentKeeps DEF OnPart
<1> QED BY <1>1, <1>2, <1>3, <1>4, <1>5 DEF PartSet

-----------------------------------------------------------------------------
(* A log that is cut, and the log of a stream that finished. *)

\* The first events of a log.
LEMMA PrefixOf ==
    ASSUME NEW log \in Seq(EventSet), NEW n \in 0..Len(log)
    PROVE  /\ SubSeq(log, 1, n) \in Seq(EventSet) /\ Len(SubSeq(log, 1, n)) = n
           /\ DOMAIN SubSeq(log, 1, n) = 1..n /\ 1..n \subseteq DOMAIN log
           /\ \A k \in 1..n : SubSeq(log, 1, n)[k] = log[k]
  OBVIOUS

\* A log whose events are in place, with finish at its end if anywhere.
WellFormed(log) ==
    AllPlaced(log) /\ \A n \in DOMAIN log : log[n].at = "finish" => n = Len(log)

\* Whatever is cut off a log, what is left is well formed.
LEMMA PrefixIsWellFormed ==
    ASSUME NEW log \in Seq(EventSet), WellFormed(log), NEW m \in 0..Len(log)
    PROVE  WellFormed(SubSeq(log, 1, m))
<1> DEFINE cut == SubSeq(log, 1, m)
<1>1. /\ m \in Nat /\ Len(cut) = m /\ DOMAIN cut = 1..m /\ 1..m \subseteq DOMAIN log
      /\ \A k \in 1..m : cut[k] = log[k]
  BY PrefixOf
<1> HIDE DEF cut
<1>2. ASSUME NEW phase, NEW index, NEW n \in Int, n <= m
      PROVE  OpenAt(cut, phase, index, n) <=> OpenAt(log, phase, index, n)
  <2>1. \A i \in 1..n : cut[i] = log[i] /\ \A j \in i..n : cut[j] = log[j]
    BY <1>1, <1>2
  <2> QED BY <2>1 DEF OpenAt
<1>3. ASSUME NEW n \in 1..m, NEW phase \in PhaseNames, NEW index \in IndicesOf(phase)
      PROVE  Placed(cut, n, phase, index)
  <2>1. Placed(log, n, phase, index)
    BY <1>1 DEF WellFormed, AllPlaced
  <2>2. n \in Int /\ n <= m /\ n - 1 \in Int /\ n - 1 <= m /\ cut[n] = log[n]
    BY <1>1
  <2>3. /\ OpenAt(cut, phase, index, n - 1) <=> OpenAt(log, phase, index, n - 1)
        /\ OpenAt(cut, "reasoning", NoCall, n) <=> OpenAt(log, "reasoning", NoCall, n)
        /\ \A i \in Indices : OpenAt(cut, "tool_call", i, n - 1) <=> OpenAt(log, "tool_call", i, n - 1)
    BY <2>2, <1>2
  <2> QED BY <2>1, <2>2, <2>3 DEF Placed
<1>4. ASSUME NEW n \in 1..m, cut[n].at = "finish" PROVE n = m
  <2>1. n = Len(log)
    BY <1>1, <1>4 DEF WellFormed
  <2> QED BY <2>1, <1>1
<1> QED BY <1>1, <1>3, <1>4 DEF WellFormed, AllPlaced, cut

\* A log with the invariant is well formed.
LEMMA GoodIsWellFormed ==
    ASSUME NEW st, Good(st)
    PROVE  WellFormed(st.log)
  BY DEF Good, WellFormed, Unfinished

\* The finish event, once every phase is closed.
LEMMA FinishedLog ==
    ASSUME NEW st, Good(st)
    PROVE  LET log == Append(CloseAll(st).log, Plain("stream", "finish"))
           IN  /\ log \in Seq(EventSet) /\ WellFormed(log)
               /\ Last(log).at = "finish"
               /\ \A i \in Indices : Complete(log, i)
<1> DEFINE closed == CloseAll(st)
           e == Plain("stream", "finish")
           log == Append(closed.log, e)
<1>1. Good(closed) /\ closed.ph.call = NoCall /\ ~closed.ph.text /\ ~closed.ph.reasoning
  BY CloseAllKeeps
<1> HIDE DEF closed
<1>2. closed.ph \in PhasesSet /\ closed.log \in Seq(EventSet)
  BY <1>1, GoodTypes
<1>3. e \in EventSet /\ e.at = "finish" /\ e.phase = "stream"
  BY DEF EventSet, PhaseNames, Plain, Event
<1> HIDE DEF e
<1>4. /\ log \in Seq(EventSet) /\ Len(log) = Len(closed.log) + 1 /\ log[Len(log)] = e
      /\ DOMAIN log = 1..(Len(closed.log) + 1) /\ Len(closed.log) \in Nat
      /\ \A n \in 1..Len(closed.log) : log[n] = closed.log[n] /\ n \in DOMAIN closed.log
  BY <1>2, <1>3, AppendedLog
<1>5. ASSUME NEW phase \in PhaseNames, NEW index \in IndicesOf(phase)
      PROVE  Fits(closed.ph, e, phase, index)
  BY <1>1, <1>3, CallsAreIndices DEF Fits, Is, IsOpen, IndicesOf, PhaseNames
<1>6. AllPlaced(log)
  BY <1>1, <1>2, <1>3, <1>5, PlacedAfter DEF Good
<1>7. ASSUME NEW n \in DOMAIN log, log[n].at = "finish" PROVE n = Len(log)
  <2>1. n \in 1..Len(closed.log) => log[n].at # "finish"
    BY <1>1, <1>4 DEF Good, Unfinished
  <2> QED BY <2>1, <1>4, <1>7
<1>8. ASSUME NEW i \in Indices PROVE Complete(log, i)
  <2>1. HasLast(closed.log, i) /\ Complete(closed.log, i)
    BY <1>1, CallsAreIndices DEF Good, Counts
  <2>2. ~Is(e, "tool_call", "delta", i) /\ ~Is(e, "tool_call", "end", i)
    BY <1>3 DEF Is
  <2> QED BY <2>1, <2>2, <1>2, <1>3, CompleteAfterOther
<1> QED BY <1>3, <1>4, <1>6, <1>7, <1>8 DEF WellFormed, Last, closed, e

-----------------------------------------------------------------------------
(* The specification. *)

Current == [ph |-> phases, log |-> events]

\* The type invariant, the agreement of flags and events while chunks are read,
\* and the two properties themselves.
IInv ==
    /\ TypeOK
    /\ state = "reading" => Good(Current)
    /\ WellFormed(events)
    /\ LastEndIsComplete

\* No event yet, and nothing open.
LEMMA InitIsGood == Init => IInv
<1> SUFFICES ASSUME Init PROVE IInv
  OBVIOUS
<1> DEFINE e == Plain("stream", "start")
<1>1. e \in EventSet /\ e.at = "start" /\ e.phase = "stream"
  BY DEF EventSet, PhaseNames, Plain, Event
<1>2. events = <<e>> /\ events \in Seq(EventSet) /\ Len(events) = 1 /\ DOMAIN events = 1..1 /\ events[1] = e
  BY <1>1 DEF Init
<1> HIDE DEF e
<1>3. phases \in PhasesSet /\ ~phases.text /\ ~phases.reasoning /\ phases.call = NoCall
      /\ \A i \in Indices : phases.args[i] = 0
  BY DEF Init, NewPhases, PhasesSet
<1>4. todo \in Seq(PartSet) /\ chunks \in 0..MaxChunks /\ state = "reading"
  BY MaxChunksAssumption DEF Init
<1>5. ASSUME NEW phase \in PhaseNames, NEW index, NEW n \in Int, n <= 1
      PROVE  ~OpenAt(events, phase, index, n)
  <2>1. \A i \in 1..n : events[i] = e
    BY <1>2, <1>5
  <2> QED BY <1>1, <2>1 DEF OpenAt, Is, PhaseNames
<1>6. AllPlaced(events) /\ Unfinished(events)
  <2>1. ASSUME NEW n \in DOMAIN events, NEW phase \in PhaseNames, NEW index \in IndicesOf(phase)
        PROVE  Placed(events, n, phase, index)
    <3>1. n = 1 /\ events[n] = e
      BY <1>2
    <3> QED BY <3>1, <1>1 DEF Placed, Is, PhaseNames
  <2> QED BY <2>1, <1>1, <1>2 DEF AllPlaced, Unfinished
<1>7. Tracks(phases, events)
  BY <1>2, <1>3, <1>5, CallsAreIndices DEF Tracks, IsOpen, IndicesOf
<1>8. Counts(phases, events)
  <2> SUFFICES ASSUME NEW i \in Indices
               PROVE  phases.args[i] = Cardinality(FragmentsIn(events, i)) /\ HasLast(events, i) /\ Complete(events, i)
    BY DEF Counts
  <2>1. FragmentsIn(events, i) = {} /\ EndsIn(events, i) = {}
    BY <1>1, <1>2 DEF FragmentsIn, EndsIn, Is
  <2> QED BY <2>1, <1>3, FS_EmptySet DEF HasLast, Complete
<1>9. Good(Current)
  BY <1>2, <1>3, <1>6, <1>7, <1>8 DEF Good, Current
<1> QED BY <1>2, <1>3, <1>4, <1>6, <1>9 DEF IInv, TypeOK, WellFormed, Unfinished, LastEndIsComplete

\* An element of a sequence is in its set.
LEMMA ElementOf ==
    ASSUME NEW S, NEW seq \in Seq(S), NEW i \in DOMAIN seq
    PROVE  seq[i] \in S
  OBVIOUS

\* Sequences of one element and of none.
LEMMA OneElement ==
    ASSUME NEW S, NEW x \in S
    PROVE  <<x>> \in Seq(S) /\ <<>> \in Seq(S)
  OBVIOUS

\* A chunk consists of parts.
LEMMA PartsAreTyped ==
    ASSUME NEW d \in Deltas
    PROVE  PartsOf(d) \in Seq(PartSet)
<1>1. ASSUME NEW there, NEW kind \in {"reasoning", "text", "finish", "usage"}
      PROVE  PartIf(there, kind) \in Seq(PartSet)
  <2>1. Part(kind, NoCall, FALSE) \in PartSet
    BY DEF Part, PartSet
  <2>2. <<>> \in Seq(PartSet) /\ <<Part(kind, NoCall, FALSE)>> \in Seq(PartSet)
    BY <2>1, OneElement, Zenon
  <2> QED BY <2>2, Zenon DEF PartIf
<1>2. d.calls \in Seq([index : Indices, args : BOOLEAN])
  BY DeltasAssumption
<1>3. [i \in DOMAIN d.calls |-> Part("call", d.calls[i].index, d.calls[i].args)] \in Seq(PartSet)
  <2>1. ASSUME NEW i \in DOMAIN d.calls
        PROVE  Part("call", d.calls[i].index, d.calls[i].args) \in PartSet
    <3>1. d.calls[i] \in [index : Indices, args : BOOLEAN]
      BY <1>2, ElementOf, Zenon
    <3>2. d.calls[i].index \in Indices /\ d.calls[i].args \in BOOLEAN
      BY <3>1
    <3> QED BY <3>2, Zenon DEF Part, PartSet
  <2>2. DOMAIN d.calls = 1..Len(d.calls) /\ Len(d.calls) \in Nat
    BY <1>2
  <2> QED BY <2>1, <2>2
<1>4. /\ PartIf(d.reasoning, "reasoning") \in Seq(PartSet) /\ PartIf(d.text, "text") \in Seq(PartSet)
      /\ PartIf(d.finish, "finish") \in Seq(PartSet) /\ PartIf(d.usage, "usage") \in Seq(PartSet)
  BY <1>1
<1> QED BY <1>3, <1>4 DEF PartsOf

\* A log that is handed over in part.
LEMMA CutKeeps ==
    ASSUME NEW log \in Seq(EventSet), WellFormed(log), events \in Seq(EventSet),
           phases' \in PhasesSet, chunks' \in 0..MaxChunks, CutAt(log)
    PROVE  IInv'
<1>1. PICK n \in Len(events)..Len(log) : events' = SubSeq(log, 1, n)
  BY DEF CutAt, Yielded
<1>2. n \in 0..Len(log)
  BY <1>1
<1>3. events' \in Seq(EventSet) /\ WellFormed(events')
  BY <1>1, <1>2, PrefixOf, PrefixIsWellFormed
<1>4. todo' = <<>> /\ state' = "cut"
  BY DEF CutAt
<1>5. TypeOK'
  BY <1>3, <1>4 DEF TypeOK
<1>6. (WellFormed(events))'
  BY <1>3 DEF WellFormed, AllPlaced, Placed, OpenAt
<1> QED BY <1>4, <1>5, <1>6 DEF IInv, LastEndIsComplete

\* Every step keeps the invariant.
LEMMA NextIsGood == IInv /\ [Next]_vars => IInv'
<1> SUFFICES ASSUME IInv, [Next]_vars PROVE IInv'
  OBVIOUS
<1> USE DEF IInv
<1>0. TypeOK
  OBVIOUS
<1>1. ASSUME NEW d \in Deltas, ReadChunk(d) PROVE IInv'
  <2>1. UNCHANGED <<phases, events, state>> /\ todo' \in Seq(PartSet)
    BY <1>1, PartsAreTyped DEF ReadChunk
  <2>2. TypeOK'
    BY <1>1, <2>1, MaxChunksAssumption DEF ReadChunk, TypeOK
  <2>3. Current' = Current
    BY <2>1 DEF Current
  <2> QED BY <2>1, <2>2, <2>3 DEF LastEndIsComplete
<1>2. ASSUME HandlePart PROVE IInv'
  <2> DEFINE st == OnPart(Current, Head(todo))
  <2>1. Good(Current) /\ Head(todo) \in PartSet /\ Tail(todo) \in Seq(PartSet)
    BY <1>2 DEF HandlePart, TypeOK
  <2>2. Good(st)
    BY <2>1, OnPartKeeps
  <2>3. phases' = st.ph /\ chunks' = chunks
        /\ (\/ events' = st.log /\ todo' = Tail(todo) /\ UNCHANGED state
            \/ CutAt(st.log))
    BY <1>2 DEF HandlePart, Current
  <2> HIDE DEF st
  <2>4. st.ph \in PhasesSet /\ st.log \in Seq(EventSet) /\ st = [ph |-> st.ph, log |-> st.log] /\ WellFormed(st.log)
    BY <2>2, GoodTypes, GoodIsWellFormed
  <2>5. CASE CutAt(st.log)
    BY <2>3, <2>4, <2>5, CutKeeps DEF TypeOK
  <2>6. CASE events' = st.log /\ todo' = Tail(todo) /\ UNCHANGED state
    <3>1. Current' = st
      BY <2>3, <2>4, <2>6 DEF Current
    <3>2. TypeOK'
      BY <2>1, <2>3, <2>4, <2>6 DEF TypeOK
    <3>3. (Good(Current))'
      BY <3>1, <2>2
    <3>4. (WellFormed(events))'
      BY <2>4, <2>6
    <3> QED BY <1>2, <2>6, <3>2, <3>3, <3>4 DEF LastEndIsComplete, HandlePart
  <2> QED BY <2>3, <2>5, <2>6
<1>3. ASSUME Finish PROVE IInv'
  <2> DEFINE st == CloseAll(Current)
             log == Append(st.log, Plain("stream", "finish"))
  <2>1. Good(Current)
    BY <1>3 DEF Finish
  <2>2. log \in Seq(EventSet) /\ WellFormed(log) /\ Last(log).at = "finish" /\ \A i \in Indices : Complete(log, i)
    BY <2>1, FinishedLog
  <2>3. st.ph \in PhasesSet
    BY <2>1, CloseAllKeeps, GoodTypes
  <2>4. phases' = st.ph /\ chunks' = chunks
        /\ ((events' = log /\ state' = "finished" /\ UNCHANGED todo) \/ CutAt(log))
    BY <1>3 DEF Finish, Current
  <2> HIDE DEF st, log
  <2>5. CASE CutAt(log)
    BY <2>2, <2>3, <2>4, <2>5, CutKeeps DEF TypeOK
  <2>6. CASE events' = log /\ state' = "finished" /\ UNCHANGED todo
    <3>1. TypeOK'
      BY <2>2, <2>3, <2>4, <2>6 DEF TypeOK
    <3>2. (WellFormed(events))'
      BY <2>2, <2>6
    <3>3. LastEndIsComplete'
      BY <2>2, <2>6 DEF LastEndIsComplete
    <3> QED BY <2>6, <3>1, <3>2, <3>3
  <2> QED BY <2>4, <2>5, <2>6
<1>4. ASSUME Abort PROVE IInv'
  BY <1>4 DEF Abort, TypeOK, LastEndIsComplete, WellFormed
<1>5. ASSUME UNCHANGED vars PROVE IInv'
  <2>1. Current' = Current /\ TypeOK' /\ (WellFormed(events))' /\ LastEndIsComplete' /\ state' = state
    BY <1>5 DEF vars, Current, TypeOK, LastEndIsComplete, WellFormed
  <2> QED BY <2>1
<1> QED BY <1>1, <1>2, <1>3, <1>4, <1>5 DEF Next

\* Every event handed to yield has its type, and the flags of streamPhases
\* name an index the wire used.
THEOREM TypeCorrect == Spec => []TypeOK
<1>1. IInv => TypeOK
  BY DEF IInv
<1> QED BY <1>1, InitIsGood, NextIsGood, PTL DEF Spec

\* Wherever a stream is cut, what the consumer has read opens and closes every
\* phase properly, for any chunks the server sends.
THEOREM StreamsAreWellFormed == Spec => []LifecycleIsWellFormed
<1>1. IInv => LifecycleIsWellFormed
  BY DEF IInv, WellFormed, AllPlaced, LifecycleIsWellFormed
<1> QED BY <1>1, InitIsGood, NextIsGood, PTL DEF Spec

\* No fragment of a tool call's arguments is lost, however many calls are
\* interleaved and however often one is closed and opened again.
THEOREM NoFragmentIsLost == Spec => []LastEndIsComplete
<1>1. IInv => LastEndIsComplete
  BY DEF IInv
<1> QED BY <1>1, InitIsGood, NextIsGood, PTL DEF Spec
=============================================================================
