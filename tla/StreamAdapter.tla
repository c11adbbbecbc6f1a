---------------------------- MODULE StreamAdapter ----------------------------
(***************************************************************************)
(* The streaming adapter of the OpenAI-compatible provider                 *)
(* (go/internal/providers/openai_compatible/streaming.go): the wire sends  *)
(* deltas and nothing else, and the adapter infers from them the start and *)
(* the end of every phase (reasoning, text, each tool call) and hands one  *)
(* event at a time to the gateway's yield.  A yield that fails, because    *)
(* the client is gone or a write failed, ends the stream at that event.    *)
(***************************************************************************)
EXTENDS Integers, Sequences, FiniteSets, SequencesExt

CONSTANTS
    Indices,     \* tool call indices the wire uses
    Deltas,      \* wire chunks the server may send
    MaxChunks    \* bound on the wire chunks of one stream

NoCall == -1
ASSUME IndicesAssumption == Indices \subseteq Nat

\* A fragment of a tool call names its index; the first one may bring a name
\* and no arguments.
ASSUME DeltasAssumption ==
    Deltas \subseteq [reasoning : BOOLEAN, text : BOOLEAN,
                      calls : Seq([index : Indices, args : BOOLEAN]),
                      finish : BOOLEAN, usage : BOOLEAN]

ASSUME MaxChunksAssumption == MaxChunks \in Nat

VARIABLES
    phases,    \* streamPhases
    events,    \* what was handed to yield, in order
    todo,      \* what is left to handle of the chunk that was read
    chunks,    \* wire chunks read
    state      \* "reading", "finished", or "cut" by an error

vars == <<phases, events, todo, chunks, state>>

\* One event: the start, a delta or the end of a phase.  n is the number of
\* argument fragments a tool call's end carries.
Event(phase, at, index, n) == [phase |-> phase, at |-> at, index |-> index, n |-> n]
Plain(phase, at) == Event(phase, at, NoCall, 0)

\* newStreamPhases.  args counts the fragments accumulated for each index.
NewPhases == [text |-> FALSE, reasoning |-> FALSE, call |-> NoCall, args |-> [i \in Indices |-> 0],
              sawFinish |-> FALSE, usage |-> FALSE]

Init ==
    /\ phases = NewPhases
    /\ events = <<Plain("stream", "start")>>
    /\ todo = <<>> /\ chunks = 0 /\ state = "reading"

-----------------------------------------------------------------------------
(* The phases.  Each operator takes and gives [ph, log]: the phases and the *)
(* events handed over so far.                                               *)

\* The phases are set, then the event is handed over.
Emit(st, ph, e) == [ph |-> ph, log |-> Append(st.log, e)]

CloseText(st) ==
    IF st.ph.text THEN Emit(st, [st.ph EXCEPT !.text = FALSE], Plain("text", "end")) ELSE st
CloseReasoning(st) ==
    IF st.ph.reasoning THEN Emit(st, [st.ph EXCEPT !.reasoning = FALSE], Plain("reasoning", "end")) ELSE st

\* The end of a tool call carries the call, parsed from what has accumulated.
CloseToolCall(st) ==
    IF st.ph.call = NoCall THEN st
    ELSE Emit(st, [st.ph EXCEPT !.call = NoCall],
              Event("tool_call", "end", st.ph.call, st.ph.args[st.ph.call]))

CloseAll(st) == CloseToolCall(CloseText(CloseReasoning(st)))

-----------------------------------------------------------------------------
(* One wire chunk: reasoning, then text, then each tool call fragment, then *)
(* the finish reason and the usage, which are kept for the finish event.    *)

OnReasoning(st) ==
    LET opened == IF st.ph.reasoning THEN st
                  ELSE Emit(st, [st.ph EXCEPT !.reasoning = TRUE], Plain("reasoning", "start"))
    IN  Emit(opened, opened.ph, Plain("reasoning", "delta"))

OnText(st) ==
    LET closed == CloseReasoning(st)
        opened == IF closed.ph.text THEN closed
                  ELSE Emit(closed, [closed.ph EXCEPT !.text = TRUE], Plain("text", "start"))
    IN  Emit(opened, opened.ph, Plain("text", "delta"))

\* Arguments are accumulated and shown; a fragment without any shows nothing.
OnArgs(st, i, args) ==
    IF args THEN Emit(st, [st.ph EXCEPT !.args[i] = @ + 1], Event("tool_call", "delta", i, 0)) ELSE st

OpenToolCall(st, i) == Emit(st, [st.ph EXCEPT !.call = i], Event("tool_call", "start", i, 0))

\* Mutant of OnCall: a call that is opened again starts from nothing.
OnCallForgets(st, i, args) ==
    LET closed == CloseReasoning(st)
        opened == IF closed.ph.call = i THEN closed
                  ELSE [OpenToolCall(CloseToolCall(closed), i) EXCEPT !.ph.args[i] = 0]
    IN  OnArgs(opened, i, args)
\* Mutant of OnCall: the call that was open stays open.
OnCallLeavesOpen(st, i, args) ==
    LET closed == CloseReasoning(st)
        opened == IF closed.ph.call = i THEN closed ELSE OpenToolCall(closed, i)
    IN  OnArgs(opened, i, args)
\* A fragment for another index than the open one closes that one.
OnCall(st, i, args) ==
    LET closed == CloseReasoning(st)
        opened == IF closed.ph.call = i THEN closed ELSE OpenToolCall(CloseToolCall(closed), i)
    IN  OnArgs(opened, i, args)

\* The parts of a chunk, in the order the loop handles them.
Part(kind, index, args) == [kind |-> kind, index |-> index, args |-> args]
PartIf(there, kind) == IF there THEN <<Part(kind, NoCall, FALSE)>> ELSE <<>>
PartsOf(d) ==
    PartIf(d.reasoning, "reasoning") \o PartIf(d.text, "text")
        \o [i \in DOMAIN d.calls |-> Part("call", d.calls[i].index, d.calls[i].args)]
        \o PartIf(d.finish, "finish") \o PartIf(d.usage, "usage")

OnPart(st, p) ==
    CASE p.kind = "reasoning" -> OnReasoning(st)
      [] p.kind = "text"      -> OnText(st)
      [] p.kind = "call"      -> OnCall(st, p.index, p.args)
      [] p.kind = "finish"    -> [ph |-> [st.ph EXCEPT !.sawFinish = TRUE], log |-> st.log]
      [] p.kind = "usage"     -> [ph |-> [st.ph EXCEPT !.usage = TRUE], log |-> st.log]

ReadChunk(d) ==
    /\ state = "reading" /\ todo = <<>> /\ chunks < MaxChunks
    /\ chunks' = chunks + 1
    /\ todo' = PartsOf(d)
    /\ UNCHANGED <<phases, events, state>>

\* What has reached yield when it fails: nothing after the event it failed on.
Yielded(log) == {SubSeq(log, 1, n) : n \in Len(events)..Len(log)}
CutAt(log) == events' \in Yielded(log) /\ todo' = <<>> /\ state' = "cut"

HandlePart ==
    /\ state = "reading" /\ todo # <<>>
    /\ LET st == OnPart([ph |-> phases, log |-> events], Head(todo))
       IN  /\ phases' = st.ph
           /\ \/ events' = st.log /\ todo' = Tail(todo) /\ UNCHANGED state
              \/ CutAt(st.log)
    /\ UNCHANGED chunks

\* [DONE] or the end of the body: every phase is closed, then finish, with the
\* usage that was held back and "stop" for a reason nobody stated.
Finish ==
    /\ state = "reading" /\ todo = <<>>
    /\ LET st == CloseAll([ph |-> phases, log |-> events])
           log == Append(st.log, Plain("stream", "finish"))
       IN  /\ phases' = st.ph
           /\ \/ events' = log /\ state' = "finished" /\ UNCHANGED todo
              \/ CutAt(log)
    /\ UNCHANGED chunks

\* A chunk that does not decode, a read error, or the context cancelled.
Abort ==
    /\ state = "reading" /\ todo = <<>>
    /\ state' = "cut"
    /\ UNCHANGED <<phases, events, todo, chunks>>

Next == (\E d \in Deltas : ReadChunk(d)) \/ HandlePart \/ Finish \/ Abort
Spec == Init /\ [][Next]_vars

-----------------------------------------------------------------------------
(* Properties. *)

PhaseNames == {"reasoning", "text", "tool_call"}
IndicesOf(phase) == IF phase = "tool_call" THEN Indices ELSE {NoCall}

\* The type invariant.
EventSet == [phase : PhaseNames \cup {"stream"}, at : {"start", "delta", "end", "finish"},
             index : Indices \cup {NoCall}, n : Nat]
PhasesSet == [text : BOOLEAN, reasoning : BOOLEAN, call : Indices \cup {NoCall},
              args : [Indices -> Nat], sawFinish : BOOLEAN, usage : BOOLEAN]
PartSet == [kind : {"call"}, index : Indices, args : BOOLEAN]
              \cup [kind : {"reasoning", "text", "finish", "usage"}, index : {NoCall}, args : {FALSE}]
TypeOK ==
    /\ phases \in PhasesSet
    /\ events \in Seq(EventSet) /\ todo \in Seq(PartSet)
    /\ chunks \in 0..MaxChunks /\ state \in {"reading", "finished", "cut"}

\* What one event says of a phase, and whether a phase is open after the first n.
Is(e, phase, at, index) == e.phase = phase /\ e.at = at /\ e.index = index
OpenAt(log, phase, index, n) ==
    \E i \in 1..n : /\ Is(log[i], phase, "start", index)
                    /\ \A j \in i..n : ~Is(log[j], phase, "end", index)

\* An event is in its place: a delta or an end only in an open phase, a start
\* only in a closed one and, for a tool call, with no other call open; no answer
\* token and no tool call while the reasoning is open; finish with nothing open.
Placed(log, n, phase, index) ==
    LET e == log[n]
        before == OpenAt(log, phase, index, n - 1)
    IN  /\ Is(e, phase, "delta", index) \/ Is(e, phase, "end", index) => before
        /\ Is(e, phase, "start", index) =>
            /\ ~before
            /\ phase = "tool_call" => \A i \in Indices : ~OpenAt(log, "tool_call", i, n - 1)
        /\ Is(e, "text", "delta", NoCall) \/ (e.phase = "tool_call" /\ e.at # "end") =>
            ~OpenAt(log, "reasoning", NoCall, n)
        /\ e.at = "finish" => ~before

\* A consumer that only reads the events can always tell what is open, wherever
\* the stream is cut: every event is in its place, and "every open phase closes
\* before finish, so finish is genuinely last".
LifecycleIsWellFormed ==
    \A n \in DOMAIN events :
        /\ \A phase \in PhaseNames : \A index \in IndicesOf(phase) : Placed(events, n, phase, index)
        /\ events[n].at = "finish" => n = Len(events)

EndsIn(log, i) == {n \in DOMAIN log : Is(log[n], "tool_call", "end", i)}
FragmentsIn(log, i) == {n \in DOMAIN log : Is(log[n], "tool_call", "delta", i)}
\* The last end of a call carries every fragment the consumer was shown.
Complete(log, i) ==
    FragmentsIn(log, i) # {} =>
        /\ EndsIn(log, i) # {}
        /\ log[Max(EndsIn(log, i))].n = Cardinality(FragmentsIn(log, i))

\* A stream that finished ends with finish, and every tool call in it is
\* complete, however its fragments were interleaved with another call's.
LastEndIsComplete ==
    state = "finished" => Last(events).at = "finish" /\ \A i \in Indices : Complete(events, i)

\* The comment on Chunk.ToolCall (providers/streaming.go:42): set on the end
\* event "with arguments parsed once, from the accumulated fragments.  One parse
\* per call, at the one moment the text is complete".
ParsedOnce == \A i \in Indices : Cardinality(EndsIn(events, i)) <= 1
=============================================================================
