--------------------------- MODULE MCDelegations ---------------------------
(***************************************************************************)
(* Two callers, of one run or of none, two remote agents that may give     *)
(* their tasks the same ids, and a width of one delegation.  The policies  *)
(* of the first directory let one agent delegate and, by one of two        *)
(* permits, ask for a person before another one may; they forbid tools     *)
(* with the names of the remote agents.  The other directories must not be *)
(* loaded.                                                                 *)
(***************************************************************************)
EXTENDS Delegations

CONSTANTS t1, t2, a1, a2, r1, here, there

Policy(effect, agents, kind) ==
    [effect |-> effect, matches |-> {<<a, kind, r>> : a \in agents, r \in Remotes}]
Entry(id, effect, disposition, policy) ==
    [id |-> id, effect |-> effect, disposition |-> disposition, source |-> <<policy>>]

PermitBoth == Entry("both", "permit", Undeclared, Policy("permit", {a1, a2}, "RemoteAgent"))
AskFirst == Entry("ask", "permit", "require_approval", Policy("permit", {a2}, "RemoteAgent"))
\* Declared a permit and written as a forbid: the source is what counts.
ForbidTool == Entry("tool", "permit", "allow", Policy("forbid", {a1, a2}, "Tool"))
ForbidBoth(disposition) == Entry("both", "forbid", disposition, Policy("forbid", {a1}, "RemoteAgent"))

Good == <<PermitBoth, AskFirst, ForbidTool>>
SomeDirs ==
    LET Duplicated == <<ForbidBoth("terminate_run"), PermitBoth>>
        Contradictory == <<ForbidBoth("allow")>>
    IN  <<[t \in {t1} |-> Good], [t \in {t1} |-> Duplicated],
          [t \in {t1, t2} |-> IF t = t1 THEN Good ELSE Contradictory]>>

Asks(tenant, agent, run, remote, method, names) ==
    [tenant |-> tenant, agent |-> agent, run |-> run, remote |-> remote, method |-> method, names |-> names]
SomeRequests ==
    { Asks(t1, a1, r1, here, "message/send", FALSE), Asks(t1, a1, r1, here, "message/send", TRUE),
      Asks(t1, a1, r1, here, "tasks/get", TRUE), Asks(t1, a1, r1, there, "tasks/get", TRUE),
      Asks(t1, a1, NoRun, there, "message/send", FALSE),
      Asks(t1, a2, r1, here, "message/send", FALSE), Asks(t2, a1, r1, here, "message/send", FALSE) }
=============================================================================
