----------------------------- MODULE CommandLog -----------------------------
(***************************************************************************)
(* What the orchestration engine promises its callers, without worker,     *)
(* transactions, caches or faults: an append-only log of events, a verdict *)
(* per command id, and the domain state the log amounts to.  A command is  *)
(* decided once, in one atomic step, on the state of the whole log; every  *)
(* answer but "storage" and "lost" reports a verdict.                      *)
(***************************************************************************)
EXTENDS OrchestrationDecider

CONSTANTS Commands, MaxCalls

VARIABLES log, verdicts, entities, calls

vars == <<log, verdicts, entities, calls>>

Undecided == [status |-> "none", sequence |-> 0]
Pending == [status |-> "pending", sequence |-> 0]

Init ==
    /\ log = <<>>
    /\ verdicts = [id \in CommandId |-> Undecided]
    /\ entities = EmptyEntities
    /\ calls = <<>>

Waiting == {k \in DOMAIN calls : calls[k].answer.status = "pending"}

\* A client calls dispatch.
Submit(c) ==
    /\ Len(calls) < MaxCalls
    /\ calls' = Append(calls, [command |-> c, answer |-> Pending])
    /\ UNCHANGED <<log, verdicts, entities>>

\* The command takes effect: all its events, decided on the present state.
Accept(k) ==
    LET c == calls[k].command IN
    /\ verdicts[c.id] = Undecided
    /\ \E events \in Decisions(entities, c) :
         /\ log' = log \o events
         /\ entities' = Projected(entities, events)
         /\ verdicts' = [verdicts EXCEPT ![c.id] =
                           [status |-> "accepted",
                            sequence |-> Len(log) + Len(events)]]
    /\ UNCHANGED calls

\* The command is refused for good: the present state does not permit it.
Refuse(k) ==
    LET c == calls[k].command IN
    /\ verdicts[c.id] = Undecided
    /\ ~Permitted(entities, c)
    /\ verdicts' = [verdicts EXCEPT ![c.id] =
                      [status |-> "rejected", sequence |-> Len(log)]]
    /\ UNCHANGED <<log, entities, calls>>

\* The answers a verdict allows.  "invariant" may also be given without a
\* verdict, when the state does not permit the command; "storage" always,
\* and says nothing about the verdict.
Answers(c) ==
    LET verdict == verdicts[c.id] IN
    {[status |-> "storage", sequence |-> 0]}
      \cup (IF verdict.status = "accepted"
            THEN {[status |-> "accepted", sequence |-> verdict.sequence]}
            ELSE {})
      \cup (IF verdict.status = "rejected"
            THEN {[status |-> "previouslyRejected", sequence |-> 0],
                  [status |-> "invariant", sequence |-> 0]}
            ELSE {})
      \cup (IF verdict = Undecided /\ ~Permitted(entities, c)
            THEN {[status |-> "invariant", sequence |-> 0]}
            ELSE {})

Respond(k) ==
    /\ \E answer \in Answers(calls[k].command) :
         calls' = [calls EXCEPT ![k].answer = answer]
    /\ UNCHANGED <<log, verdicts, entities>>

\* The server dies; the callers that wait hear nothing.
Lose ==
    /\ calls' = [k \in DOMAIN calls |->
                   IF k \in Waiting
                   THEN [calls[k] EXCEPT !.answer.status = "lost"]
                   ELSE calls[k]]
    /\ UNCHANGED <<log, verdicts, entities>>

Next ==
    \/ \E c \in Commands : Submit(c)
    \/ \E k \in Waiting : Accept(k) \/ Refuse(k) \/ Respond(k)
    \/ Lose

Spec == Init /\ [][Next]_vars
=============================================================================
