---------------------- MODULE OrchestrationEngine_proofs ----------------------
(***************************************************************************)
(* Theorems of OrchestrationDecider and OrchestrationEngine, for every set *)
(* of commands, every kind and number of faults and every bound: first     *)
(* what every decision looks like, what projecting one event or a list of  *)
(* them does to the domain state, and that decisions only make histories   *)
(* the domain allows; then the engine that stores them.                    *)
(***************************************************************************)
EXTENDS EngineRefinement, FiniteSetTheorems, SequenceTheorems,
        WellFoundedInduction, TLAPS

\* A set of active threads is finite, so it can be listed.
LEMMA ActiveThreadsFinite ==
    ASSUME NEW m, NEW p
    PROVE  /\ ActiveThreads(m, p) \subseteq ThreadId
           /\ IsFiniteSet(ActiveThreads(m, p))
           /\ Cardinality(ActiveThreads(m, p)) \in Nat
<1>1. ActiveThreads(m, p) \subseteq ThreadId
    BY DEF ActiveThreads
<1>2. IsFiniteSet(ActiveThreads(m, p))
    BY <1>1, FS_Subset, DomainAssumption DEF DomainAssumption
<1> QED BY <1>1, <1>2, FS_CardinalityType

\* d deletes the active threads of the project, f(1) to f(n), each once, and
\* then the project.
DeletesProject(d, m, c, n, f) ==
    /\ f \in [1..n -> ActiveThreads(m, c.project)]
    /\ \A i, j \in 1..n : f[i] = f[j] => i = j
    /\ \A t \in ActiveThreads(m, c.project) : \E i \in 1..n : f[i] = t
    /\ d \in Seq(Event) /\ Len(d) = n + 1
    /\ \A i \in 1..n : /\ d[i].type = "thread.deleted"
                       /\ d[i].thread = f[i]
                       /\ d[i].command = c.id
    /\ d[n + 1] = Planned(c, "project.deleted")

LEMMA DeleteDecision ==
    ASSUME NEW m, NEW c \in Command, c.type = "project.delete",
           NEW d \in Decisions(m, c)
    PROVE  \E n \in Nat : \E f : DeletesProject(d, m, c, n, f)
<1> DEFINE S == ActiveThreads(m, c.project)
           n == Cardinality(S)
           last == Planned(c, "project.deleted")
<1>1. /\ c.id \in CommandId /\ c.project \in ProjectId /\ c.thread \in ThreadId
    BY DEF Command
<1>2. PICK f \in Listings(S) :
         d = Append([i \in DOMAIN f |->
                [Planned(c, "thread.deleted") EXCEPT !.thread = f[i]]], last)
    BY DEF Decisions
<1> DEFINE s == [i \in DOMAIN f |->
                [Planned(c, "thread.deleted") EXCEPT !.thread = f[i]]]
<1>3. n \in Nat /\ S \subseteq ThreadId /\ IsFiniteSet(S)
    BY ActiveThreadsFinite
<1>4. /\ f \in [1..n -> S]
      /\ \A i, j \in 1..n : f[i] = f[j] => i = j
    BY DEF Listings
<1>5. \A t \in S : \E i \in 1..n : f[i] = t
    <2> HIDE DEF S, n
    <2>1. f \in Injection(1..n, S)
        BY <1>4 DEF Injection, IsInjective
    <2>2. Cardinality(1..n) = n
        BY <1>3, FS_Interval
    <2>3. f \in Surjection(1..n, S)
        BY <1>3, <2>1, <2>2, FS_Injection DEF n
    <2> QED BY <2>3 DEF Surjection
<1>6. ASSUME NEW i \in 1..n
      PROVE  /\ s[i] \in Event
             /\ s[i].type = "thread.deleted"
             /\ s[i].thread = f[i]
             /\ s[i].command = c.id
    <2>1. s[i] = [type |-> "thread.deleted", project |-> c.project,
                  thread |-> f[i], command |-> c.id]
        BY <1>4 DEF Planned
    <2>2. f[i] \in ThreadId
        BY <1>3, <1>4
    <2> HIDE DEF s, n, S
    <2> QED BY <1>1, <2>1, <2>2 DEF Event, EventType
<1>7. last \in Event
    BY <1>1 DEF Planned, Event, EventType
<1>8. s \in Seq(Event) /\ Len(s) = n
    <2>1. s = [i \in 1..n |-> s[i]]
        BY <1>4
    <2> HIDE DEF s, n, S
    <2> QED BY <1>3, <1>6, <2>1
<1> HIDE DEF s, last, n, S
<1>9. d = Append(s, last)
    BY <1>2 DEF s, last
<1>10. /\ d \in Seq(Event) /\ Len(d) = n + 1 /\ d[n + 1] = last
       /\ \A i \in 1..n : d[i] = s[i]
    BY <1>3, <1>7, <1>8, <1>9
<1>11. DeletesProject(d, m, c, n, f)
    BY <1>4, <1>5, <1>6, <1>10 DEF DeletesProject, S, last
<1> QED BY <1>3, <1>11

\* The events of a decision are well formed, at least one, all filed under
\* the command's id, and no two of them are equal.
LEMMA DecisionShape ==
    ASSUME NEW m, NEW c \in Command, NEW d \in Decisions(m, c)
    PROVE  /\ d \in Seq(Event)
           /\ Len(d) \in Nat \ {0}
           /\ \A i \in 1..Len(d) : d[i].command = c.id
           /\ \A i, j \in 1..Len(d) : d[i] = d[j] => i = j
<1>1. /\ c.id \in CommandId /\ c.project \in ProjectId
      /\ c.thread \in ThreadId /\ c.type \in CommandType
    BY DEF Command
<1>2. CASE c.type = "project.delete"
    <2>a. PICK n \in Nat : \E f : DeletesProject(d, m, c, n, f)
        BY <1>2, DeleteDecision
    <2>b. PICK f : DeletesProject(d, m, c, n, f)
        BY <2>a
    <2>1. /\ \A i, j \in 1..n : f[i] = f[j] => i = j
          /\ d \in Seq(Event) /\ Len(d) = n + 1
          /\ \A i \in 1..n : /\ d[i].type = "thread.deleted"
                            /\ d[i].thread = f[i]
                            /\ d[i].command = c.id
          /\ d[n + 1] = Planned(c, "project.deleted")
        BY <2>b DEF DeletesProject
    <2>2. d[n + 1].type = "project.deleted" /\ d[n + 1].command = c.id
        BY <2>1 DEF Planned
    <2>3. \A i \in 1..Len(d) : i \in 1..n \/ i = n + 1
        BY <2>1
    <2>4. ASSUME NEW i \in 1..Len(d), NEW j \in 1..Len(d), d[i] = d[j]
          PROVE  i = j
        BY <2>1, <2>2, <2>3, <2>4
    <2> QED BY <2>1, <2>2, <2>3, <2>4
<1>3. CASE c.type = "thread.turn.start"
    <2>1. d = <<Planned(c, "thread.message-sent"),
                Planned(c, "thread.turn-start-requested")>>
        BY <1>3 DEF Decisions
    <2> QED BY <1>1, <2>1 DEF Planned, Event, EventType
<1>4. CASE c.type \notin {"project.delete", "thread.turn.start"}
    <2>1. d = <<Planned(c, SingleEvent[c.type])>>
        BY <1>4 DEF Decisions
    <2>2. SingleEvent[c.type] \in EventType
        BY <1>1, <1>4 DEF SingleEvent, CommandType, EventType
    <2> QED BY <1>1, <2>1, <2>2 DEF Planned, Event
<1> QED BY <1>2, <1>3, <1>4

\* A command is refused exactly when it has no decision.
LEMMA RefusedWithoutDecision ==
    ASSUME NEW m, NEW c, ~Permitted(m, c)
    PROVE  Decisions(m, c) = {}
    BY DEF Decisions

-----------------------------------------------------------------------------
(* Induction over the naturals, for a set instead of a predicate.          *)

LEMMA SetInduction ==
    ASSUME NEW S \in SUBSET Nat, 0 \in S, \A n \in S : n + 1 \in S
    PROVE  S = Nat
<1> DEFINE R == OpToRel(<, Nat)
           G == Nat \ S
<1>1. IsWellFoundedOn(R, Nat)
    BY NatLessThanWellFounded
<1>2. \A n, m \in Nat : n < m => <<n, m>> \in R
    BY DEF OpToRel
<1> HIDE DEF R
<1> SUFFICES ASSUME G # {} PROVE FALSE
    OBVIOUS
<1>3. PICK n \in G : \A m \in G : ~ (<<m, n>> \in R)
    BY <1>1, WFMin
<1>4. n \in Nat /\ n # 0
    OBVIOUS
<1>5. n - 1 \in Nat /\ n - 1 < n /\ n - 1 + 1 = n
    BY <1>4
<1>6. n - 1 \notin G
    BY <1>2, <1>3, <1>4, <1>5
<1> QED BY <1>5, <1>6

-----------------------------------------------------------------------------
(* Projecting a list of events.                                            *)

\* h holds the states that n events of a list s lead to from m.
Trace(h, m, s, n) ==
    h = [i \in 0..n |-> IF i = 0 THEN m ELSE ProjectEvent(h[i - 1], s[i])]

\* The recursive function of Projected exists, so it is such a trace.
LEMMA ProjectedTrace ==
    ASSUME NEW m, NEW s, Len(s) \in Nat
    PROVE  \E h : Trace(h, m, s, Len(s)) /\ Projected(m, s) = h[Len(s)]
<1> DEFINE S == {n \in Nat : \E h : Trace(h, m, s, n)}
<1>1. 0 \in S
    <2>1. Trace([i \in 0..0 |-> m], m, s, 0)
        BY DEF Trace
    <2> QED BY <2>1
<1>2. ASSUME NEW n \in S PROVE n + 1 \in S
    <2>1. PICK h : Trace(h, m, s, n)
        BY <1>2
    <2> DEFINE g == [i \in 0..(n + 1) |->
                       IF i = n + 1 THEN ProjectEvent(h[n], s[n + 1]) ELSE h[i]]
    <2>2. n \in Nat /\ n + 1 \in Nat
        OBVIOUS
    <2>3. ASSUME NEW i \in 0..(n + 1)
          PROVE  g[i] = IF i = 0 THEN m ELSE ProjectEvent(g[i - 1], s[i])
        <3>1. CASE i = n + 1
            BY <2>2, <3>1
        <3>2. CASE i \in 0..n
            <4>1. g[i] = h[i]
                BY <2>2, <3>2
            <4>2. h[i] = IF i = 0 THEN m ELSE ProjectEvent(h[i - 1], s[i])
                BY <2>1, <3>2 DEF Trace
            <4>3. i # 0 => g[i - 1] = h[i - 1]
                BY <2>2, <3>2
            <4> QED BY <4>1, <4>2, <4>3
        <3> QED BY <2>2, <3>1, <3>2
    <2>4. g = [i \in 0..(n + 1) |-> g[i]]
        OBVIOUS
    <2> HIDE DEF g
    <2>5. Trace(g, m, s, n + 1)
        BY <2>3, <2>4 DEF Trace
    <2> QED BY <2>2, <2>5
<1>3. Len(s) \in S
    <2> HIDE DEF S
    <2>1. S \in SUBSET Nat
        BY DEF S
    <2> QED BY <1>1, <1>2, <2>1, SetInduction
<1> DEFINE h == CHOOSE h : Trace(h, m, s, Len(s))
<1>4. Trace(h, m, s, Len(s))
    BY <1>3
<1>5. Projected(m, s) = h[Len(s)]
    BY DEF Projected, Trace
<1> HIDE DEF h
<1> QED BY <1>4, <1>5

\* Traces of lists that begin alike begin alike.
LEMMA TracesAgree ==
    ASSUME NEW m, NEW s, NEW t, NEW k \in Nat, NEW l \in Nat, k <= l,
           \A i \in 1..k : s[i] = t[i],
           NEW g, Trace(g, m, s, k), NEW h, Trace(h, m, t, l)
    PROVE  g[k] = h[k]
<1> DEFINE S == {n \in Nat : n <= k => g[n] = h[n]}
<1>1. /\ \A i \in 0..k : g[i] = IF i = 0 THEN m ELSE ProjectEvent(g[i - 1], s[i])
      /\ \A i \in 0..l : h[i] = IF i = 0 THEN m ELSE ProjectEvent(h[i - 1], t[i])
    BY DEF Trace
<1>2. 0 \in S
    BY <1>1
<1>3. ASSUME NEW n \in S PROVE n + 1 \in S
    <2> SUFFICES ASSUME n + 1 <= k PROVE g[n + 1] = h[n + 1]
        OBVIOUS
    <2>1. g[n] = h[n] /\ n + 1 \in 1..k /\ n + 1 \in 0..l /\ n + 1 \in 0..k
        OBVIOUS
    <2>2. s[n + 1] = t[n + 1]
        BY <2>1
    <2>3. (n + 1) - 1 = n /\ n + 1 # 0
        OBVIOUS
    <2> QED BY <1>1, <2>1, <2>2, <2>3
<1>4. k \in S
    <2> HIDE DEF S
    <2>1. S \in SUBSET Nat
        BY DEF S
    <2> QED BY <1>2, <1>3, <2>1, SetInduction
<1> QED BY <1>4

LEMMA ProjectedEmpty ==
    ASSUME NEW m, NEW s, Len(s) = 0
    PROVE  Projected(m, s) = m
<1>1. PICK h : Trace(h, m, s, Len(s)) /\ Projected(m, s) = h[Len(s)]
    BY ProjectedTrace
<1> QED BY <1>1 DEF Trace

\* One more event: t is s and an event.
LEMMA ProjectedLonger ==
    ASSUME NEW m, NEW s, NEW t, Len(s) \in Nat, Len(t) = Len(s) + 1,
           \A i \in 1..Len(s) : t[i] = s[i]
    PROVE  Projected(m, t) = ProjectEvent(Projected(m, s), t[Len(t)])
<1> DEFINE n == Len(s)
<1>1. PICK g : Trace(g, m, s, n) /\ Projected(m, s) = g[n]
    BY ProjectedTrace
<1>2. PICK h : Trace(h, m, t, n + 1) /\ Projected(m, t) = h[n + 1]
    BY ProjectedTrace
<1>3. g[n] = h[n]
    BY <1>1, <1>2, TracesAgree
<1>4. h[n + 1] = ProjectEvent(h[n], t[n + 1])
    BY <1>2 DEF Trace
<1> QED BY <1>1, <1>2, <1>3, <1>4

\* A part of a list, and the next event of it.
LEMMA ProjectedNext ==
    ASSUME NEW m, NEW L, NEW s \in Seq(L), NEW a \in 1..Len(s), NEW b \in a..Len(s)
    PROVE  Projected(m, SubSeq(s, a, b))
             = ProjectEvent(Projected(m, SubSeq(s, a, b - 1)), s[b])
<1> DEFINE u == SubSeq(s, a, b - 1)
           v == SubSeq(s, a, b)
<1>1. Len(u) = b - a /\ Len(v) = b - a + 1 /\ b - a \in Nat
    OBVIOUS
<1>2. \A i \in 1..(b - a) : v[i] = u[i]
    OBVIOUS
<1>3. v[b - a + 1] = s[b]
    OBVIOUS
<1> HIDE DEF u, v
<1>4. Projected(m, v) = ProjectEvent(Projected(m, u), v[Len(v)])
    BY <1>1, <1>2, ProjectedLonger
<1> QED BY <1>1, <1>3, <1>4 DEF u, v

-----------------------------------------------------------------------------
(* Projecting one event.                                                   *)

LEMMA MarkedRowType ==
    ASSUME NEW rs \in [ThreadId -> ThreadRow], NEW t \in ThreadId,
           NEW b \in BOOLEAN
    PROVE  /\ [rs EXCEPT ![t].deleted = b] \in [ThreadId -> ThreadRow]
           /\ [rs EXCEPT ![t].archived = b] \in [ThreadId -> ThreadRow]
<1>1. rs[t] \in ThreadRow
    OBVIOUS
<1>2. /\ [rs[t] EXCEPT !.deleted = b] \in ThreadRow
      /\ [rs[t] EXCEPT !.archived = b] \in ThreadRow
    BY <1>1, Zenon DEF ThreadRow
<1>3. /\ [rs EXCEPT ![t] = [rs[t] EXCEPT !.deleted = b]]
            \in [ThreadId -> ThreadRow]
      /\ [rs EXCEPT ![t] = [rs[t] EXCEPT !.archived = b]]
            \in [ThreadId -> ThreadRow]
    BY <1>2
<1> QED BY <1>3

\* An event touches the projects or the threads of a state, the way the
\* projectors of the tables do, and nothing else of a record that has both.
LEMMA ProjectEventCases ==
    ASSUME NEW m, NEW e
    PROVE  \/ /\ ProjectEvent(m, e) = [m EXCEPT !.projects = ProjectsProjection(m.projects, e)]
              /\ ThreadsProjection(m.threads, e) = m.threads
           \/ /\ ProjectEvent(m, e) = [m EXCEPT !.threads = ThreadsProjection(m.threads, e)]
              /\ ProjectsProjection(m.projects, e) = m.projects
           \/ /\ ProjectEvent(m, e) = m
              /\ ThreadsProjection(m.threads, e) = m.threads
              /\ ProjectsProjection(m.projects, e) = m.projects
<1> USE DEF ProjectsProjection, ThreadsProjection
<1>1. CASE e.type = "project.created"
    BY <1>1 DEF ProjectEvent
<1>2. CASE e.type = "project.deleted"
    BY <1>2 DEF ProjectEvent, ProjectKnown
<1>3. CASE e.type = "thread.created"
    BY <1>3 DEF ProjectEvent
<1>4. CASE e.type = "thread.deleted"
    BY <1>4 DEF ProjectEvent, ThreadKnown
<1>5. CASE e.type = "thread.archived"
    BY <1>5 DEF ProjectEvent, ThreadKnown
<1>6. CASE e.type = "thread.unarchived"
    BY <1>6 DEF ProjectEvent, ThreadKnown
<1>7. CASE e.type \notin {"project.created", "project.deleted",
                          "thread.created", "thread.deleted",
                          "thread.archived", "thread.unarchived"}
    BY <1>7 DEF ProjectEvent
<1> QED BY <1>1, <1>2, <1>3, <1>4, <1>5, <1>6, <1>7

\* Folding an event into the domain state gives what the tables hold after it.
LEMMA ProjectedEntities ==
    ASSUME NEW ps, NEW ts, NEW e
    PROVE  ProjectEvent([projects |-> ps, threads |-> ts], e)
             = [projects |-> ProjectsProjection(ps, e),
                threads |-> ThreadsProjection(ts, e)]
<1> DEFINE m == [projects |-> ps, threads |-> ts]
<1>1. \A x : /\ [m EXCEPT !.projects = x] = [projects |-> x, threads |-> ts]
             /\ [m EXCEPT !.threads = x] = [projects |-> ps, threads |-> x]
    OBVIOUS
<1>2. m.projects = ps /\ m.threads = ts
    OBVIOUS
<1> HIDE DEF m
<1>3. \/ /\ ProjectEvent(m, e) = [m EXCEPT !.projects = ProjectsProjection(ps, e)]
         /\ ThreadsProjection(ts, e) = ts
      \/ /\ ProjectEvent(m, e) = [m EXCEPT !.threads = ThreadsProjection(ts, e)]
         /\ ProjectsProjection(ps, e) = ps
      \/ /\ ProjectEvent(m, e) = m
         /\ ThreadsProjection(ts, e) = ts
         /\ ProjectsProjection(ps, e) = ps
    BY <1>2, ProjectEventCases
<1> QED BY <1>1, <1>3 DEF m

LEMMA ProjectionTypes ==
    ASSUME NEW e \in Event
    PROVE  /\ \A ps \in [ProjectId -> ProjectStatus] :
                ProjectsProjection(ps, e) \in [ProjectId -> ProjectStatus]
           /\ \A ts \in [ThreadId -> ThreadRow] :
                ThreadsProjection(ts, e) \in [ThreadId -> ThreadRow]
<1>1. e.thread \in ThreadId /\ e.project \in ProjectId
    BY DEF Event
<1>2. ASSUME NEW ps \in [ProjectId -> ProjectStatus]
      PROVE  ProjectsProjection(ps, e) \in [ProjectId -> ProjectStatus]
    BY <1>1 DEF ProjectsProjection, ProjectStatus
<1>3. ASSUME NEW ts \in [ThreadId -> ThreadRow]
      PROVE  ThreadsProjection(ts, e) \in [ThreadId -> ThreadRow]
    <2>1. [exists |-> TRUE, deleted |-> FALSE, archived |-> FALSE,
           project |-> e.project] \in ThreadRow
        BY <1>1 DEF ThreadRow
    <2>2. /\ [ts EXCEPT ![e.thread].deleted = TRUE] \in [ThreadId -> ThreadRow]
          /\ [ts EXCEPT ![e.thread].archived = TRUE] \in [ThreadId -> ThreadRow]
          /\ [ts EXCEPT ![e.thread].archived = FALSE] \in [ThreadId -> ThreadRow]
        BY <1>1, MarkedRowType
    <2>3. [ts EXCEPT ![e.thread] =
             [exists |-> TRUE, deleted |-> FALSE, archived |-> FALSE,
              project |-> e.project]] \in [ThreadId -> ThreadRow]
        BY <1>1, <2>1
    <2> QED BY <1>1, <2>2, <2>3, Zenon DEF ThreadsProjection
<1> QED BY <1>2, <1>3

\* Decisions look at the domain state only.
LEMMA DecisionsOnEntities ==
    ASSUME NEW m, NEW c
    PROVE  /\ Permitted(EntitiesOf(m), c) <=> Permitted(m, c)
           /\ Decisions(EntitiesOf(m), c) = Decisions(m, c)
<1>1. EntitiesOf(m).projects = m.projects /\ EntitiesOf(m).threads = m.threads
    BY DEF EntitiesOf
<1>2. /\ \A p : ProjectKnown(EntitiesOf(m), p) <=> ProjectKnown(m, p)
      /\ \A t : ThreadKnown(EntitiesOf(m), t) <=> ThreadKnown(m, t)
    BY <1>1 DEF ProjectKnown, ThreadKnown
<1>3. \A p : ActiveThreads(EntitiesOf(m), p) = ActiveThreads(m, p)
    BY <1>1, <1>2, Zenon DEF ActiveThreads
<1>4. Permitted(EntitiesOf(m), c) <=> Permitted(m, c)
    BY <1>1, <1>2, <1>3 DEF Permitted
<1> QED BY <1>3, <1>4, Zenon DEF Decisions

-----------------------------------------------------------------------------
(* A history grows by one event that the state allows.                     *)

Allowed(m, e) ==
    /\ e.type = "project.created" => ~ProjectKnown(m, e.project)
    /\ e.type = "project.deleted" => ActiveThreads(m, e.project) = {}
    /\ e.type = "thread.created" => ~ThreadKnown(m, e.thread)
    /\ e.type \in {"thread.deleted", "thread.archived", "thread.unarchived",
                   "thread.message-sent", "thread.turn-start-requested"} =>
         ThreadKnown(m, e.thread)
    /\ e.type = "thread.archived" => ~m.threads[e.thread].archived
    /\ e.type = "thread.unarchived" => m.threads[e.thread].archived

\* What an event does to the projects and threads of a state, one by one.
EventEffect(m, e, m2) ==
    LET x == e.thread IN
    /\ m2 \in Entities
    /\ \A p \in ProjectId : ProjectKnown(m2, p) <=>
         \/ ProjectKnown(m, p)
         \/ e.type = "project.created" /\ e.project = p
    /\ \A t \in ThreadId : t # x => m2.threads[t] = m.threads[t]
    /\ e.type = "thread.created" =>
         m2.threads[x] =
           [exists |-> TRUE, deleted |-> FALSE, archived |-> FALSE,
            project |-> e.project]
    /\ e.type # "thread.created" =>
         /\ ThreadKnown(m2, x) <=> ThreadKnown(m, x)
         /\ m2.threads[x].project = m.threads[x].project
         /\ m2.threads[x].deleted <=>
              \/ m.threads[x].deleted
              \/ e.type = "thread.deleted" /\ ThreadKnown(m, x)
         /\ ThreadKnown(m, x) /\ e.type = "thread.archived" =>
              m2.threads[x].archived
         /\ ThreadKnown(m, x) /\ e.type = "thread.unarchived" =>
              ~m2.threads[x].archived
         /\ \/ ~ThreadKnown(m, x)
            \/ e.type \notin {"thread.archived", "thread.unarchived"}
            => (m2.threads[x].archived <=> m.threads[x].archived)

LEMMA ProjectEventEffect ==
    ASSUME NEW m \in Entities, NEW e \in Event
    PROVE  EventEffect(m, e, ProjectEvent(m, e))
<1> DEFINE ps == ProjectsProjection(m.projects, e)
           ts == ThreadsProjection(m.threads, e)
           m2 == ProjectEvent(m, e)
           x == e.thread
<1>1. /\ m.projects \in [ProjectId -> ProjectStatus]
      /\ m.threads \in [ThreadId -> ThreadRow]
      /\ m = [projects |-> m.projects, threads |-> m.threads]
      /\ x \in ThreadId /\ e.project \in ProjectId
    BY DEF Entities, Event
<1>2. ps \in [ProjectId -> ProjectStatus] /\ ts \in [ThreadId -> ThreadRow]
    BY <1>1, ProjectionTypes
<1>3. m2 = [projects |-> ps, threads |-> ts]
    BY <1>1, ProjectedEntities
<1>4. m2.projects = ps /\ m2.threads = ts /\ m2 \in Entities
    BY <1>2, <1>3 DEF Entities
<1>5. \A p \in ProjectId : ProjectKnown(m2, p) <=>
         \/ ProjectKnown(m, p)
         \/ e.type = "project.created" /\ e.project = p
    BY <1>1, <1>4 DEF ProjectKnown, ProjectsProjection
<1>6. \A t \in ThreadId : t # x => ts[t] = m.threads[t]
    BY <1>1 DEF ThreadsProjection
<1>7. m.threads[x] \in ThreadRow
    BY <1>1
<1>8. e.type = "thread.created" =>
         ts[x] = [exists |-> TRUE, deleted |-> FALSE, archived |-> FALSE,
                  project |-> e.project]
    BY <1>1 DEF ThreadsProjection
<1>9. ASSUME e.type # "thread.created"
      PROVE  /\ ts[x].exists = m.threads[x].exists
             /\ ts[x].project = m.threads[x].project
             /\ ts[x].deleted <=>
                  \/ m.threads[x].deleted
                  \/ e.type = "thread.deleted" /\ m.threads[x].exists
             /\ m.threads[x].exists /\ e.type = "thread.archived" => ts[x].archived
             /\ m.threads[x].exists /\ e.type = "thread.unarchived" => ~ts[x].archived
             /\ \/ ~m.threads[x].exists
                \/ e.type \notin {"thread.archived", "thread.unarchived"}
                => (ts[x].archived <=> m.threads[x].archived)
    <2>1. CASE ~m.threads[x].exists
        BY <1>9, <2>1 DEF ThreadsProjection
    <2>2. CASE m.threads[x].exists /\ e.type = "thread.deleted"
        <3>1. ts[x] = [m.threads[x] EXCEPT !.deleted = TRUE]
            BY <1>1, <1>9, <2>2 DEF ThreadsProjection
        <3> QED BY <1>7, <2>2, <3>1 DEF ThreadRow
    <2>3. CASE m.threads[x].exists /\ e.type = "thread.archived"
        <3>1. ts[x] = [m.threads[x] EXCEPT !.archived = TRUE]
            BY <1>1, <1>9, <2>3 DEF ThreadsProjection
        <3> QED BY <1>7, <2>3, <3>1 DEF ThreadRow
    <2>4. CASE m.threads[x].exists /\ e.type = "thread.unarchived"
        <3>1. ts[x] = [m.threads[x] EXCEPT !.archived = FALSE]
            BY <1>1, <1>9, <2>4 DEF ThreadsProjection
        <3> QED BY <1>7, <2>4, <3>1 DEF ThreadRow
    <2>5. CASE /\ m.threads[x].exists
               /\ e.type \notin {"thread.deleted", "thread.archived", "thread.unarchived"}
        BY <1>9, <2>5 DEF ThreadsProjection
    <2> QED BY <2>1, <2>2, <2>3, <2>4, <2>5
<1>10. /\ ThreadKnown(m, x) <=> m.threads[x].exists
       /\ ThreadKnown(m2, x) <=> ts[x].exists
    BY <1>4 DEF ThreadKnown
<1> HIDE DEF ps, ts, m2
<1>11. EventEffect(m, e, m2)
    BY <1>4, <1>5, <1>6, <1>8, <1>9, <1>10 DEF EventEffect
<1> QED BY <1>11 DEF m2

LEMMA OccurrencesFinite ==
    ASSUME NEW L, NEW n \in Nat, NEW type, NEW t
    PROVE  /\ IsFiniteSet(Occurrences(L, n, type, t))
           /\ Cardinality(Occurrences(L, n, type, t)) \in Nat
<1>1. IsFiniteSet(1..n)
    BY FS_Interval
<1>2. Occurrences(L, n, type, t) \in SUBSET (1..n)
    BY DEF Occurrences
<1> QED BY <1>1, <1>2, FS_Subset, FS_CardinalityType

\* Appending an event changes what has occurred by that event.
LEMMA OccurrencesAppend ==
    ASSUME NEW L \in Seq(Event), NEW e \in Event, NEW type, NEW t
    PROVE  LET before == Occurrences(L, Len(L), type, t)
               after == Occurrences(Append(L, e), Len(L) + 1, type, t)
           IN /\ \A j \in 0..Len(L) :
                   Occurrences(Append(L, e), j, type, t) = Occurrences(L, j, type, t)
              /\ after = before \cup (IF e.type = type /\ e.thread = t
                                      THEN {Len(L) + 1} ELSE {})
              /\ Cardinality(before) \in Nat
              /\ Cardinality(after) =
                   Cardinality(before) + (IF e.type = type /\ e.thread = t
                                          THEN 1 ELSE 0)
<1> DEFINE n == Len(L)
           M == Append(L, e)
           before == Occurrences(L, n, type, t)
           after == Occurrences(M, n + 1, type, t)
<1>1. n \in Nat /\ M[n + 1] = e /\ \A i \in 1..n : M[i] = L[i]
    OBVIOUS
<1> HIDE DEF n, M
<1>2. \A j \in 0..n : Occurrences(M, j, type, t) = Occurrences(L, j, type, t)
    BY <1>1 DEF Occurrences
<1>3. after = before \cup (IF e.type = type /\ e.thread = t THEN {n + 1} ELSE {})
    BY <1>1 DEF Occurrences
<1>4. IsFiniteSet(before) /\ Cardinality(before) \in Nat
    BY <1>1, OccurrencesFinite
<1>5. n + 1 \notin before
    BY <1>1 DEF Occurrences
<1> HIDE DEF before, after
<1>6. Cardinality(before \cup {n + 1}) = Cardinality(before) + 1
    BY <1>4, <1>5, FS_AddElement
<1>7. Cardinality(after) = Cardinality(before)
                             + (IF e.type = type /\ e.thread = t THEN 1 ELSE 0)
    <2>1. CASE e.type = type /\ e.thread = t
        BY <1>3, <1>6, <2>1
    <2>2. CASE ~(e.type = type /\ e.thread = t)
        <3>1. after = before
            BY <1>3, <2>2
        <3> QED BY <1>4, <2>2, <3>1
    <2> QED BY <2>1, <2>2
<1> QED BY <1>2, <1>3, <1>4, <1>7 DEF before, after, n, M

\* For one thread, the longer history amounts to the state after the event.
LEMMA AccountsForGrows ==
    ASSUME NEW L \in Seq(Event), NEW m \in Entities, NEW e \in Event,
           Allowed(m, e), NEW t \in ThreadId, AccountsFor(L, m, t)
    PROVE  AccountsFor(Append(L, e), ProjectEvent(m, e), t)
<1> DEFINE n == Len(L)
           M == Append(L, e)
           m2 == ProjectEvent(m, e)
           x == e.thread
           O(type) == Occurrences(L, n, type, t)
           O2(type) == Occurrences(M, n + 1, type, t)
<1>1. n \in Nat /\ Len(M) = n + 1 /\ M[n + 1] = e /\ \A i \in 1..n : M[i] = L[i]
    OBVIOUS
<1>2. \A type : /\ O(type) \subseteq 1..n
                /\ Cardinality(O(type)) \in Nat
    <2>1. \A type : O(type) \subseteq 1..n
        BY DEF Occurrences
    <2> QED BY <1>1, <2>1, OccurrencesFinite
<1>3. \A type : O2(type) = O(type) \cup (IF e.type = type /\ x = t THEN {n + 1} ELSE {})
    BY OccurrencesAppend
<1>4. \A type : Cardinality(O2(type)) =
                  Cardinality(O(type)) + (IF e.type = type /\ x = t THEN 1 ELSE 0)
    BY OccurrencesAppend
<1>5. /\ ThreadKnown(m, t) <=> O("thread.created") # {}
      /\ ~ThreadKnown(m, t) => ~m.threads[t].archived
      /\ \A i \in O("thread.created") :
           /\ m.threads[t].project = L[i].project
           /\ m.threads[t].deleted => \E k \in O("thread.deleted") : i <= k
      /\ Cardinality(O("thread.archived"))
           = Cardinality(O("thread.unarchived"))
               + (IF m.threads[t].archived THEN 1 ELSE 0)
    BY DEF AccountsFor
<1>6. EventEffect(m, e, m2)
    BY ProjectEventEffect
<1>7. SUFFICES /\ ThreadKnown(m2, t) <=> O2("thread.created") # {}
               /\ ~ThreadKnown(m2, t) => ~m2.threads[t].archived
               /\ \A i \in O2("thread.created") :
                    /\ m2.threads[t].project = M[i].project
                    /\ m2.threads[t].deleted => \E k \in O2("thread.deleted") : i <= k
               /\ Cardinality(O2("thread.archived"))
                    = Cardinality(O2("thread.unarchived"))
                        + (IF m2.threads[t].archived THEN 1 ELSE 0)
    BY <1>1 DEF AccountsFor, m2
<1>8. CASE t # x
    <2>1. \A type : O2(type) = O(type)
        BY <1>3, <1>8
    <2>2. m2.threads[t] = m.threads[t] /\ (ThreadKnown(m2, t) <=> ThreadKnown(m, t))
        BY <1>6, <1>8 DEF EventEffect, ThreadKnown
    <2>3. \A i \in O("thread.created") : M[i] = L[i]
        BY <1>1, <1>2
    <2> HIDE DEF O, O2, M, m2, x
    <2> QED BY <1>5, <2>1, <2>2, <2>3
<1>9. CASE t = x /\ e.type = "thread.created"
    <2>1. ~ThreadKnown(m, t) /\ O("thread.created") = {} /\ ~m.threads[t].archived
        <3>1. ~ThreadKnown(m, t)
            BY <1>9 DEF Allowed
        <3> QED BY <1>5, <3>1
    <2>2. O2("thread.created") = {n + 1}
        BY <1>3, <1>9, <2>1
    <2>3. /\ ThreadKnown(m2, t) /\ m2.threads[t].project = e.project
          /\ ~m2.threads[t].deleted /\ ~m2.threads[t].archived
        BY <1>6, <1>9 DEF EventEffect, ThreadKnown
    <2>4. /\ Cardinality(O2("thread.archived")) = Cardinality(O("thread.archived"))
          /\ Cardinality(O2("thread.unarchived")) = Cardinality(O("thread.unarchived"))
        BY <1>2, <1>4, <1>9
    <2> HIDE DEF O, O2, M, m2, x
    <2> QED BY <1>1, <1>5, <2>1, <2>2, <2>3, <2>4
<1>10. CASE t = x /\ e.type # "thread.created"
    <2>a. /\ ThreadKnown(m2, t) <=> ThreadKnown(m, t)
          /\ m2.threads[t].project = m.threads[t].project
          /\ m2.threads[t].deleted <=>
               \/ m.threads[t].deleted
               \/ e.type = "thread.deleted" /\ ThreadKnown(m, t)
          /\ ThreadKnown(m, t) /\ e.type = "thread.archived" =>
               m2.threads[t].archived
          /\ ThreadKnown(m, t) /\ e.type = "thread.unarchived" =>
               ~m2.threads[t].archived
          /\ \/ ~ThreadKnown(m, t)
             \/ e.type \notin {"thread.archived", "thread.unarchived"}
             => (m2.threads[t].archived <=> m.threads[t].archived)
        BY <1>6, <1>10 DEF EventEffect
    <2> HIDE DEF O, O2, M, m2, x
    <2>1. O2("thread.created") = O("thread.created")
        BY <1>3, <1>10
    <2>2. \A i \in O("thread.created") : M[i] = L[i] /\ i <= n + 1
        BY <1>1, <1>2
    <2>3. ThreadKnown(m2, t) <=> O2("thread.created") # {}
        BY <1>5, <2>a, <1>10, <2>1
    <2>4. ~ThreadKnown(m2, t) => ~m2.threads[t].archived
        BY <1>5, <2>a, <1>10
    <2>5. ASSUME NEW i \in O2("thread.created")
          PROVE  /\ m2.threads[t].project = M[i].project
                 /\ m2.threads[t].deleted => \E k \in O2("thread.deleted") : i <= k
        <3>1. m2.threads[t].project = M[i].project
            BY <1>5, <2>a, <1>10, <2>1, <2>2
        <3>2. CASE m.threads[t].deleted
            BY <1>3, <1>5, <2>1, <3>1, <3>2
        <3>3. CASE e.type = "thread.deleted"
            <4>1. n + 1 \in O2("thread.deleted") /\ i <= n + 1
                BY <1>3, <1>10, <2>1, <2>2, <3>3
            <4> QED BY <3>1, <4>1
        <3>4. CASE ~m2.threads[t].deleted
            BY <3>1, <3>4
        <3> QED BY <2>a, <1>10, <3>2, <3>3, <3>4
    <2>6. Cardinality(O2("thread.archived"))
            = Cardinality(O2("thread.unarchived"))
                + (IF m2.threads[t].archived THEN 1 ELSE 0)
        <3>1. CASE e.type = "thread.archived"
            <4>1. ~m.threads[t].archived /\ m2.threads[t].archived
                BY <2>a, <1>10, <3>1 DEF Allowed, x
            <4> QED BY <1>2, <1>4, <1>5, <1>10, <3>1, <4>1
        <3>2. CASE e.type = "thread.unarchived"
            <4>1. m.threads[t].archived /\ ~m2.threads[t].archived
                BY <2>a, <1>10, <3>2 DEF Allowed, x
            <4> QED BY <1>2, <1>4, <1>5, <1>10, <3>2, <4>1
        <3>3. CASE e.type \notin {"thread.archived", "thread.unarchived"}
            <4>1. m2.threads[t].archived <=> m.threads[t].archived
                BY <2>a, <1>10, <3>3
            <4> QED BY <1>2, <1>4, <1>5, <1>10, <3>3, <4>1
        <3> QED BY <3>1, <3>2, <3>3
    <2> QED BY <2>3, <2>4, <2>5, <2>6
<1> QED BY <1>8, <1>9, <1>10

\* Events of a longer history that are in the shorter one are judged as before.
LEMMA JudgedAsBefore ==
    ASSUME NEW L \in Seq(Event), NEW e \in Event, NEW j \in 1..Len(L)
    PROVE  /\ LegalAt(L, j) => LegalAt(Append(L, e), j)
           /\ EmptiedAt(L, j) => EmptiedAt(Append(L, e), j)
<1> DEFINE M == Append(L, e)
<1>1. \A i \in 1..j : M[i] = L[i]
    OBVIOUS
<1>2. \A type, t : Occurrences(M, j - 1, type, t) = Occurrences(L, j - 1, type, t)
    <2>1. \A i \in 1..(j - 1) : M[i] = L[i]
        OBVIOUS
    <2> HIDE DEF M
    <2> QED BY <2>1 DEF Occurrences
<1> HIDE DEF M
<1>3. j \in Nat \ {0} /\ M[j] = L[j] /\ \A i \in 1..(j - 1) : M[i] = L[i]
    BY <1>1
<1>4. LegalAt(L, j) => LegalAt(M, j)
    BY <1>2, <1>3, ZenonT(30) DEF LegalAt
<1>5. EmptiedAt(L, j) => EmptiedAt(M, j)
    BY <1>1, <1>3 DEF EmptiedAt
<1> QED BY <1>4, <1>5 DEF M

LEMMA HistoryGrows ==
    ASSUME NEW L \in Seq(Event), NEW m \in Entities, NEW e \in Event,
           LegalHistory(L, m), Allowed(m, e)
    PROVE  LegalHistory(Append(L, e), ProjectEvent(m, e))
<1> DEFINE n == Len(L)
           M == Append(L, e)
           m2 == ProjectEvent(m, e)
           x == e.thread
<1>1. /\ n \in Nat /\ Len(M) = n + 1 /\ M[n + 1] = e
      /\ \A i \in 1..n : M[i] = L[i]
      /\ x \in ThreadId /\ e.project \in ProjectId
    BY DEF Event
<1>2. \A p \in ProjectId : ProjectKnown(m, p) <=>
         \E i \in 1..n : L[i].type = "project.created" /\ L[i].project = p
    BY DEF LegalHistory, Accounts
<1>3. \A t \in ThreadId : AccountsFor(L, m, t)
    BY DEF LegalHistory, Accounts
<1>4. Accounts(M, m2)
    <2>1. \A p \in ProjectId : ProjectKnown(m2, p) <=>
             \/ ProjectKnown(m, p)
             \/ e.type = "project.created" /\ e.project = p
        BY ProjectEventEffect DEF EventEffect
    <2>2. \A t \in ThreadId : AccountsFor(M, m2, t)
        BY <1>3, AccountsForGrows
    <2> HIDE DEF M, m2
    <2>3. \A p \in ProjectId : ProjectKnown(m2, p) <=>
             \E i \in 1..Len(M) : M[i].type = "project.created" /\ M[i].project = p
        BY <1>1, <1>2, <2>1
    <2> QED BY <2>2, <2>3 DEF Accounts
<1>5. LegalAt(M, n + 1)
    <2> DEFINE B(type) == Occurrences(L, n, type, x)
    <2>1. \A type : Occurrences(M, (n + 1) - 1, type, x) = B(type)
        <3>1. (n + 1) - 1 = n /\ n \in 0..n
            BY <1>1
        <3> QED BY <3>1, OccurrencesAppend
    <2>2. /\ ThreadKnown(m, x) <=> B("thread.created") # {}
          /\ Cardinality(B("thread.archived"))
               = Cardinality(B("thread.unarchived"))
                   + (IF m.threads[x].archived THEN 1 ELSE 0)
        BY <1>1, <1>3 DEF AccountsFor
    <2>3. Cardinality(B("thread.unarchived")) \in Nat
        BY <1>1, OccurrencesFinite
    <2>4. e.type = "project.created" =>
            ~\E i \in 1..((n + 1) - 1) :
                M[i].type = "project.created" /\ M[i].project = e.project
        BY <1>1, <1>2 DEF Allowed
    <2> HIDE DEF M, B, m2
    <2> SUFFICES /\ e.type = "project.created" =>
                      ~\E i \in 1..((n + 1) - 1) :
                          M[i].type = "project.created" /\ M[i].project = e.project
                 /\ e.type = "thread.created" => B("thread.created") = {}
                 /\ e.type \in {"thread.deleted", "thread.archived",
                                "thread.unarchived", "thread.message-sent",
                                "thread.turn-start-requested"} =>
                      B("thread.created") # {}
                 /\ e.type = "thread.archived" =>
                      Cardinality(B("thread.archived"))
                        = Cardinality(B("thread.unarchived"))
                 /\ e.type = "thread.unarchived" =>
                      Cardinality(B("thread.archived"))
                        = Cardinality(B("thread.unarchived")) + 1
        BY <1>1, <2>1 DEF LegalAt
    <2> QED BY <2>2, <2>3, <2>4 DEF Allowed
<1>6. EmptiedAt(M, n + 1)
    <2> SUFFICES ASSUME e.type = "project.deleted", NEW i \in 1..n,
                        L[i].type = "thread.created", L[i].project = e.project
                 PROVE  \E k \in i..(n + 1) : /\ M[k].type = "thread.deleted"
                                              /\ M[k].thread = M[i].thread
        BY <1>1, SMTT(30) DEF EmptiedAt
    <2> DEFINE t == L[i].thread
    <2>1. t \in ThreadId /\ i \in Occurrences(L, n, "thread.created", t)
        <3>1. L[i] \in Event
            OBVIOUS
        <3> QED BY <3>1 DEF Event, Occurrences
    <2>2. /\ ThreadKnown(m, t) /\ m.threads[t].project = e.project
          /\ m.threads[t].deleted =>
               \E k \in Occurrences(L, n, "thread.deleted", t) : i <= k
        BY <1>3, <2>1 DEF AccountsFor
    <2>3. m.threads[t].deleted
        BY <2>1, <2>2 DEF Allowed, ActiveThreads
    <2>4. PICK k \in 1..n : i <= k /\ L[k].type = "thread.deleted" /\ L[k].thread = t
        BY <2>2, <2>3 DEF Occurrences
    <2>5. k \in i..(n + 1)
        BY <1>1, <2>4
    <2> QED BY <1>1, <2>4, <2>5
<1>7. \A j \in 1..n : LegalAt(M, j) /\ EmptiedAt(M, j)
    BY JudgedAsBefore DEF LegalHistory
<1> HIDE DEF M, m2
<1>8. \A j \in 1..Len(M) : j \in 1..n \/ j = n + 1
    BY <1>1
<1> QED BY <1>4, <1>5, <1>6, <1>7, <1>8 DEF LegalHistory, M, m2

-----------------------------------------------------------------------------
(* A decision makes a legal history longer.                                *)

LEMMA PrefixAppend ==
    ASSUME NEW A, NEW s \in Seq(A), NEW a \in 1..(Len(s) + 1), NEW i \in (a - 1)..(Len(s) - 1)
    PROVE  SubSeq(s, a, i + 1) = Append(SubSeq(s, a, i), s[i + 1])
<1> DEFINE u == SubSeq(s, a, i)
           v == SubSeq(s, a, i + 1)
           e == s[i + 1]
           n == i - a + 1
           w == Append(u, e)
<1>1. e \in A /\ n \in Nat
    OBVIOUS
<1>2. /\ u \in Seq(A) /\ Len(u) = n
      /\ v \in Seq(A) /\ Len(v) = n + 1
      /\ \A k \in 1..n : u[k] = v[k]
      /\ v[n + 1] = e
    OBVIOUS
<1> HIDE DEF u, v, e, n
<1>3. w \in Seq(A) /\ Len(w) = n + 1
    BY <1>1, <1>2
<1>4. \A k \in 1..(n + 1) : v[k] = w[k]
    BY <1>1, <1>2
<1> HIDE DEF w
<1>5. v = w
    BY <1>2, <1>3, <1>4, SeqEqual
<1> QED BY <1>5 DEF u, v, w, e

LEMMA ConcatThenAppend ==
    ASSUME NEW A, NEW s \in Seq(A), NEW u \in Seq(A), NEW e \in A
    PROVE  s \o Append(u, e) = Append(s \o u, e)
<1> DEFINE v == s \o Append(u, e)
           w == Append(s \o u, e)
<1>1. v \in Seq(A) /\ w \in Seq(A) /\ Len(v) = Len(w)
    OBVIOUS
<1>2. \A k \in 1..Len(v) : v[k] = w[k]
    OBVIOUS
<1> HIDE DEF v, w
<1>3. v = w
    BY <1>1, <1>2, SeqEqual
<1> QED BY <1>3 DEF v, w

\* The state after the first i events of a list.
Reached(m, d, i) == Projected(m, SubSeq(d, 1, i))

LEMMA ReachedNext ==
    ASSUME NEW m, NEW d \in Seq(Event)
    PROVE  /\ Reached(m, d, 0) = m
           /\ Reached(m, d, Len(d)) = Projected(m, d)
           /\ \A i \in 0..(Len(d) - 1) :
                Reached(m, d, i + 1) = ProjectEvent(Reached(m, d, i), d[i + 1])
<1>1. Reached(m, d, 0) = m
    <2>1. Len(SubSeq(d, 1, 0)) = 0
        OBVIOUS
    <2> QED BY <2>1, ProjectedEmpty DEF Reached
<1>2. Reached(m, d, Len(d)) = Projected(m, d)
    BY SubSeqFull DEF Reached
<1>3. ASSUME NEW i \in 0..(Len(d) - 1)
      PROVE  Reached(m, d, i + 1) = ProjectEvent(Reached(m, d, i), d[i + 1])
    <2>1. /\ 1 \in 1..Len(d) /\ i + 1 \in 1..Len(d) /\ i + 1 \in 1..Len(d)
          /\ (i + 1) - 1 = i
        OBVIOUS
    <2>2. Projected(m, SubSeq(d, 1, i + 1))
            = ProjectEvent(Projected(m, SubSeq(d, 1, (i + 1) - 1)), d[i + 1])
        <3> DEFINE b == i + 1
        <3>1. b \in 1..Len(d) /\ 1 \in 1..Len(d)
            BY <2>1
        <3> HIDE DEF b
        <3>2. Projected(m, SubSeq(d, 1, b))
                = ProjectEvent(Projected(m, SubSeq(d, 1, b - 1)), d[b])
            BY <3>1, ProjectedNext
        <3> QED BY <3>2 DEF b
    <2> QED BY <2>1, <2>2 DEF Reached
<1> QED BY <1>1, <1>2, <1>3

\* A list of events, each allowed where it happens, makes a legal history.
LEMMA HistoryExtends ==
    ASSUME NEW L \in Seq(Event), NEW m \in Entities, LegalHistory(L, m),
           NEW d \in Seq(Event),
           \A i \in 1..Len(d) :
             Reached(m, d, i - 1) \in Entities => Allowed(Reached(m, d, i - 1), d[i])
    PROVE  /\ Projected(m, d) \in Entities
           /\ LegalHistory(L \o d, Projected(m, d))
<1> DEFINE At(i) == /\ Reached(m, d, i) \in Entities
                    /\ LegalHistory(L \o SubSeq(d, 1, i), Reached(m, d, i))
           S == {i \in Nat : i <= Len(d) => At(i)}
<1>1. Len(d) \in Nat
    OBVIOUS
<1>2. At(0)
    <2>1. SubSeq(d, 1, 0) = <<>>
        BY SubSeqEmpty
    <2>2. L \o SubSeq(d, 1, 0) = L
        BY <2>1, ConcatEmptySeq
    <2> QED BY <2>2, ReachedNext
<1>3. ASSUME NEW i \in S PROVE i + 1 \in S
    <2> SUFFICES ASSUME i + 1 <= Len(d) PROVE At(i + 1)
        OBVIOUS
    <2> DEFINE u == SubSeq(d, 1, i)
               K == L \o u
               r == Reached(m, d, i)
               e == d[i + 1]
    <2>1. /\ i \in Nat /\ i + 1 \in 1..Len(d) /\ (i + 1) - 1 = i /\ i <= Len(d)
          /\ i \in 0..(Len(d) - 1) /\ At(i)
        BY <1>1
    <2>2. e \in Event
        BY <2>1
    <2>3. u \in Seq(Event)
        BY <2>1
    <2>4. K \in Seq(Event)
        BY <2>3
    <2>5. Allowed(r, e)
        BY <2>1
    <2>6. Reached(m, d, i + 1) = ProjectEvent(r, e)
        BY <2>1, ReachedNext
    <2>7. L \o SubSeq(d, 1, i + 1) = Append(K, e)
        <3>1. SubSeq(d, 1, i + 1) = Append(u, e)
            BY <2>1, PrefixAppend
        <3>2. L \o Append(u, e) = Append(K, e)
            BY <2>2, <2>3, ConcatThenAppend
        <3> QED BY <3>1, <3>2, Zenon
    <2>8. ProjectEvent(r, e) \in Entities
        BY <2>1, <2>2, ProjectEventEffect DEF EventEffect
    <2>9. LegalHistory(Append(K, e), ProjectEvent(r, e))
        BY <2>1, <2>2, <2>4, <2>5, HistoryGrows
    <2> QED BY <2>6, <2>7, <2>8, <2>9
<1>4. Len(d) \in S
    <2> HIDE DEF S
    <2>1. S \in SUBSET Nat /\ 0 \in S
        BY <1>2 DEF S
    <2> QED BY <1>1, <1>3, <2>1, SetInduction
<1>5. SubSeq(d, 1, Len(d)) = d
    BY SubSeqFull
<1>6. At(Len(d))
    BY <1>1, <1>4
<1>7. Reached(m, d, Len(d)) = Projected(m, d)
    BY ReachedNext
<1> QED BY <1>5, <1>6, <1>7

\* Deletions leave everything but the tombstones as it was.
LEMMA DeletionsReached ==
    ASSUME NEW m \in Entities, NEW d \in Seq(Event), NEW n \in Nat, n <= Len(d),
           \A i \in 1..n : /\ d[i].type = "thread.deleted"
                           /\ ThreadKnown(m, d[i].thread),
           NEW i \in 0..n
    PROVE  /\ Reached(m, d, i) \in Entities
           /\ \A p \in ProjectId : ProjectKnown(Reached(m, d, i), p) <=> ProjectKnown(m, p)
           /\ \A t \in ThreadId :
                LET was == m.threads[t]
                    is == Reached(m, d, i).threads[t]
                IN /\ is.exists <=> was.exists
                   /\ is.project = was.project
                   /\ is.deleted <=> \/ was.deleted
                                     \/ \E k \in 1..i : d[k].thread = t
<1> DEFINE R(k) == Reached(m, d, k)
           Same(r, t) == /\ r.threads[t].exists <=> m.threads[t].exists
                         /\ r.threads[t].project = m.threads[t].project
           Gone(k, t) == \E j \in 1..k : d[j].thread = t
           At(k) == /\ R(k) \in Entities
                    /\ \A p \in ProjectId : ProjectKnown(R(k), p) <=> ProjectKnown(m, p)
                    /\ \A t \in ThreadId :
                         /\ Same(R(k), t)
                         /\ R(k).threads[t].deleted <=> m.threads[t].deleted \/ Gone(k, t)
           S == {k \in Nat : k <= n => At(k)}
<1>1. Len(d) \in Nat
    OBVIOUS
<1>2. At(0)
    <2>1. R(0) = m /\ \A t : ~Gone(0, t)
        BY ReachedNext
    <2> HIDE DEF R, Gone
    <2> QED BY <2>1
<1>3. ASSUME NEW k \in S PROVE k + 1 \in S
    <2> SUFFICES ASSUME k + 1 <= n PROVE At(k + 1)
        OBVIOUS
    <2> DEFINE e == d[k + 1]
               x == e.thread
    <2>1. /\ k \in Nat /\ k \in 0..(Len(d) - 1) /\ k + 1 \in 1..n /\ At(k)
        BY <1>1
    <2>2. e \in Event /\ x \in ThreadId /\ e.type = "thread.deleted"
        <3>1. e \in Event
            BY <1>1, <2>1
        <3> QED BY <2>1, <3>1 DEF Event
    <2>3. R(k + 1) = ProjectEvent(R(k), e)
        BY <2>1, ReachedNext
    <2>4. EventEffect(R(k), e, R(k + 1))
        BY <2>1, <2>2, <2>3, ProjectEventEffect
    <2>5. ThreadKnown(m, x)
        BY <2>1
    <2>6. \A t : Gone(k + 1, t) <=> Gone(k, t) \/ t = x
        BY <2>1
    <2> HIDE DEF R, Gone, e
    <2>7. R(k + 1) \in Entities
        BY <2>4 DEF EventEffect
    <2>8. \A p \in ProjectId : ProjectKnown(R(k + 1), p) <=> ProjectKnown(m, p)
        BY <2>1, <2>2, <2>4 DEF EventEffect
    <2>9. ASSUME NEW t \in ThreadId
          PROVE  /\ Same(R(k + 1), t)
                 /\ R(k + 1).threads[t].deleted
                      <=> m.threads[t].deleted \/ Gone(k + 1, t)
        <3>1. CASE t # x
            BY <2>1, <2>4, <2>6, <3>1 DEF EventEffect
        <3>2. CASE t = x
            BY <2>1, <2>2, <2>4, <2>5, <2>6, <3>2 DEF EventEffect, ThreadKnown
        <3> QED BY <3>1, <3>2
    <2> QED BY <2>7, <2>8, <2>9
<1>4. i \in S
    <2> HIDE DEF S
    <2>1. S \in SUBSET Nat /\ 0 \in S
        BY <1>2 DEF S
    <2>2. S = Nat
        BY <1>3, <2>1, SetInduction
    <2> QED BY <2>2
<1> QED BY <1>4

\* Every event of a decision is allowed in the state it is projected onto.
LEMMA DecisionAllowed ==
    ASSUME NEW m \in Entities, NEW c \in Command, NEW d \in Decisions(m, c),
           NEW i \in 1..Len(d), Reached(m, d, i - 1) \in Entities
    PROVE  Allowed(Reached(m, d, i - 1), d[i])
<1>1. d \in Seq(Event) /\ Permitted(m, c) /\ c.type \in CommandType
    BY DecisionShape DEF Decisions, Command
<1>2. CASE c.type = "project.delete"
    <2> DEFINE p == c.project
               A == ActiveThreads(m, p)
    <2>a. PICK n \in Nat : \E f : DeletesProject(d, m, c, n, f)
        BY <1>2, DeleteDecision
    <2>b. PICK f : DeletesProject(d, m, c, n, f)
        BY <2>a
    <2>1. /\ f \in [1..n -> A]
          /\ \A t \in A : \E k \in 1..n : f[k] = t
          /\ Len(d) = n + 1
          /\ \A k \in 1..n : d[k].type = "thread.deleted" /\ d[k].thread = f[k]
          /\ d[n + 1] = Planned(c, "project.deleted")
        BY <2>b DEF DeletesProject
    <2>2. \A t \in A : t \in ThreadId /\ ThreadKnown(m, t)
        BY DEF ActiveThreads
    <2>3. \A k \in 1..n : d[k].type = "thread.deleted" /\ ThreadKnown(m, d[k].thread)
        BY <2>1, <2>2
    <2>4. n <= Len(d) /\ i - 1 \in 0..n
        BY <2>1
    <2>5. CASE i \in 1..n
        <3>1. f[i] \in ThreadId /\ ThreadKnown(m, f[i])
            BY <2>1, <2>2, <2>5
        <3>2. ThreadKnown(Reached(m, d, i - 1), f[i])
            <4> HIDE DEF A, p
            <4> QED BY <1>1, <2>3, <2>4, <3>1, DeletionsReached DEF ThreadKnown
        <3> QED BY <2>1, <2>5, <3>2 DEF Allowed
    <2>6. CASE i = n + 1
        <3> DEFINE r == Reached(m, d, n)
        <3>1. n \in 0..n /\ i - 1 = n
            BY <2>6
        <3>2. \A t \in ThreadId :
                 /\ r.threads[t].exists <=> m.threads[t].exists
                 /\ r.threads[t].project = m.threads[t].project
                 /\ r.threads[t].deleted <=>
                      \/ m.threads[t].deleted
                      \/ \E k \in 1..n : d[k].thread = t
            BY <1>1, <2>3, <2>4, <3>1, DeletionsReached
        <3>3. ActiveThreads(r, p) = {}
            <4> SUFFICES ASSUME NEW t \in ActiveThreads(r, p) PROVE FALSE
                OBVIOUS
            <4>1. /\ t \in ThreadId /\ r.threads[t].exists
                  /\ r.threads[t].project = p /\ ~r.threads[t].deleted
                BY DEF ActiveThreads, ThreadKnown
            <4>2. t \in A
                BY <3>2, <4>1 DEF ActiveThreads, ThreadKnown
            <4>3. PICK k \in 1..n : f[k] = t
                BY <2>1, <4>2
            <4> QED BY <2>1, <3>2, <4>1, <4>3
        <3>4. d[i].type = "project.deleted" /\ d[i].project = p
            BY <2>1, <2>6 DEF Planned
        <3> HIDE DEF r
        <3>5. Allowed(r, d[i])
            BY <3>3, <3>4 DEF Allowed
        <3> QED BY <3>1, <3>5 DEF r
    <2> QED BY <2>1, <2>5, <2>6
<1>3. CASE c.type = "thread.turn.start"
    <2>1. /\ Len(d) = 2
          /\ d[1] = Planned(c, "thread.message-sent")
          /\ d[2] = Planned(c, "thread.turn-start-requested")
        BY <1>3 DEF Decisions
    <2>2. ThreadKnown(m, c.thread)
        BY <1>1, <1>3 DEF Permitted
    <2>3. /\ d[1].type = "thread.message-sent" /\ d[1].thread = c.thread
          /\ d[2].type = "thread.turn-start-requested" /\ d[2].thread = c.thread
          /\ d[1] \in Event
        <3>1. d[1] \in Event
            <4>1. 1 \in 1..Len(d)
                BY <2>1
            <4> QED BY <1>1, <4>1, ElementOfSeq
        <3> QED BY <2>1, <3>1 DEF Planned
    <2>4. Reached(m, d, 0) = m /\ Reached(m, d, 1) = ProjectEvent(m, d[1])
        <3>1. 0 \in 0..(Len(d) - 1) /\ 0 + 1 = 1
            BY <2>1
        <3>2. Reached(m, d, 0 + 1) = ProjectEvent(Reached(m, d, 0), d[0 + 1])
            BY <1>1, <3>1, ReachedNext
        <3>3. Reached(m, d, 0) = m
            BY <1>1, ReachedNext
        <3> QED BY <3>1, <3>2, <3>3
    <2>5. ThreadKnown(Reached(m, d, 1), c.thread)
        <3>1. EventEffect(m, d[1], Reached(m, d, 1))
            BY <2>3, <2>4, ProjectEventEffect
        <3> QED BY <2>2, <2>3, <3>1 DEF EventEffect
    <2>6. CASE i = 1
        <3>1. i - 1 = 0
            BY <2>6
        <3> QED BY <2>2, <2>3, <2>4, <2>6, <3>1 DEF Allowed
    <2>7. CASE i = 2
        <3>1. i - 1 = 1
            BY <2>7
        <3> QED BY <2>3, <2>5, <2>7, <3>1 DEF Allowed
    <2> QED BY <2>1, <2>6, <2>7
<1>4. CASE c.type \notin {"project.delete", "thread.turn.start"}
    <2> DEFINE e == Planned(c, SingleEvent[c.type])
    <2>1. Len(d) = 1 /\ d[1] = e /\ i = 1
        <3>1. d = <<e>>
            BY <1>4, Zenon DEF Decisions
        <3> HIDE DEF e
        <3> QED BY <3>1
    <2>2. /\ e.type = SingleEvent[c.type]
          /\ e.project = c.project /\ e.thread = c.thread
        BY DEF Planned
    <2>3. /\ c.type = "project.create" => SingleEvent[c.type] = "project.created"
          /\ c.type = "project.meta.update" => SingleEvent[c.type] = "project.meta-updated"
          /\ c.type = "thread.create" => SingleEvent[c.type] = "thread.created"
          /\ c.type = "thread.delete" => SingleEvent[c.type] = "thread.deleted"
          /\ c.type = "thread.archive" => SingleEvent[c.type] = "thread.archived"
          /\ c.type = "thread.unarchive" => SingleEvent[c.type] = "thread.unarchived"
          /\ c.type = "thread.other" => SingleEvent[c.type] = "thread.other"
        BY <1>1, <1>4 DEF SingleEvent, CommandType
    <2>4. Reached(m, d, i - 1) = m
        BY <1>1, <2>1, ReachedNext
    <2> HIDE DEF e
    <2>5. Allowed(m, e)
        BY <1>1, <1>4, <2>2, <2>3 DEF Permitted, Allowed, CommandType
    <2> QED BY <2>1, <2>4, <2>5
<1> QED BY <1>2, <1>3, <1>4

\* The events of a decision extend a legal history to a legal history, which
\* amounts to the state they project to.
THEOREM DecisionsKeepHistoryLegal ==
    ASSUME NEW L \in Seq(Event), NEW m \in Entities, LegalHistory(L, m),
           NEW c \in Command, NEW d \in Decisions(m, c)
    PROVE  /\ Projected(m, d) \in Entities
           /\ LegalHistory(L \o d, Projected(m, d))
<1>1. d \in Seq(Event)
    BY DecisionShape
<1>2. \A i \in 1..Len(d) :
         Reached(m, d, i - 1) \in Entities => Allowed(Reached(m, d, i - 1), d[i])
    BY DecisionAllowed
<1> QED BY <1>1, <1>2, HistoryExtends

\* A permitted command has a decision.
LEMMA PermittedIsDecided ==
    ASSUME NEW m, NEW c, Permitted(m, c)
    PROVE  Decisions(m, c) # {}
<1>1. CASE c.type = "project.delete"
    <2> DEFINE A == ActiveThreads(m, c.project)
    <2>1. ExistsBijection(1..Cardinality(A), A)
        BY ActiveThreadsFinite, FS_CardinalityType
    <2>2. PICK f : f \in Bijection(1..Cardinality(A), A)
        BY <2>1 DEF ExistsBijection
    <2>3. f \in Listings(A)
        BY <2>2 DEF Bijection, Injection, IsInjective, Listings
    <2> HIDE DEF A
    <2> QED BY <1>1, <2>3 DEF Decisions, A
<1>2. CASE c.type # "project.delete"
    BY <1>2 DEF Decisions
<1> QED BY <1>1, <1>2

\* Nothing has happened, and nothing exists.
LEMMA EmptyHistory == EmptyEntities \in Entities /\ LegalHistory(<<>>, EmptyEntities)
<1>1. /\ \A p \in ProjectId : EmptyEntities.projects[p] = "absent"
      /\ \A t \in ThreadId :
           EmptyEntities.threads[t] =
             [exists |-> FALSE, deleted |-> FALSE, archived |-> FALSE,
              project |-> NoProject]
    BY DEF EmptyEntities
<1>2. EmptyEntities \in Entities
    BY DEF EmptyEntities, Entities, ProjectStatus, ThreadRow
<1>3. Len(<<>>) = 0 /\ \A type, t : Occurrences(<<>>, 0, type, t) = {}
    BY DEF Occurrences
<1>4. ASSUME NEW t \in ThreadId PROVE AccountsFor(<<>>, EmptyEntities, t)
    <2>1. ~ThreadKnown(EmptyEntities, t) /\ ~EmptyEntities.threads[t].archived
        BY <1>1 DEF ThreadKnown
    <2> DEFINE Of(type) == Occurrences(<<>>, Len(<<>>), type, t)
    <2>2. \A type : Of(type) = {}
        BY <1>3
    <2>3. \A type : Cardinality(Of(type)) = 0
        BY <2>2, FS_EmptySet
    <2> HIDE DEF Of
    <2>4. Cardinality(Of("thread.archived"))
            = Cardinality(Of("thread.unarchived"))
                + (IF EmptyEntities.threads[t].archived THEN 1 ELSE 0)
        BY <2>1, <2>3
    <2> QED BY <2>1, <2>2, <2>4 DEF AccountsFor, Of
<1>5. \A p \in ProjectId : ~ProjectKnown(EmptyEntities, p)
    BY <1>1 DEF ProjectKnown
<1> QED BY <1>2, <1>3, <1>4, <1>5 DEF LegalHistory, Accounts

-----------------------------------------------------------------------------
(* Projection keeps the types of read model and rows.                      *)

LEMMA ProjectOntoType ==
    ASSUME NEW m \in ReadModel, NEW e \in Event, NEW n \in Nat
    PROVE  /\ ProjectOnto(m, e, n) \in ReadModel
           /\ ProjectOnto(m, e, n).snapshotSequence = n
           /\ EntitiesOf(ProjectOnto(m, e, n)) = ProjectEvent(EntitiesOf(m), e)
<1> DEFINE ps == ProjectsProjection(m.projects, e)
           ts == ThreadsProjection(m.threads, e)
<1>1. ps \in [ProjectId -> ProjectStatus] /\ ts \in [ThreadId -> ThreadRow]
    BY ProjectionTypes DEF ReadModel
<1>2. m = [projects |-> m.projects, threads |-> m.threads,
           snapshotSequence |-> m.snapshotSequence]
    BY DEF ReadModel
<1> HIDE DEF ps, ts
<1>3. ProjectEvent(m, e) = [projects |-> ps, threads |-> ts,
                            snapshotSequence |-> m.snapshotSequence]
    BY <1>2, ProjectEventCases DEF ps, ts
<1>4. ProjectOnto(m, e, n) = [projects |-> ps, threads |-> ts, snapshotSequence |-> n]
    BY <1>3 DEF ProjectOnto
<1>5. ProjectEvent(EntitiesOf(m), e) = [projects |-> ps, threads |-> ts]
    BY ProjectedEntities DEF EntitiesOf, ps, ts
<1> QED BY <1>1, <1>4, <1>5 DEF ReadModel, EntitiesOf

LEMMA ApplyToRowsType ==
    ASSUME NEW r \in Rows, NEW e \in Event, NEW n \in Nat
    PROVE  /\ ApplyToRows(r, e, n) \in Rows
           /\ ApplyToRows(r, e, n).cursor = n
           /\ EntitiesOf(ApplyToRows(r, e, n)) = ProjectEvent(EntitiesOf(r), e)
<1> DEFINE ps == ProjectsProjection(r.projects, e)
           ts == ThreadsProjection(r.threads, e)
<1>1. ps \in [ProjectId -> ProjectStatus] /\ ts \in [ThreadId -> ThreadRow]
    BY ProjectionTypes DEF Rows
<1>2. ProjectEvent(EntitiesOf(r), e) = [projects |-> ps, threads |-> ts]
    BY ProjectedEntities DEF EntitiesOf
<1>3. ApplyToRows(r, e, n) = [projects |-> ps, threads |-> ts, cursor |-> n]
    BY DEF ApplyToRows
<1> HIDE DEF ps, ts
<1> QED BY <1>1, <1>2, <1>3 DEF Rows, EntitiesOf

LEMMA EmptyTypes ==
    /\ EmptyReadModel \in ReadModel
    /\ EmptyRows \in Rows
    /\ NoTransaction \in Transaction
    /\ NoReceipt \in Receipt
<1>1. /\ EmptyEntities.projects \in [ProjectId -> ProjectStatus]
      /\ EmptyEntities.threads \in [ThreadId -> ThreadRow]
    BY DEF EmptyEntities, ProjectStatus, ThreadRow
<1>2. EmptyReadModel \in ReadModel /\ EmptyRows \in Rows
    BY <1>1 DEF EmptyReadModel, ReadModel, EmptyRows, Rows
<1> QED BY <1>2 DEF NoTransaction, Transaction, NoReceipt, Receipt

-----------------------------------------------------------------------------
(* Type correctness.                                                       *)

\* The command of the call being processed.
LEMMA CurrentType ==
    ASSUME TypeOK, phase \notin {"off", "idle"}
    PROVE  /\ envelope \in 1..Len(calls)
           /\ current \in Command
           /\ current.id \in CommandId
<1>1. envelope \in 1..Len(calls)
    BY DEF TypeOK
<1>2. calls[envelope] \in Call
    BY <1>1 DEF TypeOK
<1>3. current \in Command
    BY <1>2, EngineAssumption DEF EngineAssumption, current, Call
<1> QED BY <1>1, <1>3 DEF Command

LEMMA AnsweredCallType ==
    ASSUME NEW x \in Call, NEW a \in Answer
    PROVE  [x EXCEPT !.answer = a] \in Call
<1> USE DEF Call
<1> HIDE DEF Answer
<1> QED OBVIOUS

LEMMA ReplyType ==
    ASSUME TypeOK, phase \notin {"off", "idle"},
           NEW status, NEW sequence \in Nat,
           status \in {"accepted", "previouslyRejected", "invariant", "storage"},
           Reply(status, sequence)
    PROVE  calls' \in Seq(Call) /\ Len(calls') = Len(calls) /\ phase' = "idle"
<1>1. envelope \in 1..Len(calls)
    BY CurrentType
<1>2. [status |-> status, sequence |-> sequence] \in Answer
    BY DEF Answer
<1>3. [calls[envelope] EXCEPT !.answer = [status |-> status, sequence |-> sequence]]
        \in Call
    <2>1. calls[envelope] \in Call
        BY <1>1 DEF TypeOK
    <2> QED BY <1>2, <2>1, AnsweredCallType
<1> QED BY <1>1, <1>3 DEF TypeOK, Reply

LEMMA TypeInit == Init => TypeOK
<1> SUFFICES ASSUME Init PROVE TypeOK
    OBVIOUS
<1> USE EmptyTypes DEF Init
<1>1. log \in Seq(Event) /\ calls \in Seq(Call) /\ stream \in Seq(Nat)
      /\ commandQueue \in Seq(Nat) /\ Len(calls) = 0 /\ Len(commandQueue) = 0
    OBVIOUS
<1> QED BY <1>1 DEF TypeOK, Phase

LEMMA TypeStep == TypeOK /\ Outcome /\ [Next]_vars => TypeOK'
<1> SUFFICES ASSUME TypeOK, Outcome, [Next]_vars PROVE TypeOK'
    OBVIOUS
<1> USE DEF TypeOK, Phase
<1>1. CASE UNCHANGED vars
    BY <1>1 DEF vars, disk, work
<1>2. ASSUME NEW c \in Commands, Dispatch(c) PROVE TypeOK'
    <2>1. [command |-> c, answer |-> Pending] \in Call
        BY DEF Call, Pending, Answer
    <2>2. /\ calls' \in Seq(Call) /\ Len(calls') = Len(calls) + 1
          /\ commandQueue' \in Seq(Nat)
          /\ Len(commandQueue') = Len(commandQueue) + 1
          /\ commandQueue'[Len(commandQueue')] = Len(calls')
          /\ \A i \in 1..Len(commandQueue) : commandQueue'[i] = commandQueue[i]
        BY <1>2, <2>1 DEF Dispatch
    <2>3. \A i \in 1..Len(commandQueue') : commandQueue'[i] \in 1..Len(calls')
        <3> SUFFICES ASSUME NEW i \in 1..Len(commandQueue')
                     PROVE  commandQueue'[i] \in 1..Len(calls')
            OBVIOUS
        <3>1. Len(calls) \in Nat /\ Len(commandQueue) \in Nat
            OBVIOUS
        <3>2. CASE i \in 1..Len(commandQueue)
            <4>1. commandQueue[i] \in 1..Len(calls)
                BY <3>2
            <4> HIDE DEF TypeOK
            <4> QED BY <2>2, <3>1, <3>2, <4>1
        <3>3. CASE i = Len(commandQueue')
            <4> HIDE DEF TypeOK
            <4> QED BY <2>2, <3>1, <3>3
        <3> HIDE DEF TypeOK
        <3> QED BY <2>2, <3>1, <3>2, <3>3
    <2> QED BY <1>2, <2>2, <2>3 DEF Dispatch, disk, work
<1>3. CASE TakeCommand
    <2>1. /\ Head(commandQueue) \in 1..Len(calls)
          /\ Tail(commandQueue) \in Seq(Nat)
          /\ \A i \in 1..Len(Tail(commandQueue)) :
               Tail(commandQueue)[i] \in 1..Len(calls)
        BY <1>3 DEF TakeCommand
    <2> QED BY <1>3, <2>1, EmptyTypes DEF TakeCommand, disk, ReadModel
<1>4. CASE LookupNew
    BY <1>4 DEF LookupNew, disk, work
<1>5. CASE LookupKnown
    <2>1. receipts[current.id] \in Receipt
        BY <1>5, CurrentType DEF LookupKnown
    <2>2. calls' \in Seq(Call) /\ Len(calls') = Len(calls) /\ phase' = "idle"
        BY <1>5, <2>1, ReplyType DEF LookupKnown, Receipt
    <2> QED BY <1>5, <2>2 DEF LookupKnown, disk, work
<1>6. CASE LookupFails
    BY <1>6 DEF LookupFails, Fault, FailWith, disk
<1>7. CASE Decide
    <2>1. PICK planned \in Decisions(commandReadModel, current) :
             tx' = [planned |-> planned, staged |-> 0, rows |-> rows,
                    model |-> commandReadModel]
        BY <1>7 DEF Decide
    <2>2. planned \in Seq(Event)
        BY <1>7, CurrentType, DecisionShape DEF Decide
    <2>3. tx' \in Transaction
        BY <2>1, <2>2 DEF Transaction
    <2> QED BY <1>7, <2>3 DEF Decide, disk
<1>8. CASE DecideRefuses
    BY <1>8 DEF DecideRefuses, FailWith, disk
<1>9. CASE StageEvent
    <2>1. tx.planned[tx.staged + 1] \in Event /\ Len(log) + tx.staged + 1 \in Nat
        BY <1>9, SMTT(30) DEF StageEvent, Transaction
    <2> DEFINE e == tx.planned[tx.staged + 1]
               n == Len(log) + tx.staged + 1
    <2>a. /\ ProjectOnto(tx.model, e, n) \in ReadModel
          /\ ApplyToRows(tx.rows, e, n) \in Rows
        BY <2>1, ProjectOntoType, ApplyToRowsType DEF Transaction
    <2>b. tx' = [planned |-> tx.planned, staged |-> tx.staged + 1,
                 rows |-> ApplyToRows(tx.rows, e, n),
                 model |-> ProjectOnto(tx.model, e, n)]
        BY <1>9 DEF StageEvent, Transaction
    <2> HIDE DEF e, n
    <2>2. tx' \in Transaction
        BY <2>a, <2>b DEF Transaction
    <2> QED BY <1>9, <2>2 DEF StageEvent, disk
<1>10. CASE FinishTransaction
    BY <1>10 DEF FinishTransaction, disk, work
<1>11. ASSUME CommitDurably, phase = "commit"
       PROVE  /\ log' \in Seq(Event)
              /\ rows' \in Rows
              /\ receipts' \in [CommandId -> Receipt]
              /\ Len(log) + Len(tx.planned) \in Nat
    <2>1. Len(log) + Len(tx.planned) \in Nat /\ log' \in Seq(Event)
        BY <1>11 DEF CommitDurably, Transaction
    <2>2. [status |-> "accepted", sequence |-> Len(log) + Len(tx.planned)]
            \in Receipt
        BY <2>1 DEF Receipt
    <2> QED BY <1>11, <2>1, <2>2 DEF CommitDurably, Transaction
<1>12. CASE Commit
    BY <1>11, <1>12 DEF Commit, Transaction
<1>13. CASE RollBack
    BY <1>13 DEF RollBack, Fault, FailWith, disk
<1>14. CASE CommitUnacknowledged
    BY <1>11, <1>14 DEF CommitUnacknowledged, Fault, FailWith
<1>15. CASE Publish
    BY <1>15 DEF Publish, PublishNext, disk
<1>16. CASE Succeed
    <2>1. calls' \in Seq(Call) /\ Len(calls') = Len(calls) /\ phase' = "idle"
        BY <1>16, ReplyType DEF Succeed
    <2> QED BY <1>16, <2>1 DEF Succeed, disk, work
<1>17. CASE ReconcileRead
    <2>1. tx' \in Transaction
        BY <1>17, EmptyTypes DEF ReconcileRead, Transaction
    <2> QED BY <1>17, <2>1 DEF ReconcileRead, disk
<1>18. CASE ReconcileNothing
    BY <1>18 DEF ReconcileNothing, disk, work
<1>19. CASE ReconcileFails
    BY <1>19 DEF ReconcileFails, Fault, disk, work
<1>20. CASE Replay
    <2>1. nextToPublish \in 1..Len(log)
        BY <1>20 DEF Replay, Outcome
    <2>2. log[nextToPublish] \in Event
        BY <2>1
    <2>3. tx' \in Transaction
        BY <1>20, <2>2, ProjectOntoType DEF Replay, Transaction
    <2> QED BY <1>20, <2>3 DEF Replay, disk
<1>21. CASE AdoptReplay
    BY <1>21 DEF AdoptReplay, disk, Transaction
<1>22. CASE Republish
    BY <1>22 DEF Republish, PublishNext, disk
<1>23. CASE FinishReconcile
    BY <1>23 DEF FinishReconcile, disk, work
<1>24. CASE RecordRejection
    <2>1. [status |-> "rejected", sequence |-> commandReadModel.snapshotSequence]
            \in Receipt
        BY DEF Receipt, ReadModel
    <2> QED BY <1>24, <2>1 DEF RecordRejection, work
<1>25. CASE SkipRejection
    BY <1>25 DEF SkipRejection, Fault, disk, work
<1>26. CASE FailCall
    <2>1. failure \in {"invariant", "storage"}
        BY <1>26 DEF FailCall, Outcome
    <2>2. calls' \in Seq(Call) /\ Len(calls') = Len(calls) /\ phase' = "idle"
        BY <1>26, <2>1, ReplyType DEF FailCall
    <2> QED BY <1>26, <2>2 DEF FailCall, disk, work
<1>27. CASE Crash
    <2>1. \A i \in 1..Len(calls) :
             [calls[i] EXCEPT !.answer.status = "lost"] \in Call
        <3> SUFFICES ASSUME NEW i \in 1..Len(calls)
                     PROVE  [calls[i] EXCEPT !.answer.status = "lost"] \in Call
            OBVIOUS
        <3>1. calls[i] \in Call
            OBVIOUS
        <3>2. [calls[i].answer EXCEPT !.status = "lost"] \in Answer
            BY <3>1 DEF Call, Answer
        <3>3. [calls[i] EXCEPT !.answer = [calls[i].answer EXCEPT !.status = "lost"]]
                \in Call
            BY <3>1, <3>2, AnsweredCallType
        <3> QED BY <3>3
    <2>2. calls' \in Seq(Call) /\ Len(calls') = Len(calls)
        <3> DEFINE lost(i) == IF calls[i].answer.status = "pending"
                              THEN [calls[i] EXCEPT !.answer.status = "lost"]
                              ELSE calls[i]
        <3>1. calls' = [i \in 1..Len(calls) |-> lost(i)]
            BY <1>27 DEF Crash
        <3>2. \A i \in 1..Len(calls) : lost(i) \in Call
            <4>1. \A i \in 1..Len(calls) : calls[i] \in Call
                OBVIOUS
            <4> HIDE DEF TypeOK
            <4> QED BY <2>1, <4>1, Zenon
        <3> HIDE DEF lost
        <3> QED BY <3>1, <3>2
    <2>3. commandQueue' \in Seq(Nat) /\ Len(commandQueue') = 0
        BY <1>27 DEF Crash
    <2>4. stream' \in Seq(Nat)
        BY <1>27 DEF Crash
    <2> QED BY <1>27, <2>2, <2>3, <2>4, EmptyTypes DEF Crash, disk, Fault
<1>28. CASE Boot
    BY <1>28 DEF Boot, disk, work, Rows, ReadModel
<1>29. CASE Quiescent
    BY <1>1, <1>29 DEF Quiescent
<1> QED
    BY <1>1, <1>2, <1>3, <1>4, <1>5, <1>6, <1>7, <1>8, <1>9, <1>10, <1>12,
       <1>13, <1>14, <1>15, <1>16, <1>17, <1>18, <1>19, <1>20, <1>21, <1>22,
       <1>23, <1>24, <1>25, <1>26, <1>27, <1>28, <1>29
    DEF Next, WorkerStep, FaultStep

-----------------------------------------------------------------------------
(* What a commit does to log and receipts.                                 *)

LEMMA CommitEffect ==
    ASSUME DurableInv, phase = "commit", CommitDurably
    PROVE  /\ Len(log') = Len(log) + Len(tx.planned)
           /\ \A n \in 1..Len(log) : log'[n] = log[n]
           /\ receipts'[current.id] = [status |-> "accepted", sequence |-> Len(log')]
           /\ \A id \in CommandId \ {current.id} : receipts'[id] = receipts[id]
           /\ receipts[current.id].status = "none"
           /\ LogMatchesReceipts'
           /\ BootFindsNothingToReplay'
<1> DEFINE N == Len(log)
           K == Len(tx.planned)
           P == tx.planned
           c == current.id
<1>1. /\ c \in CommandId
      /\ N \in Nat /\ K \in Nat /\ K > 0
      /\ P \in Seq(Event) /\ log \in Seq(Event)
      /\ receipts \in [CommandId -> Receipt]
    BY CurrentType DEF DurableInv, TypeOK, Transaction, TransactionInProgress
<1>2. /\ log' = log \o P
      /\ receipts' = [receipts EXCEPT ![c] = [status |-> "accepted", sequence |-> N + K]]
      /\ rows' = tx.rows
    BY DEF CommitDurably
<1>3. /\ Len(log') = N + K
      /\ \A n \in 1..N : log'[n] = log[n]
      /\ \A n \in (N + 1)..(N + K) : log'[n] = P[n - N]
    BY <1>1, <1>2
<1>4. /\ receipts'[c] = [status |-> "accepted", sequence |-> N + K]
      /\ \A id \in CommandId \ {c} : receipts'[id] = receipts[id]
    BY <1>1, <1>2
<1>5. receipts[c].status = "none"
    BY DEF DurableInv, UndecidedInFlight
<1>6. /\ \A i \in 1..K : P[i].command = c
      /\ \A i, j \in 1..K : P[i] = P[j] => i = j
    BY DEF DurableInv, TransactionInProgress
<1>7. \A n \in 1..N : log[n].command # c
    BY <1>1, <1>5 DEF DurableInv, LogMatchesReceipts
<1>8. \A n \in (N + 1)..(N + K) : n - N \in 1..K /\ log'[n].command = c
    <2> SUFFICES ASSUME NEW n \in (N + 1)..(N + K)
                 PROVE  n - N \in 1..K /\ log'[n].command = c
        OBVIOUS
    <2>1. n - N \in 1..K
        BY <1>1
    <2>2. P[n - N].command = c
        BY <1>6, <2>1
    <2>3. log'[n] = P[n - N]
        BY <1>3
    <2> QED BY <2>1, <2>2, <2>3
<1>9. \A i, j \in 1..N : log[i] = log[j] => i = j
    BY DEF DurableInv, LogMatchesReceipts
<1>10. BootFindsNothingToReplay'
    BY <1>1, <1>2, <1>3
    DEF DurableInv, TransactionInProgress, BootFindsNothingToReplay
<1>11. ASSUME NEW i \in 1..(N + K), NEW j \in 1..(N + K), log'[i] = log'[j]
       PROVE  i = j
    <2>1. CASE i \in 1..N /\ j \in 1..N
        BY <1>3, <1>9, <1>11, <2>1
    <2>2. CASE i \in 1..N /\ j \in (N + 1)..(N + K)
        BY <1>3, <1>7, <1>8, <1>11, <2>2
    <2>3. CASE i \in (N + 1)..(N + K) /\ j \in 1..N
        BY <1>3, <1>7, <1>8, <1>11, <2>3
    <2>4. CASE i \in (N + 1)..(N + K) /\ j \in (N + 1)..(N + K)
        <3>1. log'[i] = P[i - N] /\ log'[j] = P[j - N]
            BY <1>3, <2>4
        <3>2. i - N \in 1..K /\ j - N \in 1..K
            BY <1>8, <2>4
        <3>3. i - N = j - N
            BY <1>6, <1>11, <3>1, <3>2
        <3> QED BY <1>1, <2>4, <3>3
    <2> QED BY <1>1, <1>11, <2>1, <2>2, <2>3, <2>4
<1>12. ASSUME NEW id \in CommandId, receipts'[id].status # "accepted",
              NEW n \in 1..(N + K)
       PROVE  log'[n].command # id
    <2>1. id # c /\ receipts[id].status # "accepted"
        BY <1>4, <1>12
    <2>2. CASE n \in 1..N
        BY <1>3, <2>1, <2>2 DEF DurableInv, LogMatchesReceipts
    <2>3. CASE n \in (N + 1)..(N + K)
        BY <1>8, <2>1, <2>3
    <2> QED BY <1>1, <2>2, <2>3
<1>13. ASSUME NEW id \in CommandId, receipts'[id].status = "accepted"
       PROVE  /\ receipts'[id].sequence \in 1..(N + K)
              /\ log'[receipts'[id].sequence].command = id
              /\ \A n \in 1..(N + K) : log'[n].command = id =>
                   /\ n <= receipts'[id].sequence
                   /\ \A k \in n..receipts'[id].sequence : log'[k].command = id
    <2>1. CASE id = c
        <3>1. receipts'[id].sequence = N + K
            BY <1>4, <2>1
        <3>2. \A n \in 1..(N + K) : log'[n].command = id => n \in (N + 1)..(N + K)
            BY <1>1, <1>3, <1>7, <2>1
        <3> QED BY <1>1, <1>8, <2>1, <3>1, <3>2, SMTT(30)
    <2>2. CASE id # c
        <3> DEFINE q == receipts[id].sequence
        <3>1. receipts'[id] = receipts[id]
            BY <1>4, <2>2
        <3>2. /\ q \in 1..N
              /\ log[q].command = id
              /\ \A n \in 1..N : log[n].command = id =>
                   n <= q /\ \A k \in n..q : log[k].command = id
            BY <1>13, <3>1 DEF DurableInv, LogMatchesReceipts
        <3>3. \A n \in 1..(N + K) : log'[n].command = id => n \in 1..N
            BY <1>1, <1>8, <2>2
        <3>4. \A n \in 1..N : \A k \in n..q : k \in 1..N
            BY <1>1, <3>2
        <3> HIDE DEF N, K, P, c, q
        <3> QED BY <1>1, <1>3, <3>1, <3>2, <3>3, <3>4 DEF q
    <2> QED BY <2>1, <2>2
<1>14. LogMatchesReceipts'
    BY <1>3, <1>11, <1>12, <1>13 DEF LogMatchesReceipts
<1> QED BY <1>3, <1>4, <1>5, <1>10, <1>14

-----------------------------------------------------------------------------
(* The durable invariant: log, receipts, rows and answers.                 *)

LEMMA DurableInit == Init => DurableInv
<1> SUFFICES ASSUME Init PROVE DurableInv
    OBVIOUS
<1>1. TypeOK
    BY TypeInit
<1>2. LogMatchesReceipts
    BY DEF Init, LogMatchesReceipts, NoReceipt
<1>3. UndecidedInFlight /\ TransactionInProgress /\ Outcome
    BY DEF Init, UndecidedInFlight, TransactionInProgress, Outcome
<1>4. AckIsDurable
    BY DEF Init, AckIsDurable
<1>5. BootFindsNothingToReplay
    BY DEF Init, BootFindsNothingToReplay, EmptyRows
<1> QED BY <1>1, <1>2, <1>3, <1>4, <1>5 DEF DurableInv

\* A stored receipt names an event of its command.
LEMMA ReceiptNamesEvent ==
    ASSUME LogMatchesReceipts, NEW id \in CommandId, NEW q,
           receipts[id] = [status |-> "accepted", sequence |-> q]
    PROVE  q \in 1..Len(log) /\ log[q].command = id
    BY DEF LogMatchesReceipts

\* Steps that write nothing durable.
LEMMA DiskUnchanged ==
    ASSUME DurableInv, UNCHANGED disk
    PROVE  LogMatchesReceipts' /\ BootFindsNothingToReplay'
    BY DEF DurableInv, disk, LogMatchesReceipts, BootFindsNothingToReplay

LEMMA AckUnchanged ==
    ASSUME DurableInv, UNCHANGED <<log, receipts, calls>>
    PROVE  AckIsDurable'
    BY DEF DurableInv, AckIsDurable

\* Steps that answer the current call "accepted" with its stored receipt, or
\* with another status.
LEMMA AckReply ==
    ASSUME DurableInv, phase \notin {"off", "idle"}, UNCHANGED <<log, receipts>>,
           NEW status, NEW q, Reply(status, q),
           status = "accepted" =>
             receipts[current.id] = [status |-> "accepted", sequence |-> q]
    PROVE  AckIsDurable'
<1>1. envelope \in 1..Len(calls) /\ current.id \in CommandId
    BY CurrentType DEF DurableInv
<1>2. /\ calls \in Seq(Call) /\ DOMAIN calls = 1..Len(calls)
      /\ calls[envelope] \in Call
    BY <1>1 DEF DurableInv, TypeOK
<1>3. \A k \in DOMAIN calls' :
        /\ k \in DOMAIN calls
        /\ calls'[k].command = calls[k].command
        /\ k # envelope => calls'[k].answer = calls[k].answer
        /\ k = envelope => calls'[k].answer = [status |-> status, sequence |-> q]
    BY <1>1, <1>2 DEF Reply, Call
<1> SUFFICES ASSUME NEW k \in DOMAIN calls', calls'[k].answer.status = "accepted"
             PROVE  /\ receipts[calls'[k].command.id]
                         = [status |-> "accepted",
                            sequence |-> calls'[k].answer.sequence]
                    /\ calls'[k].answer.sequence \in 1..Len(log)
                    /\ log[calls'[k].answer.sequence].command = calls'[k].command.id
    BY DEF AckIsDurable
<1>4. CASE k = envelope
    <2>1. status = "accepted" /\ calls'[k].answer.sequence = q
          /\ calls'[k].command.id = current.id
        BY <1>3, <1>4 DEF current
    <2>2. receipts[current.id] = [status |-> "accepted", sequence |-> q]
        BY <2>1
    <2>3. q \in 1..Len(log) /\ log[q].command = current.id
        BY <1>1, <2>2, ReceiptNamesEvent DEF DurableInv
    <2> QED BY <2>1, <2>2, <2>3
<1>5. CASE k # envelope
    <2>1. /\ calls'[k].answer = calls[k].answer
          /\ calls'[k].command = calls[k].command
          /\ k \in DOMAIN calls
        BY <1>3, <1>5
    <2>2. calls[k].answer.status = "accepted"
        BY <2>1
    <2> QED BY <2>1, <2>2 DEF DurableInv, AckIsDurable
<1> QED BY <1>4, <1>5

\* Steps that only write the receipt of an undecided command, and may append.
LEMMA AckNewReceipt ==
    ASSUME DurableInv, LogMatchesReceipts', phase \notin {"off", "idle"},
           UNCHANGED calls,
           receipts[current.id].status = "none",
           \A id \in CommandId \ {current.id} : receipts'[id] = receipts[id]
    PROVE  AckIsDurable'
<1>1. calls \in Seq(Call)
    BY DEF DurableInv, TypeOK
<1> SUFFICES ASSUME NEW k \in DOMAIN calls, calls[k].answer.status = "accepted"
             PROVE  /\ receipts'[calls[k].command.id]
                         = [status |-> "accepted",
                            sequence |-> calls[k].answer.sequence]
                    /\ calls[k].answer.sequence \in 1..Len(log')
                    /\ log'[calls[k].answer.sequence].command = calls[k].command.id
    BY DEF AckIsDurable
<1> DEFINE id == calls[k].command.id
           q == calls[k].answer.sequence
<1>2. receipts[id] = [status |-> "accepted", sequence |-> q]
    BY DEF DurableInv, AckIsDurable
<1>3. id \in CommandId
    <2>1. calls[k] \in Call
        BY <1>1
    <2>2. calls[k].command \in Command
        BY <2>1, EngineAssumption DEF EngineAssumption, Call
    <2> QED BY <2>2 DEF Command
<1>4. id # current.id
    BY <1>2
<1>5. receipts'[id] = [status |-> "accepted", sequence |-> q]
    BY <1>2, <1>3, <1>4
<1>6. q \in 1..Len(log') /\ log'[q].command = id
    <2> HIDE DEF id, q
    <2>1. receipts'[id].status = "accepted" /\ receipts'[id].sequence = q
        BY <1>5
    <2> QED BY <1>3, <2>1 DEF LogMatchesReceipts
<1> QED BY <1>5, <1>6

LEMMA DurableStep == DurableInv /\ [Next]_vars => DurableInv'
<1> SUFFICES ASSUME DurableInv, [Next]_vars PROVE DurableInv'
    OBVIOUS
<1>a. TypeOK /\ TypeOK'
    BY TypeStep DEF DurableInv
<1> DEFINE Rest == /\ LogMatchesReceipts /\ UndecidedInFlight
                   /\ TransactionInProgress /\ Outcome
                   /\ AckIsDurable /\ BootFindsNothingToReplay
<1> SUFFICES Rest'
    BY <1>a DEF DurableInv
<1>b. UNCHANGED disk => LogMatchesReceipts' /\ BootFindsNothingToReplay'
    BY DiskUnchanged
<1>c. UNCHANGED <<disk, calls>> => AckIsDurable'
    BY AckUnchanged DEF disk
\* The parts about the worker, where it stands.
<1> DEFINE Control == UndecidedInFlight /\ TransactionInProgress /\ Outcome
<1>d. Control
    BY DEF DurableInv
<1> USE DEF UndecidedInFlight, TransactionInProgress, Outcome
<1>1. CASE UNCHANGED vars
    BY <1>1, <1>b, <1>c, <1>d DEF vars, disk, work, current
<1>2. ASSUME NEW c \in Commands, Dispatch(c) PROVE Rest'
    <2>1. phase \notin {"off", "idle"} => current' = current
        BY <1>2, <1>a, CurrentType DEF Dispatch, work, current, TypeOK
    <2>2. AckIsDurable'
        <3>1. /\ \A k \in DOMAIN calls : k \in DOMAIN calls' /\ calls'[k] = calls[k]
              /\ \A k \in DOMAIN calls' :
                   k \in DOMAIN calls \/ calls'[k].answer.status = "pending"
            BY <1>2, <1>a, SMTT(30) DEF Dispatch, TypeOK, Pending
        <3>2. log' = log /\ receipts' = receipts
            BY <1>2 DEF Dispatch, disk
        <3>3. ASSUME NEW k \in DOMAIN calls', calls'[k].answer.status = "accepted"
              PROVE  k \in DOMAIN calls /\ calls'[k] = calls[k]
            BY <3>1, <3>3
        <3> QED BY <3>2, <3>3 DEF DurableInv, AckIsDurable
    <2>3. Control'
        BY <1>2, <1>d, <2>1 DEF Dispatch, disk, work
    <2> QED BY <1>2, <1>b, <2>2, <2>3 DEF Dispatch
<1>3. CASE TakeCommand
    <2>1. Control'
        BY <1>3, <1>d DEF TakeCommand, disk, work, current
    <2> QED BY <1>3, <1>b, <1>c, <2>1 DEF TakeCommand, work
<1>4. CASE LookupNew
    <2>1. Control'
        BY <1>4, <1>d DEF LookupNew, disk, work, current
    <2> QED BY <1>4, <1>b, <1>c, <2>1 DEF LookupNew, work
<1>5. CASE LookupKnown
    <2>1. PICK status, q :
             /\ Reply(status, q)
             /\ status = "accepted" =>
                  receipts[current.id] = [status |-> "accepted", sequence |-> q]
        <3>1. receipts[current.id] \in Receipt
            BY <1>5, <1>a, CurrentType DEF LookupKnown, TypeOK
        <3> QED BY <1>5, <3>1 DEF LookupKnown, Receipt
    <2>2. AckIsDurable'
        BY <1>5, <2>1, AckReply DEF LookupKnown, disk
    <2>3. Control'
        BY <1>5, <2>1 DEF LookupKnown, Reply
    <2> QED BY <1>5, <1>b, <2>2, <2>3 DEF LookupKnown
<1>6. CASE LookupFails
    <2>1. Control'
        BY <1>6, <1>d DEF LookupFails, disk, work, current, Fault, FailWith
    <2> QED BY <1>6, <1>b, <1>c, <2>1 DEF LookupFails, work
<1>7. CASE Decide
    <2>1. PICK planned \in Decisions(commandReadModel, current) :
             tx' = [planned |-> planned, staged |-> 0, rows |-> rows,
                    model |-> commandReadModel]
        BY <1>7 DEF Decide
    <2>2. /\ planned \in Seq(Event) /\ Len(planned) \in Nat \ {0}
          /\ \A i \in 1..Len(planned) : planned[i].command = current.id
          /\ \A i, j \in 1..Len(planned) : planned[i] = planned[j] => i = j
        BY <1>7, <1>a, CurrentType, DecisionShape DEF Decide
    <2>3. /\ tx'.planned = planned /\ tx'.staged = 0
          /\ tx'.rows.cursor = Len(log)
        BY <2>1 DEF DurableInv, BootFindsNothingToReplay
    <2>4. current' = current /\ phase' = "transaction" /\ UNCHANGED disk
        BY <1>7 DEF Decide, current
    <2>5. UndecidedInFlight' /\ Outcome'
        BY <1>7, <1>d, <2>4 DEF Decide, disk
    <2>6. TransactionInProgress'
        <3>1. log' = log /\ Len(log) \in Nat
            BY <1>a, <2>4, SMTT(30) DEF disk, TypeOK
        <3> QED BY <2>2, <2>3, <2>4, <3>1
    <2> QED BY <1>7, <1>b, <1>c, <2>5, <2>6 DEF Decide
<1>8. CASE DecideRefuses
    <2>1. Control'
        BY <1>8, <1>d DEF DecideRefuses, FailWith, disk, current
    <2> QED BY <1>8, <1>b, <1>c, <2>1 DEF DecideRefuses
<1>9. CASE StageEvent
    <2> DEFINE e == tx.planned[tx.staged + 1]
               n == Len(log) + tx.staged + 1
    <2>1. e \in Event /\ n \in Nat /\ tx.rows \in Rows /\ tx.staged \in Nat
          /\ tx.planned \in Seq(Event)
        <3>1. tx.rows \in Rows /\ tx.staged \in Nat /\ tx.planned \in Seq(Event)
            BY <1>a DEF TypeOK, Transaction
        <3>2. Len(log) \in Nat
            BY <1>a DEF TypeOK
        <3>3. tx.staged < Len(tx.planned) /\ Len(tx.planned) \in Nat
            BY <1>9, <3>1 DEF StageEvent
        <3>4. tx.staged + 1 \in 1..Len(tx.planned)
            BY <3>1, <3>3
        <3> QED BY <3>1, <3>2, <3>4
    <2>2. ApplyToRows(tx.rows, e, n).cursor = n
        BY <2>1, ApplyToRowsType
    <2>3. /\ tx'.planned = tx.planned
          /\ tx'.staged = tx.staged + 1
          /\ tx'.rows = ApplyToRows(tx.rows, e, n)
          /\ phase' = "transaction" /\ current' = current /\ UNCHANGED disk
        BY <1>9, <1>a DEF StageEvent, TypeOK, Transaction, current
    <2>4. tx.staged < Len(tx.planned)
        BY <1>9 DEF StageEvent
    <2>5. tx'.rows.cursor = Len(log) + tx'.staged
        <3>1. Len(log) \in Nat
            BY <1>a DEF TypeOK
        <3> QED BY <2>1, <2>2, <2>3, <3>1
    <2>6. TransactionInProgress'
        <3>1. Len(tx.planned) \in Nat /\ phase = "transaction"
            BY <1>9, <2>1 DEF StageEvent
        <3> HIDE DEF e, n
        <3> QED BY <1>d, <2>1, <2>3, <2>4, <2>5, <3>1 DEF disk
    <2>7. UndecidedInFlight' /\ Outcome'
        BY <1>9, <1>d, <2>3 DEF StageEvent, disk
    <2> QED BY <1>9, <1>b, <1>c, <2>6, <2>7 DEF StageEvent
<1>10. CASE FinishTransaction
    <2>1. Control'
        BY <1>10, <1>d DEF FinishTransaction, disk, work, current
    <2> QED BY <1>10, <1>b, <1>c, <2>1 DEF FinishTransaction, work
<1>11. CASE Commit
    <2>1. /\ Len(log') = Len(log) + Len(tx.planned)
          /\ receipts'[current.id] = [status |-> "accepted", sequence |-> Len(log')]
          /\ \A id \in CommandId \ {current.id} : receipts'[id] = receipts[id]
          /\ receipts[current.id].status = "none"
          /\ LogMatchesReceipts' /\ BootFindsNothingToReplay'
        BY <1>11, CommitEffect DEF Commit
    <2>2. AckIsDurable'
        BY <1>11, <2>1, AckNewReceipt DEF Commit
    <2>3. Control'
        BY <1>11, <2>1 DEF Commit, current
    <2> QED BY <2>1, <2>2, <2>3
<1>12. CASE RollBack
    <2>1. Control'
        BY <1>12, <1>d DEF RollBack, disk, work, current, Fault, FailWith
    <2> QED BY <1>12, <1>b, <1>c, <2>1 DEF RollBack, work
<1>13. CASE CommitUnacknowledged
    <2>1. /\ \A id \in CommandId \ {current.id} : receipts'[id] = receipts[id]
          /\ receipts[current.id].status = "none"
          /\ LogMatchesReceipts' /\ BootFindsNothingToReplay'
        BY <1>13, CommitEffect DEF CommitUnacknowledged
    <2>2. AckIsDurable'
        BY <1>13, <2>1, AckNewReceipt DEF CommitUnacknowledged
    <2>3. Control'
        BY <1>13 DEF CommitUnacknowledged, FailWith
    <2> QED BY <2>1, <2>2, <2>3
<1>14. CASE Publish
    <2>1. Control'
        BY <1>14, <1>d DEF Publish, disk, work, current, PublishNext
    <2> QED BY <1>14, <1>b, <1>c, <2>1 DEF Publish, work
<1>15. CASE Succeed
    <2>1. Reply("accepted", lastToPublish) /\ UNCHANGED <<log, receipts>>
        BY <1>15 DEF Succeed, disk
    <2>2. AckIsDurable'
        BY <1>15, <1>d, <2>1, AckReply DEF Succeed
    <2>3. Control'
        BY <1>15 DEF Succeed, Reply
    <2> QED BY <1>15, <1>b, <2>2, <2>3 DEF Succeed
<1>16. CASE ReconcileRead
    <2>1. startSequence + 1 > 0 /\ Len(log) <= Len(log)
        BY <1>a DEF TypeOK
    <2>2. Control'
        BY <1>16, <1>d, <2>1 DEF ReconcileRead, disk, current
    <2> QED BY <1>16, <1>b, <1>c, <2>2 DEF ReconcileRead
<1>17. CASE ReconcileNothing
    <2>1. Control'
        BY <1>17, <1>d DEF ReconcileNothing, disk, work, current
    <2> QED BY <1>17, <1>b, <1>c, <2>1 DEF ReconcileNothing, work
<1>18. CASE ReconcileFails
    <2>1. Control'
        BY <1>18, <1>d DEF ReconcileFails, disk, work, current, Fault
    <2> QED BY <1>18, <1>b, <1>c, <2>1 DEF ReconcileFails, work
<1>19. CASE Replay
    <2>1. nextToPublish + 1 > 0
        BY <1>a DEF TypeOK
    <2>2. Control'
        BY <1>19, <1>d, <2>1 DEF Replay, disk, current
    <2> QED BY <1>19, <1>b, <1>c, <2>2 DEF Replay
<1>20. CASE AdoptReplay
    <2>1. startSequence + 1 > 0
        BY <1>a DEF TypeOK
    <2>2. Control'
        BY <1>20, <1>d, <2>1 DEF AdoptReplay, disk, current
    <2> QED BY <1>20, <1>b, <1>c, <2>2 DEF AdoptReplay
<1>21. CASE Republish
    <2>1. nextToPublish + 1 > 0
        BY <1>a DEF TypeOK
    <2>2. Control'
        BY <1>21, <1>d, <2>1 DEF Republish, PublishNext, disk, current
    <2> QED BY <1>21, <1>b, <1>c, <2>2 DEF Republish
<1>22. CASE FinishReconcile
    <2>1. Control'
        BY <1>22, <1>d DEF FinishReconcile, disk, work, current
    <2> QED BY <1>22, <1>b, <1>c, <2>1 DEF FinishReconcile, work
<1>23. CASE RecordRejection
    <2>1. /\ current.id \in CommandId
          /\ receipts \in [CommandId -> Receipt]
        BY <1>23, <1>a, CurrentType DEF RecordRejection, TypeOK
    <2>2. receipts[current.id].status = "none"
        BY <1>23, <1>d DEF RecordRejection
    <2>3. /\ receipts'[current.id].status = "rejected"
          /\ \A id \in CommandId \ {current.id} : receipts'[id] = receipts[id]
          /\ UNCHANGED <<log, rows, calls>>
        BY <1>23, <2>1 DEF RecordRejection
    <2>4. LogMatchesReceipts'
        <3>1. \A id \in CommandId :
                receipts'[id].status = "accepted" => receipts'[id] = receipts[id]
            BY <2>3
        <3>2. \A id \in CommandId :
                receipts'[id].status # "accepted" => receipts[id].status # "accepted"
            BY <2>2, <2>3
        <3> QED BY <2>3, <3>1, <3>2 DEF DurableInv, LogMatchesReceipts
    <2>5. AckIsDurable'
        BY <1>23, <2>2, <2>3, <2>4, AckNewReceipt DEF RecordRejection
    <2>6. BootFindsNothingToReplay'
        BY <2>3 DEF DurableInv, BootFindsNothingToReplay
    <2>7. Control'
        BY <1>23 DEF RecordRejection, work
    <2> QED BY <2>4, <2>5, <2>6, <2>7
<1>24. CASE SkipRejection
    <2>1. Control'
        BY <1>24, <1>d DEF SkipRejection, disk, work, current, Fault
    <2> QED BY <1>24, <1>b, <1>c, <2>1 DEF SkipRejection, work
<1>25. CASE FailCall
    <2>1. failure \in {"invariant", "storage"}
        BY <1>25, <1>a, <1>d DEF FailCall, TypeOK
    <2>2. Reply(failure, 0) /\ failure # "accepted" /\ UNCHANGED <<log, receipts>>
        BY <1>25, <2>1 DEF FailCall, disk
    <2>3. AckIsDurable'
        BY <1>25, <2>2, AckReply DEF FailCall
    <2>4. Control'
        BY <1>25 DEF FailCall, Reply
    <2> QED BY <1>25, <1>b, <2>3, <2>4 DEF FailCall
<1>26. CASE Crash
    <2>1. \A k \in DOMAIN calls' :
            /\ k \in DOMAIN calls
            /\ calls'[k].answer.status = "accepted" => calls'[k] = calls[k]
        <3> SUFFICES ASSUME NEW k \in DOMAIN calls'
                     PROVE  /\ k \in DOMAIN calls
                            /\ calls'[k].answer.status = "accepted"
                                 => calls'[k] = calls[k]
            OBVIOUS
        <3>1. k \in DOMAIN calls /\ calls[k] \in Call
            BY <1>26, <1>a DEF Crash, TypeOK
        <3>2. [calls[k] EXCEPT !.answer.status = "lost"].answer.status = "lost"
            BY <3>1 DEF Call, Answer
        <3> QED BY <1>26, <3>1, <3>2 DEF Crash
    <2>2. AckIsDurable'
        BY <1>26, <2>1 DEF Crash, disk, DurableInv, AckIsDurable
    <2>3. Control'
        BY <1>26 DEF Crash
    <2> QED BY <1>26, <1>b, <2>2, <2>3 DEF Crash
<1>27. CASE Boot
    <2>1. Control'
        BY <1>27, <1>d DEF Boot, disk, work, current
    <2> QED BY <1>27, <1>b, <1>c, <2>1 DEF Boot, work
<1>28. CASE Quiescent
    BY <1>1, <1>28 DEF Quiescent
<1> QED
    BY <1>1, <1>2, <1>3, <1>4, <1>5, <1>6, <1>7, <1>8, <1>9, <1>10, <1>11,
       <1>12, <1>13, <1>14, <1>15, <1>16, <1>17, <1>18, <1>19, <1>20, <1>21,
       <1>22, <1>23, <1>24, <1>25, <1>26, <1>27, <1>28
    DEF Next, WorkerStep, FaultStep

-----------------------------------------------------------------------------
(* What every execution preserves, whatever fails.                         *)

\* The inductive invariant: receipts and events match, commands in flight
\* have no receipt yet, the open transaction builds on the end of the log.
THEOREM DurableInvariant == Spec => []DurableInv
<1>1. Init => DurableInv
    BY DurableInit
<1>2. DurableInv /\ [Next]_vars => DurableInv'
    BY DurableStep
<1> QED BY <1>1, <1>2, PTL DEF Spec

\* Type correctness of the engine's state.
THEOREM TypeCorrect == Spec => []TypeOK
<1>1. DurableInv => TypeOK
    BY DEF DurableInv
<1> QED BY <1>1, DurableInvariant, PTL

\* A command id takes effect at most once and as a whole: its events are one
\* unbroken run of the log that ends where its accepted receipt says, for any
\* retries, reused ids, failed statements, lost commits and restarts.
THEOREM CommandsTakeEffectOnce == Spec => []ExactlyOnce
<1>1. DurableInv => ExactlyOnce
    <2> SUFFICES ASSUME DurableInv, NEW id \in CommandId
                 PROVE  /\ receipts[id].status = "accepted" <=> Positions(id) # {}
                        /\ receipts[id].status = "accepted" =>
                             \A n \in Positions(id) :
                               n..receipts[id].sequence \subseteq Positions(id)
                        /\ \A i, j \in Positions(id) : log[i] = log[j] => i = j
        BY DEF ExactlyOnce
    <2> USE DEF DurableInv, LogMatchesReceipts, Positions
    <2>1. receipts[id].status = "accepted" =>
            /\ receipts[id].sequence \in Positions(id)
            /\ \A n \in Positions(id) :
                 n..receipts[id].sequence \subseteq Positions(id)
        <3>1. Len(log) \in Nat
            BY DEF TypeOK
        <3> QED BY <3>1
    <2>2. receipts[id].status # "accepted" => Positions(id) = {}
        OBVIOUS
    <2>3. \A i, j \in Positions(id) : log[i] = log[j] => i = j
        OBVIOUS
    <2> QED BY <2>1, <2>2, <2>3
<1> QED BY <1>1, DurableInvariant, PTL

\* A caller who was told "accepted" was told of a stored event of its command.
THEOREM AnswersAreDurable == Spec => []AckIsDurable
<1>1. DurableInv => AckIsDurable
    BY DEF DurableInv
<1> QED BY <1>1, DurableInvariant, PTL

\* Events and projection rows are committed together, so the projectors are
\* never behind the log, whenever the process dies.
THEOREM RowsReachTheLog == Spec => []BootFindsNothingToReplay
<1>1. DurableInv => BootFindsNothingToReplay
    BY DEF DurableInv
<1> QED BY <1>1, DurableInvariant, PTL

-----------------------------------------------------------------------------
(* Nothing decided is taken back.                                          *)

\* Only a commit and a recorded rejection write log or receipts.
LEMMA WhoWrites ==
    ASSUME [Next]_vars
    PROVE  \/ UNCHANGED <<log, receipts>>
           \/ phase = "commit" /\ CommitDurably
           \/ RecordRejection
    BY DEF Next, vars, disk, WorkerStep, FaultStep, Dispatch, TakeCommand,
           LookupNew, LookupKnown, LookupFails, Decide, DecideRefuses,
           StageEvent, FinishTransaction, Commit, RollBack,
           CommitUnacknowledged, Publish, Succeed, ReconcileRead,
           ReconcileNothing, ReconcileFails, Replay, AdoptReplay, Republish,
           FinishReconcile, SkipRejection, FailCall, Crash, Boot, Quiescent

LEMMA HistoryStep ==
    ASSUME DurableInv, [Next]_vars
    PROVE  /\ Len(log') >= Len(log)
           /\ \A n \in 1..Len(log) : log'[n] = log[n]
           /\ \A id \in CommandId :
                receipts[id].status # "none" => receipts'[id] = receipts[id]
<1>1. Len(log) \in Nat /\ receipts \in [CommandId -> Receipt]
    BY DEF DurableInv, TypeOK
<1>2. CASE UNCHANGED <<log, receipts>>
    BY <1>1, <1>2
<1>3. CASE phase = "commit" /\ CommitDurably
    <2>1. Len(tx.planned) \in Nat
        BY DEF DurableInv, TypeOK, Transaction
    <2> QED BY <1>1, <1>3, <2>1, CommitEffect
<1>4. CASE RecordRejection
    <2>1. receipts[current.id].status = "none"
        BY <1>4 DEF RecordRejection, DurableInv, UndecidedInFlight
    <2> QED BY <1>1, <1>4, <2>1 DEF RecordRejection
<1> QED BY <1>2, <1>3, <1>4, WhoWrites

\* No step takes back an event or changes a verdict: the log only grows and a
\* receipt, once written, stays as it is, through every failure and restart.
THEOREM HistoryNeverChanges == Spec => HistoryIsFinal
<1>1. DurableInv /\ [Next]_vars =>
        [ /\ Len(log') >= Len(log)
          /\ \A n \in 1..Len(log) : log'[n] = log[n]
          /\ \A id \in CommandId :
               receipts[id].status # "none" => receipts'[id] = receipts[id]
        ]_vars
    BY HistoryStep
<1> QED BY <1>1, DurableInvariant, PTL DEF Spec, HistoryIsFinal

-----------------------------------------------------------------------------
(* The domain stream, when the read of a reconcile does not fail.          *)

\* Publishing the next unpublished sequence keeps the stream gapless.
LEMMA StreamGrows ==
    ASSUME TypeOK, StreamInv, PublishNext, UNCHANGED bootSequence,
           nextToPublish = Published + 1
    PROVE  /\ \A i \in DOMAIN stream' : stream'[i] = bootSequence + i
           /\ Published' = Published + 1
<1>1. /\ stream \in Seq(Nat) /\ bootSequence \in Nat /\ nextToPublish \in Nat
      /\ Published = bootSequence + Len(stream)
    BY DEF TypeOK, Published
<1>2. /\ stream' = Append(stream, nextToPublish)
      /\ bootSequence' = bootSequence
    BY DEF PublishNext
<1>3. /\ Len(stream') = Len(stream) + 1
      /\ DOMAIN stream' = 1..(Len(stream) + 1)
      /\ \A i \in 1..Len(stream) : stream'[i] = stream[i]
      /\ stream'[Len(stream) + 1] = nextToPublish
    BY <1>1, <1>2
<1>4. Published' = Published + 1
    BY <1>1, <1>2, <1>3 DEF Published
<1>5. \A i \in DOMAIN stream : stream[i] = bootSequence + i
    BY DEF StreamInv
<1> QED BY <1>1, <1>3, <1>4, <1>5, SMTT(30)

LEMMA StreamInit == Init => StreamInv
    BY DEF Init, StreamInv, Published

LEMMA StreamStep ==
    ASSUME "reconcile" \notin Faults, DurableInv, StreamInv, [Next]_vars
    PROVE  StreamInv'
<1>a. TypeOK /\ TypeOK'
    BY TypeStep DEF DurableInv
<1>b. /\ Len(log) \in Nat /\ Len(stream) \in Nat /\ bootSequence \in Nat
      /\ startSequence \in Nat /\ nextToPublish \in Nat /\ lastToPublish \in Nat
      /\ Published \in Nat /\ commandReadModel \in ReadModel /\ tx \in Transaction
      /\ commandReadModel.snapshotSequence \in Nat
      /\ tx.staged \in Nat /\ tx.model.snapshotSequence \in Nat
    <2>1. /\ log \in Seq(Event) /\ stream \in Seq(Nat) /\ bootSequence \in Nat
          /\ startSequence \in Nat /\ nextToPublish \in Nat
          /\ lastToPublish \in Nat
          /\ commandReadModel \in ReadModel /\ tx \in Transaction
        BY <1>a DEF TypeOK
    <2>2. Len(log) \in Nat /\ Len(stream) \in Nat /\ Published \in Nat
        BY <2>1 DEF Published
    <2>3. /\ commandReadModel.snapshotSequence \in Nat
          /\ tx.staged \in Nat /\ tx.model \in ReadModel
        BY <2>1 DEF ReadModel, Transaction
    <2>4. tx.model.snapshotSequence \in Nat
        BY <2>3 DEF ReadModel
    <2> QED BY <2>1, <2>2, <2>3, <2>4
<1>c. UNCHANGED <<bootSequence, stream>> =>
        /\ Published' = Published
        /\ \A i \in DOMAIN stream' : stream'[i] = bootSequence' + i
    BY DEF Published, StreamInv
<1>d. UNCHANGED log => Len(log') = Len(log)
    OBVIOUS
<1> HIDE DEF Published
<1> USE DEF StreamInv
<1>1. CASE UNCHANGED vars
    BY <1>1, <1>c DEF vars, disk, work
<1>2. ASSUME NEW c \in Commands, Dispatch(c) PROVE StreamInv'
    BY <1>2, <1>c DEF Dispatch, disk, work
<1>3. CASE TakeCommand
    BY <1>3, <1>b, <1>c DEF TakeCommand, disk
<1>4. CASE LookupNew
    BY <1>4, <1>b, <1>c DEF LookupNew, disk, work
<1>5. CASE LookupKnown
    BY <1>5, <1>b, <1>c DEF LookupKnown, Reply, disk, work
<1>6. CASE LookupFails
    BY <1>6, <1>b, <1>c DEF LookupFails, FailWith, disk
<1>7. CASE Decide
    <2>1. PICK planned : tx' = [planned |-> planned, staged |-> 0, rows |-> rows,
                                model |-> commandReadModel]
        BY <1>7 DEF Decide
    <2>2. tx'.staged = 0 /\ tx'.model = commandReadModel
        BY <2>1
    <2> QED BY <1>7, <1>b, <1>c, <2>2 DEF Decide, disk
<1>8. CASE DecideRefuses
    BY <1>8, <1>b, <1>c DEF DecideRefuses, FailWith, disk
<1>9. CASE StageEvent
    <2> DEFINE e == tx.planned[tx.staged + 1]
               n == Len(log) + tx.staged + 1
    <2>1. e \in Event /\ n \in Nat /\ tx.model \in ReadModel
        BY <1>9, <1>a, <1>b DEF StageEvent, Transaction
    <2>2. tx'.staged = tx.staged + 1 /\ tx'.model = ProjectOnto(tx.model, e, n)
        BY <1>9, <1>b DEF StageEvent, Transaction
    <2>3. tx'.model.snapshotSequence = n
        BY <2>1, <2>2, ProjectOntoType
    <2> QED BY <1>9, <1>b, <1>c, <2>2, <2>3 DEF StageEvent, disk
<1>10. CASE FinishTransaction
    BY <1>10, <1>b, <1>c DEF FinishTransaction, disk, work
<1>11. ASSUME phase = "commit", CommitDurably
       PROVE  /\ Len(log') = Len(log) + Len(tx.planned)
              /\ Len(tx.planned) \in Nat
              /\ tx.model.snapshotSequence = Len(log')
    <2>1. tx.staged = Len(tx.planned)
        BY <1>11 DEF DurableInv, TransactionInProgress
    <2> QED BY <1>11, <1>b, <2>1, CommitEffect DEF Transaction
<1>12. CASE Commit
    BY <1>12, <1>11, <1>b, <1>c DEF Commit
<1>13. CASE RollBack
    BY <1>13, <1>b, <1>c DEF RollBack, FailWith, disk
<1>14. CASE CommitUnacknowledged
    BY <1>14, <1>11, <1>b, <1>c DEF CommitUnacknowledged, FailWith
<1>15. CASE Publish
    BY <1>15, <1>a, <1>b, StreamGrows DEF Publish, PublishNext, disk
<1>16. CASE Succeed
    BY <1>16, <1>b, <1>c DEF Succeed, Reply, disk, work
<1>17. CASE ReconcileRead
    <2>1. tx'.model = commandReadModel
        BY <1>17, EmptyTypes DEF ReconcileRead, Transaction
    <2> QED BY <1>17, <1>b, <1>c, <2>1 DEF ReconcileRead, disk
<1>18. CASE ReconcileNothing
    BY <1>18, <1>b, <1>c DEF ReconcileNothing, disk, work
<1>19. CASE ReconcileFails
    BY <1>19 DEF ReconcileFails, Fault
<1>20. CASE Replay
    <2>1. nextToPublish \in 1..Len(log)
        BY <1>20, <1>b DEF Replay
    <2>2. log[nextToPublish] \in Event /\ tx.model \in ReadModel
        <3> HIDE DEF StreamInv
        <3>1. log \in Seq(Event)
            BY <1>a DEF TypeOK
        <3> QED BY <1>b, <2>1, <3>1 DEF Transaction
    <2>3. tx'.model = ProjectOnto(tx.model, log[nextToPublish], nextToPublish)
        BY <1>20, <1>b DEF Replay, Transaction
    <2>4. tx'.model.snapshotSequence = nextToPublish
        <3> HIDE DEF StreamInv
        <3>1. ProjectOnto(tx.model, log[nextToPublish], nextToPublish).snapshotSequence
                = nextToPublish
            BY <1>b, <2>2, ProjectOntoType
        <3> QED BY <2>3, <3>1
    <2> QED BY <1>20, <1>b, <1>c, <2>1, <2>4 DEF Replay, disk
<1>21. CASE AdoptReplay
    BY <1>21, <1>b, <1>c DEF AdoptReplay, disk
<1>22. CASE Republish
    BY <1>22, <1>a, <1>b, StreamGrows DEF Republish, PublishNext, disk
<1>23. CASE FinishReconcile
    BY <1>23, <1>b, <1>c DEF FinishReconcile, disk, work
<1>24. CASE RecordRejection
    BY <1>24, <1>b, <1>c DEF RecordRejection, work
<1>25. CASE SkipRejection
    BY <1>25, <1>b, <1>c DEF SkipRejection, disk, work
<1>26. CASE FailCall
    BY <1>26, <1>b, <1>c DEF FailCall, Reply, disk, work
<1>27. CASE Crash
    BY <1>27 DEF Crash, Published
<1>28. CASE Boot
    <2>1. Len(stream) = 0 /\ bootSequence = 0
        BY <1>28, <1>b DEF Boot, Published
    <2>2. stream' = stream /\ bootSequence' = Len(log) /\ log' = log
        BY <1>28 DEF Boot, disk
    <2>3. Published' = Len(log) /\ \A i \in DOMAIN stream' : stream'[i] = bootSequence' + i
        BY <1>a, <1>b, <2>1, <2>2, SMTT(30) DEF Published, TypeOK
    <2>4. commandReadModel'.snapshotSequence = Len(log)
        BY <1>28 DEF Boot, DurableInv, BootFindsNothingToReplay
    <2> QED BY <1>28, <2>2, <2>3, <2>4 DEF Boot
<1>29. CASE Quiescent
    BY <1>1, <1>29 DEF Quiescent
<1> QED
    BY <1>1, <1>2, <1>3, <1>4, <1>5, <1>6, <1>7, <1>8, <1>9, <1>10, <1>12,
       <1>13, <1>14, <1>15, <1>16, <1>17, <1>18, <1>19, <1>20, <1>21, <1>22,
       <1>23, <1>24, <1>25, <1>26, <1>27, <1>28, <1>29
    DEF Next, WorkerStep, FaultStep

\* When a reconcile can always read the log, subscribers of the domain stream
\* see every stored event once and in order, also the events of a command
\* whose commit was reported as failed, and the worker only takes a command
\* when nothing is left to publish.
THEOREM StreamIsTheLog ==
    ASSUME "reconcile" \notin Faults
    PROVE  Spec => []StreamFollowsLog
<1>1. Init => StreamInv
    BY StreamInit
<1>2. StreamInv /\ DurableInv /\ [Next]_vars => StreamInv'
    BY StreamStep
<1>3. StreamInv /\ DurableInv => StreamFollowsLog
    <2> SUFFICES ASSUME StreamInv, DurableInv PROVE StreamFollowsLog
        OBVIOUS
    <2>1. /\ Len(log) \in Nat /\ Published \in Nat /\ phase \in Phase
          /\ startSequence \in Nat /\ nextToPublish \in Nat
        BY DEF DurableInv, TypeOK, Published
    <2>2. Published <= Len(log)
        BY <2>1 DEF StreamInv, Phase
    <2> QED BY <2>2 DEF StreamInv, StreamFollowsLog, Published
<1> QED BY <1>1, <1>2, <1>3, DurableInvariant, PTL DEF Spec

-----------------------------------------------------------------------------
(* Calls: who waits, and what stands behind an answer.                     *)

LEMMA CallType ==
    ASSUME TypeOK, NEW k \in DOMAIN calls
    PROVE  /\ calls[k].command \in Commands
           /\ calls[k].command.id \in CommandId
           /\ calls[k].answer \in Answer
<1>1. calls[k] \in Call
    BY DEF TypeOK
<1>2. calls[k].command \in Command
    BY <1>1, EngineAssumption DEF EngineAssumption, Call
<1> QED BY <1>1, <1>2 DEF Command, Call

LEMMA QueueType ==
    ASSUME TypeOK
    PROVE  /\ commandQueue \in Seq(Nat) /\ calls \in Seq(Call)
           /\ DOMAIN commandQueue = 1..Len(commandQueue)
           /\ DOMAIN calls = 1..Len(calls)
           /\ \A i \in DOMAIN commandQueue : commandQueue[i] \in DOMAIN calls
<1>1. /\ commandQueue \in Seq(Nat) /\ calls \in Seq(Call)
      /\ \A i \in 1..Len(commandQueue) : commandQueue[i] \in 1..Len(calls)
    BY DEF TypeOK
<1>2. /\ DOMAIN commandQueue = 1..Len(commandQueue)
      /\ DOMAIN calls = 1..Len(calls)
    BY <1>1
<1> QED BY <1>1, <1>2

\* Steps that complete no call, take none and add none.
CallsKept ==
    /\ UNCHANGED <<calls, commandQueue, envelope>>
    /\ phase' \notin {"off", "idle"} => phase \notin {"off", "idle"}

LEMMA CallsSteps ==
    ASSUME [Next]_vars
    PROVE  \/ CallsKept
           \/ \E c \in Commands : Dispatch(c)
           \/ TakeCommand \/ LookupKnown \/ Succeed \/ FailCall \/ Crash
<1> USE DEF CallsKept
<1>1. CASE UNCHANGED vars
    BY <1>1 DEF vars, work
<1>2. CASE Next
    BY <1>2 DEF Next, vars, work, WorkerStep, FaultStep,
           LookupNew, LookupFails, Decide, DecideRefuses,
           StageEvent, FinishTransaction, Commit, RollBack,
           CommitUnacknowledged, Publish, ReconcileRead,
           ReconcileNothing, ReconcileFails, Replay, AdoptReplay, Republish,
           FinishReconcile, RecordRejection, SkipRejection, Boot, Quiescent,
           FailWith
<1> QED BY <1>1, <1>2

\* An empty receipt is NoReceipt: both writers store a verdict.
LEMMA ReceiptsStep ==
    ASSUME DurableInv, [Next]_vars,
           \A id \in CommandId : receipts[id].status = "none" => receipts[id] = NoReceipt
    PROVE  \A id \in CommandId : receipts'[id].status = "none" => receipts'[id] = NoReceipt
<1>1. receipts \in [CommandId -> Receipt]
    BY DEF DurableInv, TypeOK
<1>2. CASE UNCHANGED <<log, receipts>>
    BY <1>2
<1>3. CASE phase = "commit" /\ CommitDurably
    <2>1. /\ receipts'[current.id].status = "accepted"
          /\ \A id \in CommandId \ {current.id} : receipts'[id] = receipts[id]
        BY <1>3, CommitEffect
    <2> QED BY <2>1
<1>4. CASE RecordRejection
    BY <1>1, <1>4 DEF RecordRejection
<1> QED BY <1>2, <1>3, <1>4, WhoWrites

\* The parts of CallsInv about the queue and about stored rejections.
QueueInv ==
    /\ \A i \in DOMAIN commandQueue : calls[commandQueue[i]].answer = Pending
    /\ \A i, j \in DOMAIN commandQueue : commandQueue[i] = commandQueue[j] => i = j
    /\ phase \notin {"off", "idle"} =>
         /\ calls[envelope].answer = Pending
         /\ \A i \in DOMAIN commandQueue : commandQueue[i] # envelope

RejectionsBacked ==
    \A k \in DOMAIN calls :
        calls[k].answer.status = "previouslyRejected" =>
            receipts[calls[k].command.id].status = "rejected"

\* An answer to the current call.
LEMMA ReplyEffect ==
    ASSUME TypeOK, phase \notin {"off", "idle"}, NEW status, NEW q, Reply(status, q)
    PROVE  /\ envelope \in DOMAIN calls
           /\ DOMAIN calls' = DOMAIN calls
           /\ \A k \in DOMAIN calls :
                /\ calls'[k].command = calls[k].command
                /\ k # envelope => calls'[k] = calls[k]
           /\ calls'[envelope].answer = [status |-> status, sequence |-> q]
<1>1. envelope \in 1..Len(calls) /\ calls \in Seq(Call)
    BY CurrentType DEF TypeOK
<1>2. calls' = [calls EXCEPT ![envelope].answer = [status |-> status, sequence |-> q]]
    BY DEF Reply
<1>3. calls[envelope] \in Call /\ DOMAIN calls = 1..Len(calls)
    BY <1>1
<1> QED BY <1>1, <1>2, <1>3 DEF Call

LEMMA RepliedCalls ==
    ASSUME DurableInv, QueueInv, RejectionsBacked, phase \notin {"off", "idle"},
           UNCHANGED <<commandQueue, receipts>>,
           NEW status, NEW q, Reply(status, q),
           status = "previouslyRejected" => receipts[current.id].status = "rejected"
    PROVE  QueueInv' /\ RejectionsBacked'
<1>1. TypeOK
    BY DEF DurableInv
<1>2. /\ envelope \in DOMAIN calls
      /\ DOMAIN calls' = DOMAIN calls
      /\ \A k \in DOMAIN calls :
           /\ calls'[k].command = calls[k].command
           /\ k # envelope => calls'[k] = calls[k]
      /\ calls'[envelope].answer = [status |-> status, sequence |-> q]
    BY <1>1, ReplyEffect
<1>3. phase' = "idle" /\ commandQueue' = commandQueue /\ receipts' = receipts
    BY DEF Reply
<1>4. \A i \in DOMAIN commandQueue : commandQueue[i] \in DOMAIN calls
    BY <1>1, QueueType
<1>5. QueueInv'
    BY <1>2, <1>3, <1>4 DEF QueueInv
<1>6. RejectionsBacked'
    BY <1>2, <1>3 DEF RejectionsBacked, current
<1> QED BY <1>5, <1>6

LEMMA CallsInit == Init => CallsInv
<1> SUFFICES ASSUME Init PROVE CallsInv
    OBVIOUS
<1>1. /\ \A id \in CommandId : receipts[id] = NoReceipt
      /\ phase = "off" /\ DOMAIN commandQueue = {} /\ DOMAIN calls = {}
    BY DEF Init
<1> QED BY <1>1 DEF CallsInv

LEMMA CallsStep == DurableInv /\ CallsInv /\ [Next]_vars => CallsInv'
<1> SUFFICES ASSUME DurableInv, CallsInv, [Next]_vars PROVE CallsInv'
    OBVIOUS
<1>1. QueueInv /\ RejectionsBacked /\ TypeOK
    BY DEF CallsInv, QueueInv, RejectionsBacked, DurableInv
<1>2. \A id \in CommandId : receipts'[id].status = "none" => receipts'[id] = NoReceipt
    BY ReceiptsStep DEF CallsInv
<1>3. \A id \in CommandId :
         receipts[id].status = "rejected" => receipts'[id].status = "rejected"
    BY HistoryStep
<1>4. /\ \A i \in DOMAIN commandQueue : commandQueue[i] \in DOMAIN calls
      /\ commandQueue \in Seq(Nat) /\ calls \in Seq(Call)
    BY <1>1, QueueType
<1> SUFFICES QueueInv' /\ RejectionsBacked'
    BY <1>2 DEF CallsInv, QueueInv, RejectionsBacked
<1>5. CASE CallsKept
    <2>1. RejectionsBacked'
        BY <1>1, <1>3, <1>5, CallType DEF CallsKept, RejectionsBacked
    <2>2. QueueInv'
        BY <1>1, <1>5 DEF CallsKept, QueueInv
    <2> QED BY <2>1, <2>2
<1>6. ASSUME NEW c \in Commands, Dispatch(c)
      PROVE  QueueInv' /\ RejectionsBacked'
    <2> DEFINE n == Len(calls)
               m == Len(commandQueue)
    <2>1. /\ n \in Nat /\ m \in Nat
          /\ DOMAIN calls = 1..n /\ DOMAIN commandQueue = 1..m
          /\ DOMAIN calls' = 1..(n + 1) /\ DOMAIN commandQueue' = 1..(m + 1)
          /\ \A k \in 1..n : calls'[k] = calls[k]
          /\ calls'[n + 1] = [command |-> c, answer |-> Pending]
          /\ \A i \in 1..m : commandQueue'[i] = commandQueue[i]
          /\ commandQueue'[m + 1] = n + 1
        BY <1>4, <1>6 DEF Dispatch
    <2>2. phase' = phase /\ envelope' = envelope /\ receipts' = receipts
        BY <1>6 DEF Dispatch, disk, work
    <2>3. phase \notin {"off", "idle"} => envelope \in 1..n
        BY <1>1, CurrentType
    <2> HIDE DEF n, m
    <2>4. RejectionsBacked'
        BY <1>1, <2>1, <2>2 DEF RejectionsBacked, Pending
    <2>5. \A i \in 1..m : commandQueue[i] \in 1..n
        BY <1>4, <2>1
    <2>6. \A i \in 1..(m + 1) : i \in 1..m \/ i = m + 1
        BY <2>1
    <2>c. /\ \A i \in 1..m : calls[commandQueue[i]].answer = Pending
          /\ \A i, j \in 1..m : commandQueue[i] = commandQueue[j] => i = j
        BY <1>1, <2>1 DEF QueueInv
    <2>a. ASSUME NEW i \in 1..m
          PROVE  /\ commandQueue'[i] = commandQueue[i]
                 /\ commandQueue'[i] # n + 1
                 /\ calls'[commandQueue'[i]].answer = Pending
        <3>1. commandQueue'[i] = commandQueue[i] /\ commandQueue[i] \in 1..n
            BY <2>1, <2>5
        <3>2. calls'[commandQueue[i]] = calls[commandQueue[i]]
            BY <2>1, <3>1
        <3>3. commandQueue[i] # n + 1
            BY <2>1, <3>1
        <3> QED BY <2>c, <3>1, <3>2, <3>3
    <2>b. calls'[n + 1].answer = Pending
        BY <2>1
    <2>7. \A i \in 1..(m + 1) : calls'[commandQueue'[i]].answer = Pending
        BY <2>1, <2>6, <2>a, <2>b
    <2>8. \A i, j \in 1..(m + 1) : commandQueue'[i] = commandQueue'[j] => i = j
        BY <2>1, <2>6, <2>a, <2>c
    <2>9. ASSUME phase \notin {"off", "idle"}
          PROVE  /\ calls'[envelope].answer = Pending
                 /\ \A i \in 1..(m + 1) : commandQueue'[i] # envelope
        <3>1. /\ envelope \in 1..n /\ envelope # n + 1
              /\ calls[envelope].answer = Pending
              /\ \A i \in 1..m : commandQueue[i] # envelope
            BY <1>1, <2>1, <2>3, <2>9 DEF QueueInv
        <3> QED BY <2>1, <2>6, <2>a, <3>1
    <2>10. QueueInv'
        BY <2>1, <2>2, <2>7, <2>8, <2>9 DEF QueueInv
    <2> QED BY <2>4, <2>10
<1>7. CASE TakeCommand
    <2>1. /\ calls' = calls /\ receipts' = receipts
          /\ envelope' = commandQueue[1]
          /\ 1 \in DOMAIN commandQueue
          /\ \A i \in DOMAIN commandQueue' :
               i + 1 \in DOMAIN commandQueue /\ i + 1 # 1
               /\ commandQueue'[i] = commandQueue[i + 1]
          /\ DOMAIN commandQueue' \subseteq Nat
        BY <1>4, <1>7 DEF TakeCommand, disk
    <2>2. RejectionsBacked'
        BY <1>1, <2>1 DEF RejectionsBacked
    <2>3. \A i, j \in DOMAIN commandQueue' : commandQueue'[i] = commandQueue'[j] => i = j
        <3> SUFFICES ASSUME NEW i \in DOMAIN commandQueue',
                            NEW j \in DOMAIN commandQueue',
                            commandQueue'[i] = commandQueue'[j]
                     PROVE  i = j
            OBVIOUS
        <3>1. i + 1 = j + 1
            BY <1>1, <2>1 DEF QueueInv
        <3> QED BY <2>1, <3>1
    <2>4. QueueInv'
        BY <1>1, <2>1, <2>3 DEF QueueInv
    <2> QED BY <2>2, <2>4
<1>8. CASE LookupKnown
    <2>1. PICK status, q :
             /\ Reply(status, q)
             /\ status = "previouslyRejected" => receipts[current.id].status = "rejected"
        BY <1>8 DEF LookupKnown
    <2>2. phase = "lookup" /\ UNCHANGED <<commandQueue, receipts>>
        BY <1>8 DEF LookupKnown, disk
    <2> QED BY <1>1, <2>1, <2>2, RepliedCalls
<1>9. CASE Succeed
    BY <1>1, <1>9, RepliedCalls DEF Succeed, disk
<1>10. CASE FailCall
    <2>1. Reply(failure, 0) /\ phase = "fail" /\ UNCHANGED <<commandQueue, receipts>>
        BY <1>10 DEF FailCall, disk
    <2>2. failure # "previouslyRejected"
        BY <1>1 DEF TypeOK
    <2> QED BY <1>1, <2>1, <2>2, RepliedCalls
<1>11. CASE Crash
    <2>1. /\ DOMAIN calls' = DOMAIN calls /\ phase' = "off" /\ receipts' = receipts
          /\ DOMAIN commandQueue' = {}
        BY <1>11 DEF Crash, disk
    <2>2. ASSUME NEW k \in DOMAIN calls
          PROVE  /\ calls'[k].command = calls[k].command
                 /\ calls'[k].answer.status = "previouslyRejected" =>
                      calls[k].answer.status = "previouslyRejected"
        <3>1. calls'[k] = IF calls[k].answer.status = "pending"
                          THEN [calls[k] EXCEPT !.answer.status = "lost"]
                          ELSE calls[k]
            BY <1>11 DEF Crash
        <3>2. calls[k] \in Call
            BY <1>4
        <3> QED BY <3>1, <3>2 DEF Call, Answer
    <2>3. RejectionsBacked'
        BY <1>1, <2>1, <2>2 DEF RejectionsBacked
    <2>4. QueueInv'
        BY <2>1 DEF QueueInv
    <2> QED BY <2>3, <2>4
<1> QED BY <1>5, <1>6, <1>7, <1>8, <1>9, <1>10, <1>11, CallsSteps

THEOREM CallsInvariant == Spec => []CallsInv
    BY CallsInit, CallsStep, DurableInvariant, PTL DEF Spec

\* Retries are never told different outcomes: an id one of whose calls was
\* answered as accepted has no call answered as rejected before.
THEOREM RetriesAgree == Spec => []AnswersAgree
<1>1. ASSUME DurableInv, CallsInv PROVE AnswersAgree
    <2> SUFFICES ASSUME NEW j \in DOMAIN calls, NEW k \in DOMAIN calls,
                        calls[j].command.id = calls[k].command.id,
                        calls[j].answer.status = "accepted",
                        calls[k].answer.status = "previouslyRejected"
                 PROVE  FALSE
        BY DEF AnswersAgree
    <2>1. receipts[calls[j].command.id].status = "accepted"
        <3> DEFINE id == calls[j].command.id
        <3>1. receipts[id] = [status |-> "accepted", sequence |-> calls[j].answer.sequence]
            BY <1>1 DEF DurableInv, AckIsDurable
        <3> HIDE DEF id
        <3>2. receipts[id].status = "accepted"
            BY <3>1
        <3> QED BY <3>2 DEF id
    <2>2. receipts[calls[k].command.id].status = "rejected"
        BY <1>1 DEF CallsInv
    <2> QED BY <2>1, <2>2
<1> QED BY <1>1, DurableInvariant, CallsInvariant, PTL

-----------------------------------------------------------------------------
(* Rows, read model and log, when the read of a reconcile does not fail.   *)

\* Projection has nothing to do after the end of a list.
LEMMA NothingLeft ==
    ASSUME NEW m, NEW s \in Seq(Event), NEW a \in Nat, NEW b \in Nat, b < a
    PROVE  Projected(m, SubSeq(s, a, b)) = m
<1>1. Len(SubSeq(s, a, b)) = 0
    OBVIOUS
<1> QED BY <1>1, ProjectedEmpty

\* The part of a log that a commit appends.
LEMMA AppendedPart ==
    ASSUME NEW s \in Seq(Event), NEW d \in Seq(Event)
    PROVE  SubSeq(s \o d, Len(s) + 1, Len(s \o d)) = d
<1> DEFINE u == SubSeq(s \o d, Len(s) + 1, Len(s \o d))
<1>1. u \in Seq(Event) /\ Len(u) = Len(d)
    OBVIOUS
<1>2. \A i \in 1..Len(u) : u[i] = d[i]
    OBVIOUS
<1> HIDE DEF u
<1>3. u = d
    BY <1>1, <1>2, SeqEqual
<1> QED BY <1>3 DEF u

\* What a transaction about to commit has built, when it commits.
LEMMA CommittedState ==
    ASSUME DurableInv, StreamInv, StateInv, phase = "commit", CommitDurably
    PROVE  /\ tx.planned \in Seq(Event)
           /\ tx.planned \in Decisions(EntitiesOf(rows), current)
           /\ log' = log \o tx.planned
           /\ EntitiesOf(rows') = Projected(EntitiesOf(rows), tx.planned)
           /\ EntitiesOf(rows') = EntitiesOf(tx.model)
           /\ EntitiesOf(commandReadModel) = EntitiesOf(rows)
           /\ startSequence = Len(log)
<1>1. tx.planned \in Seq(Event) /\ tx.staged = Len(tx.planned)
    BY DEF DurableInv, TypeOK, Transaction, TransactionInProgress
<1>2. SubSeq(tx.planned, 1, tx.staged) = tx.planned
    BY <1>1, SubSeqFull
<1>3. log' = log \o tx.planned /\ rows' = tx.rows
    BY DEF CommitDurably
<1>4. /\ tx.planned \in Decisions(EntitiesOf(rows), current)
      /\ EntitiesOf(tx.rows) = EntitiesOf(tx.model)
      /\ EntitiesOf(tx.model) =
           Projected(EntitiesOf(rows), SubSeq(tx.planned, 1, tx.staged))
      /\ EntitiesOf(commandReadModel) = EntitiesOf(rows)
    BY DEF StateInv
<1>5. startSequence = Len(log)
    BY DEF StreamInv
<1> QED BY <1>1, <1>2, <1>3, <1>4, <1>5

\* Steps on which the read model stays what the rows are.
LEMMA ModelKept ==
    ASSUME StateInv, EntitiesOf(rows') = EntitiesOf(rows),
           UNCHANGED commandReadModel,
           phase \notin {"off", "reconcile", "replay"},
           phase' \notin {"off", "reconcile", "replay", "transaction", "commit"}
    PROVE  StateInv'
    BY DEF StateInv

\* Steps to a reconcile that has nothing to replay.
LEMMA FailedUnchanged ==
    ASSUME DurableInv, StreamInv, StateInv,
           UNCHANGED <<log, rows, commandReadModel, startSequence>>,
           phase \in {"lookup", "decide", "transaction", "commit"},
           phase' = "reconcile"
    PROVE  StateInv'
<1>1. startSequence = Len(log) /\ log \in Seq(Event)
    BY DEF StreamInv, DurableInv, TypeOK
<1>2. EntitiesOf(commandReadModel) = EntitiesOf(rows)
    BY DEF StateInv
<1>3. Projected(EntitiesOf(commandReadModel),
                SubSeq(log, startSequence + 1, Len(log)))
        = EntitiesOf(commandReadModel)
    BY <1>1, NothingLeft
<1>4. EntitiesOf(rows') =
        Projected(EntitiesOf(commandReadModel'),
                  SubSeq(log', startSequence' + 1, Len(log')))
    BY <1>2, <1>3
<1> QED BY <1>4 DEF StateInv

LEMMA CurrentKept ==
    ASSUME TypeOK, phase \notin {"off", "idle"}, UNCHANGED envelope,
           \/ UNCHANGED calls
           \/ \E c \in Commands : Dispatch(c)
    PROVE  current' = current
<1>1. envelope \in 1..Len(calls) /\ calls \in Seq(Call)
    BY CurrentType DEF TypeOK
<1>2. CASE UNCHANGED calls
    BY <1>2 DEF current
<1>3. ASSUME NEW c \in Commands, Dispatch(c) PROVE current' = current
    <2>1. calls'[envelope] = calls[envelope]
        BY <1>1, <1>3 DEF Dispatch
    <2> QED BY <2>1 DEF current
<1> QED BY <1>2, <1>3

\* Steps that leave the state and what is built from it alone.
LEMMA StateKept ==
    ASSUME DurableInv, StateInv,
           UNCHANGED <<log, rows, commandReadModel, startSequence, tx,
                       nextToPublish, envelope>>,
           \/ UNCHANGED calls
           \/ \E c \in Commands : Dispatch(c),
           \/ phase' = phase
           \/ phase = "transaction" /\ phase' = "commit"
    PROVE  StateInv'
<1>1. phase \in {"transaction", "commit"} => current' = current
    BY CurrentKept DEF DurableInv
<1> QED BY <1>1 DEF StateInv

LEMMA StateInit == Init => StateInv
    BY DEF Init, StateInv

LEMMA StateStep ==
    ASSUME "reconcile" \notin Faults, DurableInv, StreamInv, StateInv, [Next]_vars
    PROVE  StateInv'
<1>a. TypeOK /\ log \in Seq(Event) /\ tx \in Transaction
      /\ startSequence \in Nat /\ nextToPublish \in Nat /\ lastToPublish \in Nat
    BY DEF DurableInv, TypeOK
<1>1. CASE UNCHANGED vars
    BY <1>1, StateKept DEF vars, disk, work
<1>2. ASSUME NEW c \in Commands, Dispatch(c) PROVE StateInv'
    BY <1>2, StateKept DEF Dispatch, disk, work
<1>3. CASE TakeCommand
    BY <1>3, ModelKept DEF TakeCommand, disk
<1>4. CASE LookupNew
    BY <1>4, ModelKept DEF LookupNew, disk
<1>5. CASE LookupKnown
    BY <1>5, ModelKept DEF LookupKnown, Reply, disk
<1>6. CASE LookupFails
    BY <1>6, FailedUnchanged DEF LookupFails, FailWith, disk
<1>7. CASE Decide
    <2>1. PICK planned \in Decisions(commandReadModel, current) :
             tx' = [planned |-> planned, staged |-> 0, rows |-> rows,
                    model |-> commandReadModel]
        BY <1>7 DEF Decide
    <2>2. /\ tx'.planned = planned /\ tx'.staged = 0
          /\ tx'.rows = rows /\ tx'.model = commandReadModel
        BY <2>1
    <2>3. EntitiesOf(commandReadModel) = EntitiesOf(rows)
        BY <1>7 DEF Decide, StateInv
    <2>4. planned \in Decisions(EntitiesOf(rows), current) /\ planned \in Seq(Event)
        BY <1>7, <1>a, <2>3, CurrentType, DecisionsOnEntities, DecisionShape DEF Decide
    <2>5. Projected(EntitiesOf(rows), SubSeq(planned, 1, 0)) = EntitiesOf(rows)
        BY <2>4, NothingLeft
    <2>6. /\ UNCHANGED <<rows, commandReadModel>> /\ current' = current
          /\ phase' = "transaction"
        BY <1>7 DEF Decide, disk, current
    <2> QED BY <2>2, <2>3, <2>4, <2>5, <2>6 DEF StateInv
<1>8. CASE DecideRefuses
    BY <1>8, FailedUnchanged DEF DecideRefuses, FailWith, disk
<1>9. CASE StageEvent
    <2> DEFINE k == tx.staged
               e == tx.planned[k + 1]
               n == Len(log) + k + 1
               m == EntitiesOf(rows)
    <2>1. /\ tx.planned \in Seq(Event) /\ tx.model \in ReadModel /\ tx.rows \in Rows
          /\ k \in 0..(Len(tx.planned) - 1) /\ n \in Nat
        BY <1>9, <1>a DEF StageEvent, Transaction
    <2>2. e \in Event
        BY <2>1
    <2>3. /\ tx'.planned = tx.planned /\ tx'.staged = k + 1
          /\ tx'.model = ProjectOnto(tx.model, e, n)
          /\ tx'.rows = ApplyToRows(tx.rows, e, n)
        BY <1>9, <1>a DEF StageEvent, Transaction
    <2> HIDE DEF e, n
    <2>a. tx.model \in ReadModel /\ tx.rows \in Rows /\ n \in Nat
        BY <2>1
    <2>b. EntitiesOf(ProjectOnto(tx.model, e, n)) = ProjectEvent(EntitiesOf(tx.model), e)
        BY <2>2, <2>a, ProjectOntoType
    <2>c. EntitiesOf(ApplyToRows(tx.rows, e, n)) = ProjectEvent(EntitiesOf(tx.rows), e)
        BY <2>2, <2>a, ApplyToRowsType
    <2>4. /\ EntitiesOf(tx'.model) = ProjectEvent(EntitiesOf(tx.model), e)
          /\ EntitiesOf(tx'.rows) = ProjectEvent(EntitiesOf(tx.rows), e)
        BY <2>3, <2>b, <2>c
    <2>5. Reached(m, tx.planned, k + 1) = ProjectEvent(Reached(m, tx.planned, k), e)
        BY <2>1, ReachedNext DEF e
    <2> HIDE DEF k, m
    <2>6. /\ tx.planned \in Decisions(m, current)
          /\ EntitiesOf(tx.rows) = EntitiesOf(tx.model)
          /\ EntitiesOf(tx.model) = Reached(m, tx.planned, k)
          /\ EntitiesOf(commandReadModel) = m
        BY <1>9 DEF StageEvent, StateInv, Reached, m, k
    <2>7. /\ UNCHANGED <<rows, commandReadModel>> /\ current' = current
          /\ phase' = "transaction"
        BY <1>9 DEF StageEvent, disk, current
    <2> QED BY <2>3, <2>4, <2>5, <2>6, <2>7 DEF StateInv, Reached, m
<1>10. CASE FinishTransaction
    BY <1>10, StateKept DEF FinishTransaction, disk, work
<1>11. CASE Commit
    <2>1. EntitiesOf(rows') = EntitiesOf(commandReadModel') /\ phase' = "publish"
        BY <1>11, CommittedState DEF Commit
    <2> QED BY <2>1 DEF StateInv
<1>12. CASE RollBack
    BY <1>12, FailedUnchanged DEF RollBack, FailWith, disk
<1>13. CASE CommitUnacknowledged
    <2>1. /\ phase = "commit" /\ CommitDurably /\ phase' = "reconcile"
          /\ UNCHANGED <<commandReadModel, startSequence>>
        BY <1>13 DEF CommitUnacknowledged, FailWith
    <2>2. /\ tx.planned \in Seq(Event) /\ log' = log \o tx.planned
          /\ EntitiesOf(rows') = Projected(EntitiesOf(rows), tx.planned)
          /\ EntitiesOf(commandReadModel) = EntitiesOf(rows)
          /\ startSequence = Len(log)
        BY <2>1, CommittedState
    <2>3. SubSeq(log', startSequence' + 1, Len(log')) = tx.planned
        BY <1>a, <2>1, <2>2, AppendedPart
    <2>4. EntitiesOf(rows') =
            Projected(EntitiesOf(commandReadModel'),
                      SubSeq(log', startSequence' + 1, Len(log')))
        BY <2>1, <2>2, <2>3
    <2> QED BY <2>1, <2>4 DEF StateInv
<1>14. CASE Publish
    BY <1>14, ModelKept DEF Publish, disk
<1>15. CASE Succeed
    BY <1>15, ModelKept DEF Succeed, Reply, disk
<1>16. CASE ReconcileRead
    <2>1. /\ tx'.model = commandReadModel /\ nextToPublish' = startSequence + 1
          /\ UNCHANGED <<log, rows, commandReadModel, startSequence>>
          /\ phase = "reconcile" /\ phase' = "replay"
        BY <1>16 DEF ReconcileRead, NoTransaction, disk
    <2>2. startSequence + 1 - 1 = startSequence /\ startSequence < startSequence + 1
        BY <1>a
    <2>3. Projected(EntitiesOf(commandReadModel),
                    SubSeq(log, startSequence + 1, startSequence))
            = EntitiesOf(commandReadModel)
        BY <1>a, <2>2, NothingLeft
    <2>4. nextToPublish' - 1 = startSequence
        BY <1>a, <2>1
    <2>5. EntitiesOf(rows) =
            Projected(EntitiesOf(commandReadModel),
                      SubSeq(log, startSequence + 1, Len(log)))
        BY <2>1 DEF StateInv
    <2> QED BY <2>1, <2>3, <2>4, <2>5 DEF StateInv
<1>17. CASE ReconcileNothing
    <2>1. Projected(EntitiesOf(commandReadModel),
                    SubSeq(log, startSequence + 1, Len(log)))
            = EntitiesOf(commandReadModel)
        <3>1. Len(log) \in Nat /\ startSequence + 1 \in Nat
              /\ Len(log) < startSequence + 1
            BY <1>17, <1>a DEF ReconcileNothing
        <3> QED BY <1>a, <3>1, NothingLeft
    <2> QED BY <1>17, <2>1 DEF ReconcileNothing, disk, StateInv
<1>18. CASE ReconcileFails
    BY <1>18 DEF ReconcileFails, Fault
<1>19. CASE Replay
    <2> DEFINE n == nextToPublish
               m == EntitiesOf(commandReadModel)
    <2>1. /\ n \in (startSequence + 1)..Len(log)
          /\ startSequence + 1 \in 1..Len(log)
        BY <1>19, <1>a DEF Replay, StreamInv
    <2>2. log[n] \in Event /\ tx.model \in ReadModel
        BY <1>a, <2>1 DEF Transaction
    <2>3. /\ tx'.model = ProjectOnto(tx.model, log[n], n) /\ nextToPublish' = n + 1
          /\ UNCHANGED <<log, rows, commandReadModel, startSequence>>
          /\ phase = "replay" /\ phase' = "replay"
        BY <1>19, <1>a DEF Replay, Transaction, disk
    <2>4. EntitiesOf(tx'.model) = ProjectEvent(EntitiesOf(tx.model), log[n])
        BY <1>a, <2>2, <2>3, ProjectOntoType
    <2>5. Projected(m, SubSeq(log, startSequence + 1, n))
            = ProjectEvent(Projected(m, SubSeq(log, startSequence + 1, n - 1)), log[n])
        BY <1>a, <2>1, ProjectedNext
    <2>6. nextToPublish' - 1 = n
        BY <1>a, <2>3
    <2> HIDE DEF n, m
    <2>7. /\ EntitiesOf(tx.model) = Projected(m, SubSeq(log, startSequence + 1, n - 1))
          /\ EntitiesOf(rows) = Projected(m, SubSeq(log, startSequence + 1, Len(log)))
        BY <2>3 DEF StateInv, n, m
    <2> QED BY <2>3, <2>4, <2>5, <2>6, <2>7 DEF StateInv, m
<1>20. CASE AdoptReplay
    <2>1. nextToPublish - 1 = Len(log)
        BY <1>20, <1>a DEF AdoptReplay, StreamInv
    <2>2. EntitiesOf(tx.model) = EntitiesOf(rows)
        BY <1>20, <2>1 DEF AdoptReplay, StateInv
    <2> QED BY <1>20, <2>2 DEF AdoptReplay, disk, StateInv
<1>21. CASE Republish
    BY <1>21, ModelKept DEF Republish, disk
<1>22. CASE FinishReconcile
    BY <1>22, ModelKept DEF FinishReconcile, disk
<1>23. CASE RecordRejection
    BY <1>23, ModelKept DEF RecordRejection
<1>24. CASE SkipRejection
    BY <1>24, ModelKept DEF SkipRejection, disk
<1>25. CASE FailCall
    BY <1>25, ModelKept DEF FailCall, Reply, disk
<1>26. CASE Crash
    BY <1>26 DEF Crash, StateInv
<1>27. CASE Boot
    <2>1. EntitiesOf(commandReadModel') = EntitiesOf(rows') /\ phase' = "idle"
        BY <1>27 DEF Boot, EntitiesOf, disk
    <2> QED BY <2>1 DEF StateInv
<1>28. CASE Quiescent
    BY <1>1, <1>28 DEF Quiescent
<1> QED
    BY <1>1, <1>2, <1>3, <1>4, <1>5, <1>6, <1>7, <1>8, <1>9, <1>10, <1>11, <1>12,
       <1>13, <1>14, <1>15, <1>16, <1>17, <1>18, <1>19, <1>20, <1>21, <1>22,
       <1>23, <1>24, <1>25, <1>26, <1>27, <1>28
    DEF Next, WorkerStep, FaultStep

LEMMA EntitiesType ==
    ASSUME TypeOK
    PROVE  EntitiesOf(rows) \in Entities
    BY DEF TypeOK, Rows, EntitiesOf, Entities

\* When a reconcile can always read the log, the worker never decides on a
\* stale model: the in-memory read model is what the tables hold and has seen
\* every stored event whenever a command may be taken, looked up or decided.
THEOREM DecisionsSeeEverything ==
    ASSUME "reconcile" \notin Faults
    PROVE  Spec => []DecidesOnCurrentState
<1>1. Init => StreamInv /\ StateInv
    BY StreamInit, StateInit
<1>2. StreamInv /\ StateInv /\ DurableInv /\ [Next]_vars => StreamInv' /\ StateInv'
    BY StreamStep, StateStep
<1>3. StreamInv /\ StateInv => DecidesOnCurrentState
    BY DEF StreamInv, StateInv, DecidesOnCurrentState, EntitiesOf
<1> QED BY <1>1, <1>2, <1>3, DurableInvariant, PTL DEF Spec

-----------------------------------------------------------------------------
(* The stored history, when the read of a reconcile does not fail.         *)

\* Only a commit writes log or rows.
LEMMA WhoWritesState ==
    ASSUME [Next]_vars
    PROVE  \/ UNCHANGED <<log, rows>>
           \/ phase = "commit" /\ CommitDurably
    BY DEF Next, vars, disk, WorkerStep, FaultStep, Dispatch, TakeCommand,
           LookupNew, LookupKnown, LookupFails, Decide, DecideRefuses,
           StageEvent, FinishTransaction, Commit, RollBack,
           CommitUnacknowledged, Publish, Succeed, ReconcileRead,
           ReconcileNothing, ReconcileFails, Replay, AdoptReplay, Republish,
           FinishReconcile, RecordRejection, SkipRejection, FailCall, Crash,
           Boot, Quiescent

LEMMA HistoryInit == Init => HistoryInv
<1> SUFFICES ASSUME Init PROVE HistoryInv
    OBVIOUS
<1>1. EntitiesOf(rows) = EmptyEntities
    BY DEF Init, EmptyRows, EntitiesOf, EmptyEntities
<1>2. log = <<>>
    BY DEF Init
<1> QED BY <1>1, <1>2, EmptyHistory DEF HistoryInv

LEMMA LegalHistoryStep ==
    ASSUME DurableInv, StreamInv, StateInv, HistoryInv, [Next]_vars
    PROVE  HistoryInv'
<1>1. CASE UNCHANGED <<log, rows>>
    BY <1>1 DEF HistoryInv
<1>2. CASE phase = "commit" /\ CommitDurably
    <2>1. /\ tx.planned \in Decisions(EntitiesOf(rows), current)
          /\ log' = log \o tx.planned
          /\ EntitiesOf(rows') = Projected(EntitiesOf(rows), tx.planned)
        BY <1>2, CommittedState
    <2>2. /\ current \in Command /\ log \in Seq(Event)
          /\ EntitiesOf(rows) \in Entities
        BY <1>2, CurrentType, EntitiesType DEF DurableInv, TypeOK
    <2>3. LegalHistory(log, EntitiesOf(rows))
        BY DEF HistoryInv
    <2>4. LegalHistory(log \o tx.planned, Projected(EntitiesOf(rows), tx.planned))
        BY <2>1, <2>2, <2>3, DecisionsKeepHistoryLegal
    <2>5. LegalHistory(log', EntitiesOf(rows'))
        BY <2>1, <2>4
    <2> QED BY <2>5 DEF HistoryInv
<1> QED BY <1>1, <1>2, WhoWritesState

THEOREM HistoryInvariant ==
    ASSUME "reconcile" \notin Faults
    PROVE  Spec => [](StreamInv /\ StateInv /\ HistoryInv)
<1>1. Init => StreamInv /\ StateInv /\ HistoryInv
    BY StreamInit, StateInit, HistoryInit
<1>2. StreamInv /\ StateInv /\ HistoryInv /\ DurableInv /\ [Next]_vars
        => StreamInv' /\ StateInv' /\ HistoryInv'
    BY StreamStep, StateStep, LegalHistoryStep
<1> QED BY <1>1, <1>2, DurableInvariant, PTL DEF Spec

\* When a reconcile can always read the log, every stored history is one the
\* domain allows, whatever commits are lost or reported as failed: ids are
\* created once and before they are used, archive and unarchive alternate.
THEOREM StoredHistoryIsLegal ==
    ASSUME "reconcile" \notin Faults
    PROVE  Spec => []HistoryIsLegal
<1>1. HistoryInv => HistoryIsLegal
    BY DEF HistoryInv, LegalHistory, HistoryIsLegal
<1> QED BY <1>1, HistoryInvariant, PTL

\* Then a deleted project also leaves no thread of it behind in the log.
THEOREM DeletionsAreComplete ==
    ASSUME "reconcile" \notin Faults
    PROVE  Spec => []DeletedProjectsAreEmptied
<1>1. HistoryInv => DeletedProjectsAreEmptied
    BY DEF HistoryInv, LegalHistory, DeletedProjectsAreEmptied
<1> QED BY <1>1, HistoryInvariant, PTL

-----------------------------------------------------------------------------
(* Refusals, when the read of a reconcile does not fail.                   *)

\* Phases of a failed call.
Refusing == {"reconcile", "replay", "republish", "reject", "fail"}

LEMMA RefusalInit == Init => RefusalInv
    BY DEF Init, RefusalInv

\* A failed call goes on, and nothing it depends on changes.
LEMMA RefusalKept ==
    ASSUME DurableInv, RefusalInv, UNCHANGED <<receipts, rows, envelope, failure>>,
           \/ UNCHANGED calls
           \/ \E c \in Commands : Dispatch(c),
           phase \in Refusing,
           \/ phase' = phase
           \/ phase # "fail" /\ phase' \in Refusing \ {"fail"}
    PROVE  RefusalInv'
<1>1. current' = current
    BY CurrentKept DEF DurableInv, Refusing
<1> QED BY <1>1 DEF RefusalInv, Refusing

LEMMA RefusalStep ==
    ASSUME "reconcile" \notin Faults, DurableInv, StateInv, RefusalInv, [Next]_vars
    PROVE  RefusalInv'
<1>a. TypeOK
    BY DEF DurableInv
<1> DEFINE Over == phase' \notin Refusing \/ failure' # "invariant"
<1>b. ASSUME Over PROVE RefusalInv'
    BY <1>b DEF RefusalInv, Refusing
<1>1. CASE UNCHANGED vars
    BY <1>1, <1>b, RefusalKept DEF vars, disk, work, Refusing
<1>2. ASSUME NEW c \in Commands, Dispatch(c) PROVE RefusalInv'
    BY <1>2, <1>b, RefusalKept DEF Dispatch, disk, work, Refusing
<1>3. CASE DecideRefuses
    <2>1. ~Permitted(commandReadModel, current)
        BY <1>3, PermittedIsDecided DEF DecideRefuses
    <2>2. EntitiesOf(commandReadModel) = EntitiesOf(rows)
        BY <1>3 DEF DecideRefuses, StateInv
    <2>3. ~Permitted(EntitiesOf(rows), current)
        BY <1>3, <1>a, <2>1, <2>2, CurrentType, DecisionsOnEntities DEF DecideRefuses
    <2>4. UNCHANGED rows /\ current' = current /\ phase' = "reconcile"
        BY <1>3 DEF DecideRefuses, FailWith, disk, current
    <2> QED BY <2>3, <2>4 DEF RefusalInv
<1>4. CASE RecordRejection
    <2>1. /\ phase' = "fail" /\ current' = current
          /\ receipts' = [receipts EXCEPT ![current.id] =
                [status |-> "rejected",
                 sequence |-> commandReadModel.snapshotSequence]]
        BY <1>4 DEF RecordRejection, work, current
    <2>2. current.id \in CommandId /\ receipts \in [CommandId -> Receipt]
        BY <1>4, <1>a, CurrentType DEF RecordRejection, TypeOK
    <2>3. receipts'[current'.id].status = "rejected"
        BY <2>1, <2>2
    <2> QED BY <2>1, <2>3 DEF RefusalInv
<1>5. CASE SkipRejection
    <2>1. /\ phase = "reject" /\ phase' = "fail" /\ current' = current
          /\ UNCHANGED <<receipts, rows, failure>>
        BY <1>5 DEF SkipRejection, disk, work, current
    <2>2. failure = "invariant" => receipts[current.id].status = "none"
        BY <2>1 DEF DurableInv, UndecidedInFlight
    <2> QED BY <2>1, <2>2 DEF RefusalInv
<1>6. CASE ReconcileRead \/ ReconcileNothing \/ Replay \/ AdoptReplay \/ Republish
           \/ FinishReconcile
    BY <1>6, RefusalKept
    DEF ReconcileRead, ReconcileNothing, Replay, AdoptReplay, Republish, PublishNext,
        FinishReconcile, disk, work, Refusing
<1>7. CASE LookupFails \/ RollBack \/ CommitUnacknowledged
    BY <1>7, <1>b DEF LookupFails, RollBack, CommitUnacknowledged, FailWith
<1>8. CASE ReconcileFails
    BY <1>8 DEF ReconcileFails, Fault
<1>9. CASE TakeCommand \/ LookupNew \/ LookupKnown \/ Decide \/ StageEvent
           \/ FinishTransaction \/ Commit \/ Publish \/ Succeed \/ FailCall
           \/ Crash \/ Boot
    BY <1>9, <1>b
    DEF TakeCommand, LookupNew, LookupKnown, Decide, StageEvent, FinishTransaction,
        Commit, Publish, Succeed, FailCall, Reply, Crash, Boot, Refusing
<1>10. CASE Quiescent
    BY <1>1, <1>10 DEF Quiescent
<1> QED
    BY <1>1, <1>2, <1>3, <1>4, <1>5, <1>6, <1>7, <1>8, <1>9, <1>10
    DEF Next, WorkerStep, FaultStep

-----------------------------------------------------------------------------
(* The refinement: Promise is CommandLog on the engine's log, receipts,     *)
(* entities and calls.                                                     *)

\* The domain of CommandLog is the engine's.
LEMMA SameDomain ==
    ASSUME NEW m, NEW c
    PROVE  /\ Promise!Permitted(m, c) <=> Permitted(m, c)
           /\ Promise!Decisions(m, c) = Decisions(m, c)
<1>1. Promise!ActiveThreads(m, c.project) = ActiveThreads(m, c.project)
    BY DEF Promise!ActiveThreads, ActiveThreads, Promise!ThreadKnown, ThreadKnown
<1>2. Promise!Permitted(m, c) <=> Permitted(m, c)
    BY <1>1 DEF Promise!Permitted, Permitted, Promise!ProjectKnown, ProjectKnown,
                Promise!ThreadKnown, ThreadKnown
<1>3. ASSUME NEW S PROVE Promise!Listings(S) = Listings(S)
    <2>1. Promise!Cardinality(S) = Cardinality(S)
        BY DEF Promise!Cardinality, Cardinality
    <2> QED BY <2>1 DEF Promise!Listings, Listings
<1>4. Promise!Listings(ActiveThreads(m, c.project)) = Listings(ActiveThreads(m, c.project))
    BY <1>3
<1>5. Promise!Decisions(m, c) = Decisions(m, c)
    BY <1>1, <1>2, <1>4
    DEF Promise!Decisions, Decisions, Promise!Planned, Planned,
        Promise!SingleEvent, SingleEvent, Promise!CommandType, CommandType
<1> QED BY <1>2, <1>5

LEMMA SameProjection ==
    ASSUME NEW m, NEW s
    PROVE  Promise!Projected(m, s) = Projected(m, s)
    BY DEF Promise!Projected, Projected, Promise!ProjectEvent, ProjectEvent,
           Promise!ProjectKnown, ProjectKnown, Promise!ThreadKnown, ThreadKnown

\* What holds in every state, when the read of a reconcile does not fail.
EngineInv ==
    DurableInv /\ CallsInv /\ StreamInv /\ StateInv /\ RefusalInv

\* The call being processed is one that waits.
LEMMA CurrentWaits ==
    ASSUME TypeOK, CallsInv, phase \notin {"off", "idle"}
    PROVE  envelope \in Promise!Waiting
<1>1. envelope \in DOMAIN calls
    BY CurrentType, QueueType
<1>2. calls[envelope].answer = Pending
    BY DEF CallsInv
<1> QED BY <1>1, <1>2 DEF Promise!Waiting, Pending

LEMMA PromiseInit == Init => Promise!Init
<1> SUFFICES ASSUME Init PROVE Promise!Init
    OBVIOUS
<1>1. EntitiesOf(rows) = Promise!EmptyEntities
    BY DEF Init, EmptyRows, EntitiesOf, EmptyEntities, Promise!EmptyEntities
<1>2. receipts = [id \in CommandId |-> Promise!Undecided]
    BY DEF Init, NoReceipt, Promise!Undecided
<1> QED BY <1>1, <1>2 DEF Init, Promise!Init

\* An answer the verdict allows.
LEMMA RespondStep ==
    ASSUME EngineInv, phase \notin {"off", "idle"}, UNCHANGED <<log, receipts, rows>>,
           NEW status, NEW q, Reply(status, q),
           [status |-> status, sequence |-> q] \in Promise!Answers(current)
    PROVE  Promise!Next
<1>1. envelope \in Promise!Waiting
    BY CurrentWaits DEF EngineInv, DurableInv
<1>2. /\ calls' = [calls EXCEPT ![envelope].answer =
                     [status |-> status, sequence |-> q]]
      /\ EntitiesOf(rows') = EntitiesOf(rows)
    BY DEF Reply
<1>3. Promise!Respond(envelope)
    BY <1>2 DEF Promise!Respond, current
<1> QED BY <1>1, <1>3 DEF Promise!Next

\* A commit, acknowledged or not.
LEMMA AcceptStep ==
    ASSUME EngineInv, phase = "commit", CommitDurably, UNCHANGED calls
    PROVE  Promise!Next
<1>1. envelope \in Promise!Waiting /\ current.id \in CommandId
    BY CurrentWaits, CurrentType DEF EngineInv, DurableInv
<1>2. receipts[current.id] = Promise!Undecided
    <2>1. receipts[current.id].status = "none"
        BY CommitEffect DEF EngineInv
    <2> QED BY <1>1, <2>1 DEF EngineInv, CallsInv, NoReceipt, Promise!Undecided
<1>3. /\ tx.planned \in Decisions(EntitiesOf(rows), current)
      /\ log' = log \o tx.planned
      /\ EntitiesOf(rows') = Projected(EntitiesOf(rows), tx.planned)
    BY CommittedState DEF EngineInv
<1>4. receipts' = [receipts EXCEPT ![current.id] =
                     [status |-> "accepted",
                      sequence |-> Len(log) + Len(tx.planned)]]
    BY DEF CommitDurably
<1>5. /\ tx.planned \in Promise!Decisions(EntitiesOf(rows), current)
      /\ EntitiesOf(rows') = Promise!Projected(EntitiesOf(rows), tx.planned)
    BY <1>3, SameDomain, SameProjection
<1>6. Promise!Accept(envelope)
    BY <1>2, <1>3, <1>4, <1>5 DEF Promise!Accept, current
<1> QED BY <1>1, <1>6 DEF Promise!Next

LEMMA RefuseStep ==
    ASSUME EngineInv, RecordRejection
    PROVE  Promise!Next
<1>1. /\ phase = "reject" /\ failure = "invariant"
      /\ UNCHANGED <<log, rows, calls>>
      /\ receipts' = [receipts EXCEPT ![current.id] =
                        [status |-> "rejected",
                         sequence |-> commandReadModel.snapshotSequence]]
    BY DEF RecordRejection
<1>2. envelope \in Promise!Waiting /\ current.id \in CommandId
    BY <1>1, CurrentWaits, CurrentType DEF EngineInv, DurableInv
<1>3. receipts[current.id] = Promise!Undecided
    <2>1. receipts[current.id].status = "none"
        BY <1>1 DEF EngineInv, DurableInv, UndecidedInFlight
    <2> QED BY <1>2, <2>1 DEF EngineInv, CallsInv, NoReceipt, Promise!Undecided
<1>4. ~Promise!Permitted(EntitiesOf(rows), current)
    BY <1>1, SameDomain DEF EngineInv, RefusalInv
<1>5. commandReadModel.snapshotSequence = Len(log)
    BY <1>1 DEF EngineInv, StreamInv
<1>6. EntitiesOf(rows') = EntitiesOf(rows)
    BY <1>1
<1>7. Promise!Refuse(envelope)
    BY <1>1, <1>3, <1>4, <1>5, <1>6 DEF Promise!Refuse, current
<1> QED BY <1>2, <1>7 DEF Promise!Next

\* The answers the worker gives are allowed.
LEMMA AnswerStep ==
    ASSUME EngineInv, LookupKnown \/ Succeed \/ FailCall
    PROVE  Promise!Next
<1>a. TypeOK
    BY DEF EngineInv, DurableInv
<1>b. /\ phase \notin {"off", "idle"} /\ UNCHANGED <<log, receipts, rows>>
    BY DEF LookupKnown, Succeed, FailCall, disk
<1>c. current.id \in CommandId /\ receipts[current.id] \in Receipt
    BY <1>a, <1>b, CurrentType DEF TypeOK
<1> DEFINE verdict == receipts[current.id]
<1>d. /\ [status |-> "storage", sequence |-> 0] \in Promise!Answers(current)
      /\ verdict.status = "accepted" =>
           [status |-> "accepted", sequence |-> verdict.sequence]
             \in Promise!Answers(current)
      /\ verdict.status = "rejected" =>
           /\ [status |-> "previouslyRejected", sequence |-> 0]
                \in Promise!Answers(current)
           /\ [status |-> "invariant", sequence |-> 0] \in Promise!Answers(current)
      /\ verdict = Promise!Undecided /\ ~Promise!Permitted(EntitiesOf(rows), current) =>
           [status |-> "invariant", sequence |-> 0] \in Promise!Answers(current)
    BY DEF Promise!Answers
<1>1. CASE LookupKnown
    <2>1. CASE verdict.status = "accepted" /\ Reply("accepted", verdict.sequence)
        BY <1>b, <1>d, <2>1, RespondStep
    <2>2. CASE verdict.status = "rejected" /\ Reply("previouslyRejected", 0)
        BY <1>b, <1>d, <2>2, RespondStep
    <2> QED BY <1>1, <2>1, <2>2 DEF LookupKnown
<1>2. CASE Succeed
    <2>1. verdict = [status |-> "accepted", sequence |-> lastToPublish]
        BY <1>2 DEF Succeed, EngineInv, DurableInv, Outcome
    <2>2. [status |-> "accepted", sequence |-> lastToPublish] \in Promise!Answers(current)
        <3> HIDE DEF verdict
        <3>1. verdict.status = "accepted" /\ verdict.sequence = lastToPublish
            BY <2>1
        <3> QED BY <1>d, <3>1
    <2> QED BY <1>2, <1>b, <2>2, RespondStep DEF Succeed
<1>3. CASE FailCall
    <2>1. phase = "fail" /\ Reply(failure, 0) /\ failure \in {"invariant", "storage"}
        BY <1>3, <1>a DEF FailCall, TypeOK, EngineInv, DurableInv, Outcome
    <2>2. CASE failure = "storage"
        BY <1>b, <1>d, <2>1, <2>2, RespondStep
    <2>3. CASE failure = "invariant"
        <3>1. \/ verdict.status = "rejected"
              \/ verdict.status = "none" /\ ~Permitted(EntitiesOf(rows), current)
            BY <2>1, <2>3 DEF EngineInv, RefusalInv
        <3>2. verdict.status = "none" => verdict = Promise!Undecided
            BY <1>c DEF EngineInv, CallsInv, NoReceipt, Promise!Undecided
        <3>3. [status |-> "invariant", sequence |-> 0] \in Promise!Answers(current)
            <4> HIDE DEF verdict
            <4> QED BY <1>d, <3>1, <3>2, SameDomain
        <3> QED BY <1>b, <2>1, <2>3, <3>3, RespondStep
    <2> QED BY <2>1, <2>2, <2>3
<1> QED BY <1>1, <1>2, <1>3

\* Every other step is invisible.
LEMMA WhoShows ==
    ASSUME [Next]_vars
    PROVE  \/ UNCHANGED <<log, receipts, rows, calls>>
           \/ \E c \in Commands : Dispatch(c)
           \/ LookupKnown \/ Succeed \/ FailCall
           \/ phase = "commit" /\ CommitDurably /\ UNCHANGED calls
           \/ RecordRejection
           \/ Crash
    BY DEF Next, vars, disk, WorkerStep, FaultStep, TakeCommand,
           LookupNew, LookupFails, Decide, DecideRefuses,
           StageEvent, FinishTransaction, Commit, RollBack,
           CommitUnacknowledged, Publish, ReconcileRead,
           ReconcileNothing, ReconcileFails, Replay, AdoptReplay, Republish,
           FinishReconcile, SkipRejection, Boot, Quiescent

LEMMA PromiseStep ==
    ASSUME EngineInv, [Next]_vars
    PROVE  [Promise!Next]_(Promise!vars)
<1>1. CASE UNCHANGED <<log, receipts, rows, calls>>
    BY <1>1 DEF Promise!vars
<1>2. ASSUME NEW c \in Commands, Dispatch(c) PROVE Promise!Next
    <2>1. /\ Len(calls) < MaxCalls
          /\ calls' = Append(calls, [command |-> c, answer |-> Pending])
          /\ UNCHANGED <<log, receipts, rows>>
        BY <1>2 DEF Dispatch, disk
    <2>2. EntitiesOf(rows') = EntitiesOf(rows) /\ Pending = Promise!Pending
        BY <2>1 DEF Pending, Promise!Pending
    <2>3. Promise!Submit(c)
        BY <2>1, <2>2 DEF Promise!Submit
    <2> QED BY <2>3 DEF Promise!Next
<1>3. CASE Crash
    <2>1. /\ calls' = [i \in DOMAIN calls |->
                   IF calls[i].answer.status = "pending"
                   THEN [calls[i] EXCEPT !.answer.status = "lost"]
                   ELSE calls[i]]
          /\ UNCHANGED <<log, receipts, rows>>
        BY <1>3 DEF Crash, disk
    <2>2. EntitiesOf(rows') = EntitiesOf(rows)
        BY <2>1
    <2>3. \A i \in DOMAIN calls :
             i \in Promise!Waiting <=> calls[i].answer.status = "pending"
        BY DEF Promise!Waiting
    <2>4. calls' = [k \in DOMAIN calls |->
                      IF k \in Promise!Waiting
                      THEN [calls[k] EXCEPT !.answer.status = "lost"]
                      ELSE calls[k]]
        BY <2>1, <2>3
    <2>5. Promise!Lose
        BY <2>1, <2>2, <2>4 DEF Promise!Lose
    <2> QED BY <2>5 DEF Promise!Next
<1>4. CASE LookupKnown \/ Succeed \/ FailCall
    BY <1>4, AnswerStep
<1>5. CASE phase = "commit" /\ CommitDurably /\ UNCHANGED calls
    BY <1>5, AcceptStep
<1>6. CASE RecordRejection
    BY <1>6, RefuseStep
<1> QED BY <1>1, <1>2, <1>3, <1>4, <1>5, <1>6, WhoShows

\* When a reconcile can always read the log, the engine keeps the promise of
\* CommandLog: queue, cached read model, transactions, lost commits, retries
\* and restarts are invisible, and every command takes effect atomically, at
\* most once, on the state of the whole log.
THEOREM EngineImplementsCommandLog ==
    ASSUME "reconcile" \notin Faults
    PROVE  Spec => ImplementsCommandLog
<1>1. Init => StreamInv /\ StateInv /\ RefusalInv
    BY StreamInit, StateInit, RefusalInit
<1>2. StreamInv /\ StateInv /\ RefusalInv /\ DurableInv /\ [Next]_vars
        => StreamInv' /\ StateInv' /\ RefusalInv'
    BY StreamStep, StateStep, RefusalStep
<1>3. Spec => []EngineInv
    <2>1. Spec => [](StreamInv /\ StateInv /\ RefusalInv)
        BY <1>1, <1>2, DurableInvariant, PTL DEF Spec
    <2> QED BY <2>1, DurableInvariant, CallsInvariant, PTL DEF EngineInv
<1>4. EngineInv /\ [Next]_vars => [Promise!Next]_(Promise!vars)
    BY PromiseStep
<1> QED BY <1>3, <1>4, PromiseInit, PTL DEF Spec, ImplementsCommandLog, Promise!Spec
=============================================================================
