---------------------- MODULE ProjectionBootstrap_proofs ----------------------
(***************************************************************************)
(* Theorems of ProjectionBootstrap, for any number of turns, reverts,      *)
(* restarts and transactions that fail, any read limit and any builds.     *)
(***************************************************************************)
EXTENDS ProjectionBootstrap, FiniteSetTheorems, SequenceTheorems,
        WellFoundedInduction, TLAPS

-----------------------------------------------------------------------------
(* What each projector leaves alone.                                       *)

\* tb, but for its rows of messages.
WithMessages(tb, m) ==
    [messages |-> m, plans |-> tb.plans, turns |-> tb.turns,
     pending |-> tb.pending, thread |-> tb.thread]

LEMMA MessagesProjection ==
    ASSUME NEW tb, IsTables(tb), NEW e
    PROVE  \E m \in [Message -> Nat] : MessagesAfter(tb, e) = WithMessages(tb, m)
<1> USE DEF WithMessages
<1>1. /\ tb.messages \in [Message -> Nat]
      /\ tb = WithMessages(tb, tb.messages)
    BY DEF IsTables
<1>2. CASE e.type = "user-message"
    <2> DEFINE m == [tb.messages EXCEPT ![<<"user", e.turn>>] = 1]
    <2>1. m \in [Message -> Nat]
        BY <1>1
    <2>2. MessagesAfter(tb, e) = [tb EXCEPT !.messages = m]
        BY <1>2 DEF MessagesAfter
    <2> HIDE DEF m
    <2>3. [tb EXCEPT !.messages = m] = WithMessages(tb, m)
        BY <1>1
    <2> QED BY <2>1, <2>2, <2>3
<1>3. CASE e.type = "assistant-message"
    <2> DEFINE m == [tb.messages EXCEPT ![<<"assistant", e.turn>>] = @ + 1]
    <2>1. m \in [Message -> Nat]
        <3>1. \A x \in Message : m[x] = IF x = <<"assistant", e.turn>>
                                        THEN tb.messages[x] + 1 ELSE tb.messages[x]
            BY <1>1
        <3>2. DOMAIN m = Message /\ m = [x \in Message |-> m[x]]
            BY <1>1
        <3> HIDE DEF m
        <3> QED BY <1>1, <3>1, <3>2
    <2>2. MessagesAfter(tb, e) = [tb EXCEPT !.messages = m]
        BY <1>3 DEF MessagesAfter
    <2> HIDE DEF m
    <2>3. [tb EXCEPT !.messages = m] = WithMessages(tb, m)
        BY <1>1
    <2> QED BY <2>1, <2>2, <2>3
<1>4. CASE e.type = "reverted"
    <2> DEFINE m == [x \in Message |-> IF x \in KeptMessages(tb, e.count)
                                       THEN tb.messages[x] ELSE 0]
    <2>1. m \in [Message -> Nat]
        BY <1>1
    <2>2. MessagesAfter(tb, e) = [tb EXCEPT !.messages = m]
        BY <1>4 DEF MessagesAfter
    <2> HIDE DEF m
    <2>3. [tb EXCEPT !.messages = m] = WithMessages(tb, m)
        BY <1>1
    <2> QED BY <2>1, <2>2, <2>3
<1>5. CASE e.type \notin {"user-message", "assistant-message", "reverted"}
    <2>1. MessagesAfter(tb, e) = tb
        BY <1>5 DEF MessagesAfter
    <2> QED BY <1>1, <2>1
<1> QED BY <1>2, <1>3, <1>4, <1>5

LEMMA PlansProjection ==
    ASSUME NEW tb, IsTables(tb), NEW e
    PROVE  \E p : PlansAfter(tb, e) =
                     [messages |-> tb.messages, plans |-> p, turns |-> tb.turns,
                      pending |-> tb.pending, thread |-> tb.thread]
<1>1. tb = [messages |-> tb.messages, plans |-> tb.plans, turns |-> tb.turns,
            pending |-> tb.pending, thread |-> tb.thread]
    BY DEF IsTables
<1>2. ASSUME NEW p
      PROVE  [tb EXCEPT !.plans = p] =
                [messages |-> tb.messages, plans |-> p, turns |-> tb.turns,
                 pending |-> tb.pending, thread |-> tb.thread]
    BY <1>1
<1>3. CASE e.type = "plan-upserted"
    BY <1>2, <1>3 DEF PlansAfter
<1>4. CASE e.type = "reverted"
    BY <1>2, <1>4 DEF PlansAfter
<1>5. CASE e.type \notin {"plan-upserted", "reverted"}
    <2>1. PlansAfter(tb, e) = tb
        BY <1>5 DEF PlansAfter
    <2> QED BY <1>1, <2>1
<1> QED BY <1>3, <1>4, <1>5

\* The rows of turns, and the message that waits, after an event.
TurnRowsAfter(turns, pending, e) ==
    CASE e.type = "session-set" /\ e.turn # 0 ->
           [turns EXCEPT ![e.turn] = Running(@, pending)]
      [] e.type = "assistant-message" -> [turns EXCEPT ![e.turn].known = TRUE]
      [] e.type = "turn-diff-completed" ->
           [t \in Turns |->
              IF t = e.turn
              THEN [turns[t] EXCEPT !.known = TRUE, !.count = e.count]
              ELSE [turns[t] EXCEPT !.count = IF @ = e.count THEN 0 ELSE @]]
      [] e.type = "reverted" ->
           [t \in Turns |-> IF turns[t].count \in 1..e.count
                            THEN turns[t] ELSE NoTurn]
      [] OTHER -> turns

PendingAfter(pending, e) ==
    CASE e.type = "turn-start-requested" -> e.turn
      [] e.type = "session-set" /\ e.turn # 0 -> 0
      [] e.type = "reverted" -> 0
      [] OTHER -> pending

LEMMA TurnsProjection ==
    ASSUME NEW tb, IsTables(tb), NEW e
    PROVE  TurnsAfter(tb, e) =
              [messages |-> tb.messages, plans |-> tb.plans,
               turns |-> TurnRowsAfter(tb.turns, tb.pending, e),
               pending |-> PendingAfter(tb.pending, e), thread |-> tb.thread]
<1>1. tb = [messages |-> tb.messages, plans |-> tb.plans, turns |-> tb.turns,
            pending |-> tb.pending, thread |-> tb.thread]
    BY DEF IsTables
<1> DEFINE With(u, q) == [messages |-> tb.messages, plans |-> tb.plans, turns |-> u,
                         pending |-> q, thread |-> tb.thread]
<1>2. ASSUME NEW u, NEW q
      PROVE  /\ [tb EXCEPT !.turns = u, !.pending = q] = With(u, q)
             /\ [tb EXCEPT !.turns = u] = With(u, tb.pending)
             /\ [tb EXCEPT !.pending = q] = With(tb.turns, q)
    <2>1. [tb EXCEPT !.turns = u] = With(u, tb.pending)
        BY <1>1
    <2>2. [tb EXCEPT !.pending = q] = With(tb.turns, q)
        BY <1>1
    <2>3. [tb EXCEPT !.turns = u, !.pending = q] =
             [[tb EXCEPT !.turns = u] EXCEPT !.pending = q]
        OBVIOUS
    <2>4. [With(u, tb.pending) EXCEPT !.pending = q] = With(u, q)
        OBVIOUS
    <2> QED BY <2>1, <2>2, <2>3, <2>4
<1> DEFINE u == TurnRowsAfter(tb.turns, tb.pending, e)
           q == PendingAfter(tb.pending, e)
<1> SUFFICES TurnsAfter(tb, e) = With(u, q)
    OBVIOUS
<1>0. tb = With(tb.turns, tb.pending)
    BY <1>1
<1> HIDE DEF With, u, q
<1>3. CASE e.type = "turn-start-requested"
    <2>1. u = tb.turns /\ q = e.turn
        BY <1>3 DEF TurnRowsAfter, PendingAfter, u, q
    <2>2. TurnsAfter(tb, e) = [tb EXCEPT !.pending = e.turn]
        BY <1>3 DEF TurnsAfter
    <2> QED BY <1>2, <2>1, <2>2
<1>4. CASE e.type = "session-set" /\ e.turn # 0
    <2>1. u = [tb.turns EXCEPT ![e.turn] = Running(@, tb.pending)] /\ q = 0
        BY <1>4 DEF TurnRowsAfter, PendingAfter, u, q
    <2>2. TurnsAfter(tb, e) =
            [tb EXCEPT !.turns = [tb.turns EXCEPT ![e.turn] = Running(@, tb.pending)],
                       !.pending = 0]
        BY <1>4 DEF TurnsAfter
    <2>3. TurnsAfter(tb, e) = [tb EXCEPT !.turns = u, !.pending = 0]
        BY <2>1, <2>2
    <2> QED BY <1>2, <2>1, <2>3
<1>5. CASE e.type = "assistant-message"
    <2>1. u = [tb.turns EXCEPT ![e.turn].known = TRUE] /\ q = tb.pending
        BY <1>5 DEF TurnRowsAfter, PendingAfter, u, q
    <2>2. TurnsAfter(tb, e) = [tb EXCEPT !.turns = u]
        BY <1>5, <2>1 DEF TurnsAfter
    <2> QED BY <1>2, <2>1, <2>2
<1>6. CASE e.type = "turn-diff-completed"
    <2>1. q = tb.pending
        BY <1>6 DEF PendingAfter, q
    <2>2. TurnsAfter(tb, e) = [tb EXCEPT !.turns = u]
        BY <1>6 DEF TurnsAfter, TurnRowsAfter, u
    <2> QED BY <1>2, <2>1, <2>2
<1>7. CASE e.type = "reverted"
    <2>1. q = 0
        BY <1>7 DEF PendingAfter, q
    <2>2. \A t \in Turns : t \in KeptTurns(tb, e.count) <=> tb.turns[t].count \in 1..e.count
        BY DEF KeptTurns
    <2>3. u = [t \in Turns |-> IF t \in KeptTurns(tb, e.count)
                               THEN tb.turns[t] ELSE NoTurn]
        BY <1>7, <2>2 DEF TurnRowsAfter, u
    <2>4. TurnsAfter(tb, e) = [tb EXCEPT !.turns = u, !.pending = 0]
        BY <1>7, <2>3 DEF TurnsAfter
    <2> QED BY <1>2, <2>1, <2>4
<1>8. CASE /\ e.type \notin {"turn-start-requested", "assistant-message",
                             "turn-diff-completed", "reverted"}
           /\ ~(e.type = "session-set" /\ e.turn # 0)
    <2>1. u = tb.turns /\ q = tb.pending
        BY <1>8 DEF TurnRowsAfter, PendingAfter, u, q
    <2>2. TurnsAfter(tb, e) = tb
        BY <1>8 DEF TurnsAfter
    <2> QED BY <1>0, <2>1, <2>2
<1> QED BY <1>3, <1>4, <1>5, <1>6, <1>7, <1>8

-----------------------------------------------------------------------------
(* What each projector reads.                                              *)

UsersToKeep(users, ofTurns, count) ==
    LET ofKept == ofTurns \cap users
        others == users \ ofKept
        missing == IF count > Cardinality(ofKept)
                   THEN count - Cardinality(ofKept) ELSE 0
    IN ofKept \cup {k \in others :
                      Cardinality({j \in others : j < k}) < missing}

\* Which messages a revert keeps depends on the messages and the turns.
LEMMA KeptAgree ==
    ASSUME NEW tb, NEW lv, tb.messages = lv.messages, tb.turns = lv.turns, NEW count
    PROVE  /\ KeptTurns(tb, count) = KeptTurns(lv, count)
           /\ KeptMessages(tb, count) = KeptMessages(lv, count)
<1>1. ASSUME NEW x
      PROVE  KeptUsers(x, count) =
                UsersToKeep(Users(x), {x.turns[t].message : t \in KeptTurns(x, count)}, count)
    BY DEF KeptUsers, UsersToKeep
<1>2. KeptTurns(tb, count) = KeptTurns(lv, count) /\ Users(tb) = Users(lv)
    BY DEF KeptTurns, Users
<1>3. {tb.turns[t].message : t \in KeptTurns(tb, count)}
        = {lv.turns[t].message : t \in KeptTurns(lv, count)}
    BY <1>2
<1>4. KeptUsers(tb, count) = KeptUsers(lv, count)
    BY <1>1, <1>2, <1>3
<1> QED BY <1>2, <1>4 DEF KeptMessages

LEMMA MessagesAgree ==
    ASSUME NEW tb, IsTables(tb), NEW lv, IsTables(lv), NEW e,
           tb.messages = lv.messages, e.type = "reverted" => tb.turns = lv.turns
    PROVE  MessagesAfter(tb, e).messages = MessagesAfter(lv, e).messages
<1>1. ASSUME NEW x, IsTables(x), NEW m PROVE [x EXCEPT !.messages = m].messages = m
    <2>1. "messages" \in DOMAIN x
        BY <1>1 DEF IsTables
    <2> QED BY <2>1
<1>2. CASE e.type = "user-message"
    <2> DEFINE Then(m) == [m EXCEPT ![<<"user", e.turn>>] = 1]
    <2>1. ASSUME NEW x, IsTables(x)
          PROVE  MessagesAfter(x, e).messages = Then(x.messages)
        <3>1. MessagesAfter(x, e) =
                [x EXCEPT !.messages = [x.messages EXCEPT ![<<"user", e.turn>>] = 1]]
            BY <1>2 DEF MessagesAfter
        <3> QED BY <1>1, <2>1, <3>1
    <2> HIDE DEF Then
    <2> QED BY <2>1
<1>3. CASE e.type = "assistant-message"
    <2> DEFINE Then(m) == [m EXCEPT ![<<"assistant", e.turn>>] = @ + 1]
    <2>1. ASSUME NEW x, IsTables(x)
          PROVE  MessagesAfter(x, e).messages = Then(x.messages)
        <3>1. MessagesAfter(x, e) =
                [x EXCEPT !.messages = [x.messages EXCEPT ![<<"assistant", e.turn>>] = @ + 1]]
            BY <1>3 DEF MessagesAfter
        <3> QED BY <1>1, <2>1, <3>1
    <2> HIDE DEF Then
    <2> QED BY <2>1
<1>4. CASE e.type = "reverted"
    <2> DEFINE Then(m, kept) == [y \in Message |-> IF y \in kept THEN m[y] ELSE 0]
    <2>1. ASSUME NEW x, IsTables(x)
          PROVE  MessagesAfter(x, e).messages =
                    Then(x.messages, KeptMessages(x, e.count))
        <3>1. MessagesAfter(x, e) =
                [x EXCEPT !.messages =
                    [y \in Message |-> IF y \in KeptMessages(x, e.count)
                                       THEN x.messages[y] ELSE 0]]
            BY <1>4 DEF MessagesAfter
        <3> QED BY <1>1, <2>1, <3>1
    <2>2. KeptMessages(tb, e.count) = KeptMessages(lv, e.count)
        BY <1>4, KeptAgree
    <2> HIDE DEF Then
    <2> QED BY <2>1, <2>2
<1>5. CASE e.type \notin {"user-message", "assistant-message", "reverted"}
    <2>1. MessagesAfter(tb, e) = tb /\ MessagesAfter(lv, e) = lv
        BY <1>5 DEF MessagesAfter
    <2> QED BY <2>1
<1> QED BY <1>2, <1>3, <1>4, <1>5

LEMMA PlansAgree ==
    ASSUME NEW tb, IsTables(tb), NEW lv, IsTables(lv), NEW e,
           tb.plans = lv.plans, e.type = "reverted" => tb.turns = lv.turns
    PROVE  PlansAfter(tb, e).plans = PlansAfter(lv, e).plans
<1>1. ASSUME NEW x, IsTables(x), NEW p PROVE [x EXCEPT !.plans = p].plans = p
    <2>1. "plans" \in DOMAIN x
        BY <1>1 DEF IsTables
    <2> QED BY <2>1
<1>2. CASE e.type = "plan-upserted"
    <2>1. ASSUME NEW x, IsTables(x)
          PROVE  PlansAfter(x, e).plans = x.plans \cup {e.turn}
        <3>1. PlansAfter(x, e) = [x EXCEPT !.plans = x.plans \cup {e.turn}]
            BY <1>2 DEF PlansAfter
        <3> QED BY <1>1, <2>1, <3>1
    <2> QED BY <2>1
<1>3. CASE e.type = "reverted"
    <2>1. ASSUME NEW x, IsTables(x)
          PROVE  PlansAfter(x, e).plans = x.plans \cap KeptTurns(x, e.count)
        <3>1. PlansAfter(x, e) = [x EXCEPT !.plans = x.plans \cap KeptTurns(x, e.count)]
            BY <1>3 DEF PlansAfter
        <3> QED BY <1>1, <2>1, <3>1
    <2>2. KeptTurns(tb, e.count) = KeptTurns(lv, e.count)
        BY <1>3 DEF KeptTurns
    <2> QED BY <2>1, <2>2
<1>4. CASE e.type \notin {"plan-upserted", "reverted"}
    <2>1. PlansAfter(tb, e) = tb /\ PlansAfter(lv, e) = lv
        BY <1>4 DEF PlansAfter
    <2> QED BY <2>1
<1> QED BY <1>2, <1>3, <1>4

\* The turn the thread's row names after an event, from the turns of then.
LatestAfter(turns, latest, e) ==
    CASE e.type \in {"session-set", "turn-diff-completed"} -> e.turn
      [] e.type = "reverted" ->
           LET kept == {t \in Turns : turns[t].count \in 1..e.count}
           IN IF kept = {} THEN 0
              ELSE CHOOSE t \in kept : \A u \in kept : turns[u].count <= turns[t].count
      [] OTHER -> latest

LEMMA RefreshedIs ==
    ASSUME NEW tb, IsTables(tb), NEW latest
    PROVE  /\ Refreshed(tb, latest) =
                [messages |-> tb.messages, plans |-> tb.plans, turns |-> tb.turns,
                 pending |-> tb.pending,
                 thread |-> [latestTurn |-> latest,
                             latestUserMessage |-> Max(Users(tb) \cup {0}),
                             hasPlan |-> tb.plans # {}]]
           /\ SummedUp(Refreshed(tb, latest))
<1>1. tb = [messages |-> tb.messages, plans |-> tb.plans, turns |-> tb.turns,
            pending |-> tb.pending, thread |-> tb.thread]
    BY DEF IsTables
<1> DEFINE most == Max(Users(tb) \cup {0})
           h == [latestTurn |-> latest, latestUserMessage |-> most,
                 hasPlan |-> tb.plans # {}]
           r == [messages |-> tb.messages, plans |-> tb.plans, turns |-> tb.turns,
                 pending |-> tb.pending, thread |-> h]
<1>2. Refreshed(tb, latest) = [tb EXCEPT !.thread = h]
    BY DEF Refreshed
<1>3. h.latestUserMessage = most /\ h.hasPlan = (tb.plans # {})
    OBVIOUS
<1>4. Refreshed(tb, latest) = r
    <2> HIDE DEF h
    <2> QED BY <1>1, <1>2
<1>5. r.thread = h /\ r.messages = tb.messages /\ r.plans = tb.plans
    OBVIOUS
<1>6. Users(r) = Users(tb)
    BY <1>5 DEF Users
<1> HIDE DEF h, r
<1>7. SummedUp(r)
    BY <1>3, <1>5, <1>6 DEF SummedUp
<1> QED BY <1>4, <1>7 DEF h, r

LEMMA ThreadsProjection ==
    ASSUME NEW tb, IsTables(tb), NEW e
    PROVE  /\ e.type = "turn-start-requested" => ThreadsAfter(tb, e) = tb
           /\ e.type # "turn-start-requested" =>
                ThreadsAfter(tb, e) =
                    Refreshed(tb, LatestAfter(tb.turns, tb.thread.latestTurn, e))
<1>1. CASE e.type = "turn-start-requested"
    BY <1>1 DEF ThreadsAfter
<1>2. CASE e.type \in {"session-set", "turn-diff-completed"}
    <2>1. LatestAfter(tb.turns, tb.thread.latestTurn, e) = e.turn
        BY <1>2 DEF LatestAfter
    <2>2. ThreadsAfter(tb, e) = Refreshed(tb, e.turn)
        BY <1>2 DEF ThreadsAfter
    <2> QED BY <1>2, <2>1, <2>2
<1>3. CASE e.type = "reverted"
    <2> DEFINE kept == KeptTurns(tb, e.count)
               latest == IF kept = {} THEN 0
                         ELSE CHOOSE t \in kept :
                                \A u \in kept : tb.turns[u].count <= tb.turns[t].count
    <2>1. ThreadsAfter(tb, e) = Refreshed(tb, latest)
        BY <1>3 DEF ThreadsAfter
    <2>2. kept = {t \in Turns : tb.turns[t].count \in 1..e.count}
        BY DEF KeptTurns
    <2>3. LatestAfter(tb.turns, tb.thread.latestTurn, e) = latest
        <3> HIDE DEF kept
        <3> QED BY <1>3, <2>2 DEF LatestAfter
    <2> HIDE DEF latest
    <2> QED BY <1>3, <2>1, <2>3
<1>4. CASE e.type \notin {"turn-start-requested", "session-set",
                          "turn-diff-completed", "reverted"}
    <2>1. LatestAfter(tb.turns, tb.thread.latestTurn, e) = tb.thread.latestTurn
        BY <1>4 DEF LatestAfter
    <2>2. ThreadsAfter(tb, e) = Refreshed(tb, tb.thread.latestTurn)
        BY <1>4 DEF ThreadsAfter
    <2> QED BY <2>1, <2>2, <1>4
<1> QED BY <1>1, <1>2, <1>3, <1>4

-----------------------------------------------------------------------------
(* One projector, and the projectors of a build.                           *)

\* Every projector writes its own rows, and leaves the others'.
LEMMA ApplyKeeps ==
    ASSUME NEW tb, IsTables(tb), NEW e, NEW p \in Projectors
    PROVE  /\ IsTables(Apply(p, e, tb))
           /\ p # "messages" => Apply(p, e, tb).messages = tb.messages
           /\ p # "plans" => Apply(p, e, tb).plans = tb.plans
           /\ p # "turns" => /\ Apply(p, e, tb).turns = tb.turns
                             /\ Apply(p, e, tb).pending = tb.pending
           /\ p # "threads" => Apply(p, e, tb).thread = tb.thread
<1>1. /\ tb.messages \in [Message -> Nat]
      /\ tb.thread = [latestTurn |-> tb.thread.latestTurn,
                      latestUserMessage |-> tb.thread.latestUserMessage,
                      hasPlan |-> tb.thread.hasPlan]
      /\ tb = [messages |-> tb.messages, plans |-> tb.plans, turns |-> tb.turns,
               pending |-> tb.pending, thread |-> tb.thread]
    BY DEF IsTables
<1>2. CASE p = "messages"
    <2>1. Apply(p, e, tb) = MessagesAfter(tb, e)
        BY <1>2 DEF Apply
    <2>2. PICK m \in [Message -> Nat] : MessagesAfter(tb, e) = WithMessages(tb, m)
        BY MessagesProjection
    <2> QED BY <1>1, <1>2, <2>1, <2>2 DEF WithMessages, IsTables
<1>3. CASE p = "plans"
    <2>1. Apply(p, e, tb) = PlansAfter(tb, e)
        BY <1>3 DEF Apply
    <2>2. PICK ps : PlansAfter(tb, e) =
                       [messages |-> tb.messages, plans |-> ps, turns |-> tb.turns,
                        pending |-> tb.pending, thread |-> tb.thread]
        BY PlansProjection
    <2> QED BY <1>1, <1>3, <2>1, <2>2 DEF IsTables
<1>4. CASE p = "turns"
    <2>1. Apply(p, e, tb) = TurnsAfter(tb, e)
        BY <1>4 DEF Apply
    <2> DEFINE u == TurnRowsAfter(tb.turns, tb.pending, e)
               q == PendingAfter(tb.pending, e)
    <2>2. TurnsAfter(tb, e) =
              [messages |-> tb.messages, plans |-> tb.plans, turns |-> u,
               pending |-> q, thread |-> tb.thread]
        BY TurnsProjection
    <2> HIDE DEF u, q
    <2> QED BY <1>1, <1>4, <2>1, <2>2 DEF IsTables
<1>5. CASE p = "threads"
    <2>1. Apply(p, e, tb) = ThreadsAfter(tb, e)
        BY <1>5 DEF Apply
    <2>2. CASE e.type = "turn-start-requested"
        BY <1>5, <2>1, <2>2, ThreadsProjection
    <2>3. CASE e.type # "turn-start-requested"
        <3> DEFINE latest == LatestAfter(tb.turns, tb.thread.latestTurn, e)
                   most == Max(Users(tb) \cup {0})
        <3>1. ThreadsAfter(tb, e) = Refreshed(tb, latest)
            BY <2>3, ThreadsProjection
        <3>2. Refreshed(tb, latest) =
                [messages |-> tb.messages, plans |-> tb.plans, turns |-> tb.turns,
                 pending |-> tb.pending,
                 thread |-> [latestTurn |-> latest, latestUserMessage |-> most,
                             hasPlan |-> tb.plans # {}]]
            BY RefreshedIs
        <3> HIDE DEF latest, most
        <3> QED BY <1>1, <1>5, <2>1, <3>1, <3>2 DEF IsTables
    <2> QED BY <2>2, <2>3
<1> QED BY <1>2, <1>3, <1>4, <1>5 DEF Projectors

\* A build projects messages, plans and turns from the rows as they were, and
\* the thread's row from what has become of them.
LEMMA ProjectIs ==
    ASSUME NEW tb, IsTables(tb), NEW e, NEW build, build \subseteq Projectors,
           NEW r, r = Project(build, e, tb)
    PROVE  /\ IsTables(r)
           /\ r.messages = IF "messages" \in build
                           THEN MessagesAfter(tb, e).messages ELSE tb.messages
           /\ r.plans = IF "plans" \in build
                        THEN PlansAfter(tb, e).plans ELSE tb.plans
           /\ r.turns = IF "turns" \in build
                        THEN TurnRowsAfter(tb.turns, tb.pending, e) ELSE tb.turns
           /\ r.pending = IF "turns" \in build
                          THEN PendingAfter(tb.pending, e) ELSE tb.pending
           /\ "threads" \notin build \/ e.type = "turn-start-requested" =>
                r.thread = tb.thread
           /\ "threads" \in build /\ e.type # "turn-start-requested" =>
                /\ r.thread.latestTurn = LatestAfter(r.turns, tb.thread.latestTurn, e)
                /\ SummedUp(r)
<1> DEFINE first == ApplyIn(build, "messages", e, tb)
           second == ApplyIn(build, "plans", e, first)
           third == ApplyIn(build, "turns", e, second)
           fourth == ApplyIn(build, "threads", e, third)
<1>1. r = fourth
    BY DEF Project, Order
<1>2. "messages" \in Projectors /\ "plans" \in Projectors
      /\ "turns" \in Projectors /\ "threads" \in Projectors
    BY DEF Projectors
<1>3. /\ IsTables(first)
      /\ first.messages = IF "messages" \in build
                          THEN MessagesAfter(tb, e).messages ELSE tb.messages
      /\ first.plans = tb.plans /\ first.turns = tb.turns
      /\ first.pending = tb.pending /\ first.thread = tb.thread
    <2>1. CASE "messages" \in build
        <3>1. first = Apply("messages", e, tb) /\ first = MessagesAfter(tb, e)
            BY <2>1 DEF ApplyIn, Apply
        <3> HIDE DEF first
        <3> QED BY <1>2, <2>1, <3>1, ApplyKeeps
    <2>2. CASE "messages" \notin build
        BY <2>2 DEF ApplyIn
    <2> QED BY <2>1, <2>2
<1> HIDE DEF first
<1>4. /\ IsTables(second)
      /\ second.plans = IF "plans" \in build
                        THEN PlansAfter(tb, e).plans ELSE tb.plans
      /\ second.messages = first.messages /\ second.turns = tb.turns
      /\ second.pending = tb.pending /\ second.thread = tb.thread
    <2>1. CASE "plans" \in build
        <3>1. second = Apply("plans", e, first) /\ second = PlansAfter(first, e)
            BY <2>1 DEF ApplyIn, Apply
        <3> HIDE DEF second
        <3>2. first.plans = tb.plans /\ first.turns = tb.turns /\ IsTables(first)
            BY <1>3
        <3>3. PlansAfter(first, e).plans = PlansAfter(tb, e).plans
            BY <3>2, PlansAgree
        <3> QED BY <1>2, <1>3, <2>1, <3>1, <3>3, ApplyKeeps
    <2>2. CASE "plans" \notin build
        BY <1>3, <2>2 DEF ApplyIn
    <2> QED BY <2>1, <2>2
<1> HIDE DEF second
<1>5. /\ IsTables(third)
      /\ third.turns = IF "turns" \in build
                       THEN TurnRowsAfter(tb.turns, tb.pending, e) ELSE tb.turns
      /\ third.pending = IF "turns" \in build
                         THEN PendingAfter(tb.pending, e) ELSE tb.pending
      /\ third.messages = second.messages /\ third.plans = second.plans
      /\ third.thread = tb.thread
    <2>1. CASE "turns" \in build
        <3>1. third = Apply("turns", e, second) /\ third = TurnsAfter(second, e)
            BY <2>1 DEF ApplyIn, Apply
        <3> HIDE DEF third
        <3> DEFINE u == TurnRowsAfter(second.turns, second.pending, e)
                   q == PendingAfter(second.pending, e)
        <3>2. third = [messages |-> second.messages, plans |-> second.plans,
                       turns |-> u, pending |-> q, thread |-> second.thread]
            BY <1>4, <3>1, TurnsProjection
        <3>3. u = TurnRowsAfter(tb.turns, tb.pending, e) /\ q = PendingAfter(tb.pending, e)
            BY <1>4
        <3> HIDE DEF u, q
        <3>4. third.turns = u /\ third.pending = q
            BY <3>2
        <3> QED BY <1>2, <1>4, <2>1, <3>1, <3>3, <3>4, ApplyKeeps
    <2>2. CASE "turns" \notin build
        BY <1>4, <2>2 DEF ApplyIn
    <2> QED BY <2>1, <2>2
<1> HIDE DEF third
<1>6. /\ IsTables(fourth)
      /\ fourth.messages = third.messages /\ fourth.plans = third.plans
      /\ fourth.turns = third.turns /\ fourth.pending = third.pending
      /\ "threads" \notin build \/ e.type = "turn-start-requested" =>
            fourth.thread = tb.thread
      /\ "threads" \in build /\ e.type # "turn-start-requested" =>
            /\ fourth.thread.latestTurn = LatestAfter(fourth.turns, tb.thread.latestTurn, e)
            /\ SummedUp(fourth)
    <2>1. CASE "threads" \in build
        <3>1. fourth = Apply("threads", e, third) /\ fourth = ThreadsAfter(third, e)
            BY <2>1 DEF ApplyIn, Apply
        <3> HIDE DEF fourth
        <3>2. /\ IsTables(fourth)
              /\ fourth.messages = third.messages /\ fourth.plans = third.plans
              /\ fourth.turns = third.turns /\ fourth.pending = third.pending
            BY <1>2, <1>5, <3>1, ApplyKeeps
        <3>3. e.type = "turn-start-requested" => fourth.thread = tb.thread
            BY <1>5, <3>1, ThreadsProjection
        <3>4. e.type # "turn-start-requested" =>
                /\ fourth.thread.latestTurn =
                      LatestAfter(fourth.turns, tb.thread.latestTurn, e)
                /\ SummedUp(fourth)
            <4> DEFINE latest == LatestAfter(third.turns, tb.thread.latestTurn, e)
                       most == Max(Users(third) \cup {0})
            <4> SUFFICES ASSUME e.type # "turn-start-requested"
                         PROVE  fourth.thread.latestTurn = latest /\ SummedUp(fourth)
                BY <3>2
            <4>1. fourth = Refreshed(third, latest)
                BY <1>5, <3>1, ThreadsProjection
            <4>2. /\ SummedUp(Refreshed(third, latest))
                  /\ Refreshed(third, latest) =
                       [messages |-> third.messages, plans |-> third.plans,
                        turns |-> third.turns, pending |-> third.pending,
                        thread |-> [latestTurn |-> latest, latestUserMessage |-> most,
                                    hasPlan |-> third.plans # {}]]
                BY <1>5, RefreshedIs
            <4> HIDE DEF latest, most
            <4> QED BY <4>1, <4>2
        <3> QED BY <2>1, <3>2, <3>3, <3>4
    <2>2. CASE "threads" \notin build
        BY <1>5, <2>2 DEF ApplyIn
    <2> QED BY <2>1, <2>2
<1> HIDE DEF fourth
<1> QED BY <1>1, <1>3, <1>4, <1>5, <1>6

-----------------------------------------------------------------------------
(* The kinds of steps.                                                     *)

\* A command with one event, which brings no attachment.
CommitOne(e) ==
    /\ Commit(<<e>>)
    /\ e.type # "user-message"
    /\ UNCHANGED uploaded

LEMMA Kinds ==
    ASSUME Next
    PROVE  \/ Upload
           \/ StartTurn
           \/ \E e : CommitOne(e)
           \/ UNCHANGED <<database, server, uploaded, history>>
           \/ \E count : RevertRollsBack(count)
           \/ Restart
           \/ BootApply
           \/ BootNext
<1>1. CASE SessionStarts
    <2>1. Ev("session-set", stage.turn, 0).type # "user-message"
        BY DEF Ev
    <2> QED BY <1>1, <2>1 DEF SessionStarts, CommitOne
<1>2. CASE Answer
    <2>1. Ev("assistant-message", stage.turn, 0).type # "user-message"
        BY DEF Ev
    <2> QED BY <1>2, <2>1 DEF Answer, CommitOne
<1>3. CASE ProposePlan
    <2>1. Ev("plan-upserted", stage.turn, 0).type # "user-message"
        BY DEF Ev
    <2> QED BY <1>3, <2>1 DEF ProposePlan, CommitOne, thread
<1>4. CASE SessionEnds
    <2>1. Ev("session-set", 0, 0).type # "user-message"
        BY DEF Ev
    <2> QED BY <1>4, <2>1 DEF SessionEnds, CommitOne
<1>5. CASE CaptureTurn
    <2>1. Ev("turn-diff-completed", stage.turn, Max(Counts) + 1).type # "user-message"
        BY DEF Ev
    <2> QED BY <1>5, <2>1 DEF CaptureTurn, CommitOne
<1>6. ASSUME NEW count, Revert(count) PROVE \E e : CommitOne(e)
    <2>1. Ev("reverted", 0, count).type # "user-message"
        BY DEF Ev
    <2> QED BY <1>6, <2>1 DEF Revert, CommitOne, thread
<1>7. CASE StartFails
    BY <1>7 DEF StartFails
<1> QED BY <1>1, <1>2, <1>3, <1>4, <1>5, <1>6, <1>7 DEF Next, ThreadStep, Bootstrap

\* What a commit of events to a list does to the list.
LEMMA Longer ==
    ASSUME NEW S, NEW s \in Seq(S), NEW T, NEW d \in Seq(T)
    PROVE  /\ s \o d \in Seq(S \cup T)
           /\ Len(s \o d) = Len(s) + Len(d)
           /\ \A i \in 1..Len(s) : (s \o d)[i] = s[i]
           /\ \A i \in 1..Len(d) : (s \o d)[Len(s) + i] = d[i]
    OBVIOUS

LEMMA OneEvent ==
    ASSUME NEW e
    PROVE  /\ <<e>> \in Seq({e}) /\ Len(<<e>>) = 1 /\ DOMAIN <<e>> = 1..1
           /\ <<e>>[1] = e /\ Head(<<e>>) = e
    OBVIOUS

LEMMA TwoEvents ==
    ASSUME NEW e, NEW f
    PROVE  /\ <<e, f>> \in Seq({e, f}) /\ Len(<<e, f>>) = 2
           /\ DOMAIN <<e, f>> = 1..2
           /\ <<e, f>>[1] = e /\ <<e, f>>[2] = f /\ Head(<<e, f>>) = e
    OBVIOUS

\* The log stays a sequence.
LogInv == \E S : log \in Seq(S)

LEMMA LogStep ==
    ASSUME LogInv, Next
    PROVE  LogInv'
<1>1. PICK S : log \in Seq(S)
    BY DEF LogInv
<1>2. ASSUME NEW T, NEW d \in Seq(T), Commit(d) PROVE LogInv'
    <2>1. log' = log \o d
        BY <1>2 DEF Commit, CommitAt
    <2>2. log' \in Seq(S \cup T)
        BY <1>1, <2>1, Longer
    <2> QED BY <2>2 DEF LogInv
<1>3. ASSUME UNCHANGED log PROVE LogInv'
    BY <1>1, <1>3 DEF LogInv
<1>4. CASE StartTurn
    <2> DEFINE e == Ev("user-message", uploaded, 0)
               f == Ev("turn-start-requested", uploaded, 0)
    <2>1. Commit(<<e, f>>)
        BY <1>4 DEF StartTurn
    <2> HIDE DEF e, f
    <2>2. <<e, f>> \in Seq({e, f})
        BY TwoEvents
    <2> QED BY <1>2, <2>1, <2>2
<1>5. ASSUME NEW e, CommitOne(e) PROVE LogInv'
    BY <1>2, <1>5, OneEvent DEF CommitOne
<1>6. CASE Upload
    BY <1>3, <1>6 DEF Upload
<1>7. ASSUME NEW count, RevertRollsBack(count) PROVE LogInv'
    BY <1>3, <1>7 DEF RevertRollsBack
<1>8. CASE Restart
    BY <1>3, <1>8 DEF Restart, database
<1>9. CASE BootApply
    BY <1>3, <1>9 DEF BootApply, BootApplyEvent
<1>10. CASE BootNext
    BY <1>3, <1>10 DEF BootNext, database
<1>11. CASE UNCHANGED <<database, server, uploaded, history>>
    BY <1>3, <1>11 DEF database
<1> QED BY <1>4, <1>5, <1>6, <1>7, <1>8, <1>9, <1>10, <1>11, Kinds

-----------------------------------------------------------------------------
(* How far the projectors have read.                                       *)

\* a lists events in order, up to event c.
Rising(a, c) ==
    /\ a \in Seq(Nat)
    /\ \A i, j \in DOMAIN a : i < j => a[i] < a[j]
    /\ a # <<>> => a[Len(a)] = c

LEMMA RisingBelow ==
    ASSUME NEW a, NEW c \in Nat, Rising(a, c), NEW i \in DOMAIN a
    PROVE  a[i] \in Nat /\ a[i] <= c
<1>1. a \in Seq(Nat) /\ DOMAIN a = 1..Len(a) /\ Len(a) \in Nat
    BY DEF Rising
<1>2. a # <<>> /\ Len(a) \in DOMAIN a
    BY <1>1
<1>3. a[Len(a)] = c /\ a[i] \in Nat
    BY <1>1, <1>2 DEF Rising
<1>4. i = Len(a) \/ a[i] < a[Len(a)]
    BY <1>1, <1>2 DEF Rising
<1> QED BY <1>3, <1>4

LEMMA RisingLonger ==
    ASSUME NEW a, NEW c \in Nat, Rising(a, c), NEW n \in Nat, c <= n,
           NEW b \in Seq(Nat), Len(b) # 0, \A i \in 1..Len(b) : b[i] = n + i
    PROVE  Rising(a \o b, n + Len(b)) /\ Len(a \o b) = Len(a) + Len(b)
<1> DEFINE d == a \o b
<1>1. /\ a \in Seq(Nat) /\ DOMAIN a = 1..Len(a) /\ Len(a) \in Nat /\ Len(b) \in Nat
      /\ \A i, j \in DOMAIN a : i < j => a[i] < a[j]
    BY DEF Rising
<1>2. /\ d \in Seq(Nat) /\ Len(d) = Len(a) + Len(b) /\ DOMAIN d = 1..Len(d)
      /\ \A i \in 1..Len(a) : d[i] = a[i]
      /\ \A i \in 1..Len(b) : d[Len(a) + i] = b[i]
    BY <1>1
<1> HIDE DEF d
<1>3. ASSUME NEW i \in DOMAIN d, NEW j \in DOMAIN d, i < j PROVE d[i] < d[j]
    <2>1. CASE j <= Len(a)
        <3>1. i \in 1..Len(a) /\ j \in 1..Len(a)
            BY <1>1, <1>2, <1>3, <2>1
        <3>2. a[i] < a[j]
            BY <1>1, <1>3, <3>1
        <3> QED BY <1>2, <3>1, <3>2
    <2>2. CASE j > Len(a)
        <3>1. j - Len(a) \in 1..Len(b) /\ j = Len(a) + (j - Len(a))
            BY <1>1, <1>2, <2>2
        <3>2. d[j] = n + (j - Len(a))
            BY <1>2, <3>1
        <3>3. CASE i <= Len(a)
            <4>1. i \in DOMAIN a /\ d[i] = a[i]
                BY <1>1, <1>2, <3>3
            <4>2. a[i] \in Nat /\ a[i] <= c
                BY <4>1, RisingBelow
            <4> QED BY <3>1, <3>2, <4>1, <4>2
        <3>4. CASE i > Len(a)
            <4>1. i - Len(a) \in 1..Len(b) /\ i = Len(a) + (i - Len(a))
                BY <1>1, <1>2, <3>4
            <4>2. d[i] = n + (i - Len(a))
                BY <1>2, <4>1
            <4> QED BY <1>1, <1>3, <3>1, <3>2, <4>1, <4>2
        <3> QED BY <1>1, <1>2, <3>3, <3>4
    <2> QED BY <1>1, <1>2, <2>1, <2>2
<1>4. d[Len(d)] = n + Len(b)
    BY <1>1, <1>2
<1> QED BY <1>2, <1>3, <1>4 DEF Rising, d

LEMMA RisingByOne ==
    ASSUME NEW a, NEW c \in Nat, Rising(a, c)
    PROVE  Rising(Append(a, c + 1), c + 1) /\ Len(Append(a, c + 1)) = Len(a) + 1
<1>1. <<c + 1>> \in Seq(Nat) /\ Len(<<c + 1>>) = 1 /\ <<c + 1>>[1] = c + 1
    OBVIOUS
<1> DEFINE b == <<c + 1>>
<1>2. Append(a, c + 1) = a \o b
    BY SMTT(30) DEF Rising
<1>3. /\ b \in Seq(Nat) /\ Len(b) = 1 /\ Len(b) # 0 /\ c <= c
      /\ \A i \in 1..Len(b) : b[i] = c + i
    BY <1>1
<1> HIDE DEF b
<1>4. Rising(a \o b, c + Len(b)) /\ Len(a \o b) = Len(a) + Len(b)
    BY <1>3, RisingLonger
<1> QED BY <1>2, <1>3, <1>4

LEMMA LengthOfLog ==
    ASSUME LogInv
    PROVE  Len(log) \in Nat
    BY DEF LogInv

LEMMA Reading ==
    ASSUME ReadInv, LogInv, NEW p \in Projectors
    PROVE  /\ Rising(applied[p], cursor[p])
           /\ cursor[p] \in Nat /\ cursor[p] <= Len(log)
           /\ p \notin capped => Len(applied[p]) = cursor[p]
<1>1. applied[p] \in Seq(Nat) /\ cursor[p] \in 0..Len(log)
    BY DEF ReadInv
<1>2. /\ \A i, j \in DOMAIN applied[p] : i < j => applied[p][i] < applied[p][j]
      /\ applied[p] # <<>> => applied[p][Len(applied[p])] = cursor[p]
      /\ p \notin capped => Len(applied[p]) = cursor[p]
    BY DEF ReadInv, AppliedOnceInOrder
<1> QED BY <1>1, <1>2, LengthOfLog DEF Rising

LEMMA CommitReads ==
    ASSUME ReadInv, LogInv, NEW T, NEW d \in Seq(T), Len(d) # 0, Commit(d)
    PROVE  ReadInv'
<1> DEFINE n == Len(log)
           b == [i \in DOMAIN d |-> n + i]
<1>1. PICK S : log \in Seq(S)
    BY DEF LogInv
<1>2. /\ phase = "up" /\ log' = log \o d
      /\ cursor' = [p \in Projectors |-> IF p \in installed
                                         THEN n + Len(d) ELSE cursor[p]]
      /\ applied' = [p \in Projectors |-> IF p \in installed
                                          THEN applied[p] \o b ELSE applied[p]]
      /\ UNCHANGED <<phase, installed, boot, capped>>
    BY DEF Commit, CommitAt, server
<1>3. n \in Nat /\ Len(d) \in Nat /\ DOMAIN d = 1..Len(d)
    BY <1>1
<1>4. Len(log') = n + Len(d)
    BY <1>1, <1>2, Longer
<1>5. /\ b \in Seq(Nat) /\ Len(b) = Len(d) /\ Len(b) # 0
      /\ \A i \in 1..Len(b) : b[i] = n + i
    BY <1>3
<1> HIDE DEF b, n
<1>6. ASSUME NEW p \in Projectors
      PROVE  /\ Rising(applied'[p], cursor'[p])
             /\ p \notin capped' => Len(applied'[p]) = cursor'[p]
             /\ cursor'[p] \in 0..(n + Len(d))
             /\ p \in installed => cursor'[p] = n + Len(d)
    <2>1. /\ Rising(applied[p], cursor[p])
          /\ cursor[p] \in Nat /\ cursor[p] <= n
          /\ p \notin capped => Len(applied[p]) = cursor[p]
        BY Reading DEF n
    <2>2. CASE p \in installed
        <3>1. cursor'[p] = n + Len(d) /\ applied'[p] = applied[p] \o b
            BY <1>2, <2>2
        <3>2. /\ Rising(applied[p] \o b, n + Len(b))
              /\ Len(applied[p] \o b) = Len(applied[p]) + Len(b)
            BY <1>3, <1>5, <2>1, RisingLonger
        <3>3. p \notin capped => cursor[p] = n
            BY <1>2, <2>2 DEF ReadInv, UpMeansCaughtUp, n
        <3>4. Rising(applied'[p], cursor'[p])
            BY <1>5, <3>1, <3>2
        <3>5. p \notin capped' => Len(applied'[p]) = cursor'[p]
            BY <1>2, <1>5, <2>1, <3>1, <3>2, <3>3
        <3>6. n + Len(d) \in 0..(n + Len(d))
            BY <1>3
        <3> QED BY <3>1, <3>4, <3>5, <3>6
    <2>3. CASE p \notin installed
        <3>1. cursor'[p] = cursor[p] /\ applied'[p] = applied[p]
            BY <1>2, <2>3
        <3> QED BY <1>2, <1>3, <2>1, <2>3, <3>1
    <2> QED BY <2>2, <2>3
<1>7. AppliedOnceInOrder' /\ (applied \in [Projectors -> Seq(Nat)])'
    <2>1. applied' = [p \in Projectors |-> applied'[p]]
        BY <1>2
    <2>2. \A p \in Projectors : applied'[p] \in Seq(Nat)
        BY <1>6 DEF Rising
    <2>3. applied' \in [Projectors -> Seq(Nat)]
        BY <2>1, <2>2
    <2>4. AppliedOnceInOrder'
        BY <1>6 DEF AppliedOnceInOrder, Rising
    <2> QED BY <2>3, <2>4
<1>8. cursor' \in [Projectors -> 0..Len(log')]
    BY <1>2, <1>4, <1>6
<1>9. UpMeansCaughtUp'
    <2>1. \A p \in installed' : p \in Projectors /\ p \in installed
        BY <1>2 DEF ReadInv
    <2> QED BY <1>4, <1>6, <2>1 DEF UpMeansCaughtUp
<1>10. /\ phase' \in {"up", "boot"} /\ installed' \subseteq Projectors
       /\ boot'.at \in 1..Len(Order) /\ phase' # "boot"
    BY <1>2 DEF ReadInv
<1> QED BY <1>7, <1>8, <1>9, <1>10 DEF ReadInv

LEMMA Places ==
    /\ Len(Order) = 4
    /\ \A p \in Projectors : \E i \in 1..4 : Order[i] = p
    /\ \A i \in 1..4 : Order[i] \in Projectors
    /\ Order[1] = "messages" /\ Order[2] = "plans"
    /\ Order[3] = "turns" /\ Order[4] = "threads"
<1>1. /\ Len(Order) = 4
      /\ Order[1] = "messages" /\ Order[2] = "plans"
      /\ Order[3] = "turns" /\ Order[4] = "threads"
    BY DEF Order
<1>2. \A i \in 1..4 : i = 1 \/ i = 2 \/ i = 3 \/ i = 4
    OBVIOUS
<1>3. 1 \in 1..4 /\ 2 \in 1..4 /\ 3 \in 1..4 /\ 4 \in 1..4
    OBVIOUS
<1> HIDE DEF Order
<1> QED BY <1>1, <1>2, <1>3 DEF Projectors

\* At a start, events are read from the cursor on.
LEMMA BootApplyReads ==
    ASSUME ReadInv, LogInv, BootApply
    PROVE  ReadInv'
<1> DEFINE q == Booting
           n == cursor[q] + 1
<1>1. Len(Order) = 4 /\ boot.at \in 1..4 /\ q = Order[boot.at] /\ q \in Projectors
    BY Places DEF ReadInv, Booting
<1>2. /\ phase = "boot" /\ cursor[q] < Len(log)
      /\ cursor' = [cursor EXCEPT ![q] = n]
      /\ applied' = [applied EXCEPT ![q] = Append(@, n)]
      /\ boot' = [boot EXCEPT !.left = @ - 1]
      /\ UNCHANGED <<log, phase, installed, capped>>
    BY DEF BootApply, BootApplyEvent
<1> HIDE DEF q
<1>3. Len(log) \in Nat /\ cursor \in [Projectors -> 0..Len(log)]
      /\ applied \in [Projectors -> Seq(Nat)]
    BY LengthOfLog DEF ReadInv
<1>4. n \in 0..Len(log) /\ cursor[q] \in Nat
    BY <1>1, <1>2, <1>3
<1> HIDE DEF n
<1>5. boot'.at = boot.at
    BY <1>2
<1>6. ASSUME NEW p \in Projectors
      PROVE  /\ Rising(applied'[p], cursor'[p])
             /\ p \notin capped' => Len(applied'[p]) = cursor'[p]
             /\ cursor'[p] \in 0..Len(log)
             /\ cursor[p] = Len(log) => cursor'[p] = Len(log)
    <2>1. /\ Rising(applied[p], cursor[p])
          /\ cursor[p] \in 0..Len(log)
          /\ p \notin capped => Len(applied[p]) = cursor[p]
        BY <1>3, Reading
    <2>2. CASE p = q
        <3>1. cursor'[p] = n /\ applied'[p] = Append(applied[p], n) /\ n = cursor[p] + 1
            BY <1>2, <1>3, <2>2 DEF n
        <3>2. /\ Rising(Append(applied[p], n), n)
              /\ Len(Append(applied[p], n)) = Len(applied[p]) + 1
            BY <1>4, <2>1, <2>2, <3>1, RisingByOne
        <3> QED BY <1>2, <1>4, <2>1, <2>2, <3>1, <3>2
    <2>3. CASE p # q
        BY <1>2, <1>3, <2>1, <2>3
    <2> QED BY <2>2, <2>3
<1>7. AppliedOnceInOrder' /\ (applied \in [Projectors -> Seq(Nat)])'
    <2>1. applied' = [p \in Projectors |-> applied'[p]]
        BY <1>2, <1>3
    <2>2. \A p \in Projectors : applied'[p] \in Seq(Nat)
        BY <1>6 DEF Rising
    <2>3. applied' \in [Projectors -> Seq(Nat)]
        BY <2>1, <2>2
    <2>4. AppliedOnceInOrder'
        BY <1>6 DEF AppliedOnceInOrder, Rising
    <2> QED BY <2>3, <2>4
<1>8. cursor' \in [Projectors -> 0..Len(log')]
    BY <1>2, <1>3, <1>6
<1>9. phase' = "boot" =>
          installed' = Projectors /\ \A i \in 1..(boot'.at - 1) : Done(Order[i])'
    <2>1. installed' = Projectors /\ \A i \in 1..(boot.at - 1) : Done(Order[i])
        BY <1>2 DEF ReadInv
    <2>2. ASSUME NEW i \in 1..(boot.at - 1) PROVE Done(Order[i])'
        <3>1. i \in 1..4 /\ Order[i] \in Projectors /\ Done(Order[i])
            BY <1>1, <2>1, Places
        <3> QED BY <1>2, <1>6, <3>1 DEF Done
    <2> QED BY <1>5, <2>1, <2>2
<1> QED BY <1>1, <1>2, <1>5, <1>7, <1>8, <1>9 DEF ReadInv, UpMeansCaughtUp

LEMMA BootNextReads ==
    ASSUME ReadInv, LogInv, BootNext
    PROVE  ReadInv'
<1> DEFINE q == Booting
<1>1. Len(Order) = 4 /\ boot.at \in 1..4 /\ q = Order[boot.at] /\ q \in Projectors
    BY Places DEF ReadInv, Booting
<1>2. /\ phase = "boot" /\ Proceed(Len(Order))
      /\ capped' = IF cursor[q] < Len(log) THEN capped \cup {q} ELSE capped
      /\ UNCHANGED <<log, cursor, installed, applied>>
    BY DEF BootNext, database
<1> HIDE DEF q
<1>3. Len(log) \in Nat /\ cursor \in [Projectors -> 0..Len(log)]
      /\ applied \in [Projectors -> Seq(Nat)]
    BY LengthOfLog DEF ReadInv
<1>4. capped \subseteq capped' /\ (cursor[q] = Len(log) \/ q \in capped')
    BY <1>1, <1>2, <1>3
<1>5. AppliedOnceInOrder' /\ (applied \in [Projectors -> Seq(Nat)])'
    BY <1>2, <1>4 DEF ReadInv, AppliedOnceInOrder
<1>6. installed = Projectors /\ \A i \in 1..boot.at : Done(Order[i])'
    <2>1. installed = Projectors /\ \A i \in 1..(boot.at - 1) : Done(Order[i])
        BY <1>2 DEF ReadInv
    <2>2. ASSUME NEW i \in 1..boot.at PROVE Done(Order[i])'
        <3>1. CASE i = boot.at
            BY <1>1, <1>2, <1>4, <3>1 DEF Done
        <3>2. CASE i # boot.at
            <4>1. i \in 1..(boot.at - 1)
                BY <1>1, <3>2
            <4> QED BY <1>2, <1>4, <2>1, <4>1 DEF Done
        <3> QED BY <3>1, <3>2
    <2> QED BY <2>1, <2>2
<1>7. CASE boot.at < 4
    <2>1. boot'.at = boot.at + 1 /\ phase' = "boot"
        BY <1>1, <1>2, <1>7 DEF Proceed
    <2>2. \A i \in 1..(boot'.at - 1) : i \in 1..boot.at
        BY <1>1, <2>1
    <2>3. boot'.at \in 1..4
        BY <1>1, <1>7, <2>1
    <2> QED BY <1>1, <1>2, <1>3, <1>5, <1>6, <2>1, <2>2, <2>3
            DEF ReadInv, UpMeansCaughtUp
<1>8. CASE ~(boot.at < 4)
    <2>1. boot'.at = 1 /\ phase' = "up"
        BY <1>1, <1>2, <1>8 DEF Proceed
    <2>2. boot.at = 4
        BY <1>1, <1>8
    <2>3. \A p \in Projectors : Done(p)'
        BY <1>6, <2>2, Places
    <2>4. UpMeansCaughtUp'
        BY <1>2, <1>6, <2>3 DEF UpMeansCaughtUp, Done
    <2>5. boot'.at \in 1..4
        BY <2>1
    <2> QED BY <1>1, <1>2, <1>3, <1>5, <1>6, <2>1, <2>4, <2>5 DEF ReadInv
<1> QED BY <1>7, <1>8

LEMMA ReadStep ==
    ASSUME ReadInv, LogInv, Next
    PROVE  ReadInv'
<1>1. CASE StartTurn
    <2> DEFINE e == Ev("user-message", uploaded, 0)
               f == Ev("turn-start-requested", uploaded, 0)
    <2>1. Commit(<<e, f>>)
        BY <1>1 DEF StartTurn
    <2> HIDE DEF e, f
    <2>2. <<e, f>> \in Seq({e, f}) /\ Len(<<e, f>>) # 0
        BY TwoEvents
    <2> QED BY <2>1, <2>2, CommitReads
<1>2. ASSUME NEW e, CommitOne(e) PROVE ReadInv'
    <2>1. <<e>> \in Seq({e}) /\ Len(<<e>>) # 0
        BY OneEvent
    <2> QED BY <1>2, <2>1, CommitReads DEF CommitOne
<1>3. ASSUME UNCHANGED <<log, cursor, phase, installed, boot, applied, capped>>
      PROVE  ReadInv'
    BY <1>3 DEF ReadInv, AppliedOnceInOrder, UpMeansCaughtUp, Done
<1>4. CASE Upload
    BY <1>3, <1>4 DEF Upload, server, history
<1>5. ASSUME NEW count, RevertRollsBack(count) PROVE ReadInv'
    BY <1>3, <1>5 DEF RevertRollsBack, server
<1>6. CASE UNCHANGED <<database, server, uploaded, history>>
    BY <1>3, <1>6 DEF database, server, history
<1>7. CASE Restart
    <2>1. /\ phase' = "boot" /\ installed' = Projectors
          /\ boot' = [at |-> 1, left |-> ReadLimit]
          /\ UNCHANGED <<log, cursor, applied, capped>>
        BY <1>7 DEF Restart, database
    <2>2. boot'.at = 1 /\ \A i \in 1..(boot'.at - 1) : FALSE
        BY <2>1
    <2>3. boot'.at \in 1..Len(Order)
        BY <2>2, Places
    <2> QED BY <2>1, <2>2, <2>3 DEF ReadInv, AppliedOnceInOrder, UpMeansCaughtUp
<1> QED BY <1>1, <1>2, <1>4, <1>5, <1>6, <1>7, BootApplyReads, BootNextReads, Kinds

-----------------------------------------------------------------------------
(* Commits, and the tables.                                                *)

\* The files a commit of e prunes.
RemovedBy(e) == UNION {Pruned(p, e, tables) : p \in installed}

LEMMA CommitOneIs ==
    ASSUME NEW e, CommitOne(e), LogInv
    PROVE  /\ phase = "up"
           /\ Len(log') = Len(log) + 1
           /\ \A i \in 1..Len(log) : log'[i] = log[i]
           /\ log'[Len(log) + 1] = e
           /\ tables' = Project(installed, e, tables)
           /\ cursor' = [p \in Projectors |-> IF p \in installed
                                              THEN Len(log) + 1 ELSE cursor[p]]
           /\ files' = files \ RemovedBy(e)
           /\ endangered' = endangered \cup (RemovedBy(e) \cap {uploaded})
           /\ UNCHANGED <<phase, installed, boot, uploaded, capped, replayed>>
<1> DEFINE d == <<e>>
<1>1. /\ d \in Seq({e}) /\ Len(d) = 1 /\ d[1] = e /\ Head(d) = e
    BY OneEvent
<1>2. Commit(d) /\ UNCHANGED uploaded
    BY DEF CommitOne
<1> HIDE DEF d
<1>3. PICK S : log \in Seq(S)
    BY DEF LogInv
<1>4. log' = log \o d
    BY <1>2 DEF Commit, CommitAt
<1>5. /\ Len(log') = Len(log) + 1
      /\ \A i \in 1..Len(log) : log'[i] = log[i]
      /\ log'[Len(log) + 1] = e
    <2>0. d \in Seq({e})
        BY <1>1
    <2>1. /\ Len(log \o d) = Len(log) + Len(d)
          /\ \A i \in 1..Len(log) : (log \o d)[i] = log[i]
          /\ \A i \in 1..Len(d) : (log \o d)[Len(log) + i] = d[i]
        BY <1>3, <2>0, Longer
    <2>2. 1 \in 1..Len(d)
        BY <1>1
    <2> QED BY <1>1, <1>4, <2>1, <2>2
<1>6. tables' = Project(installed, e, tables)
    <2>1. tables' = ProjectAll(installed, d, tables)
        BY <1>2 DEF Commit, CommitAt
    <2> QED BY <1>1, <2>1 DEF ProjectAll
<1>7. cursor' = [p \in Projectors |-> IF p \in installed
                                      THEN Len(log) + 1 ELSE cursor[p]]
    BY <1>1, <1>2 DEF Commit, CommitAt
<1>8. UNION {Pruned(p, Head(d), tables) : p \in installed} = RemovedBy(e)
    BY <1>1 DEF RemovedBy
<1>9. /\ files' = files \ RemovedBy(e)
      /\ endangered' = endangered \cup (RemovedBy(e) \cap {uploaded})
    BY <1>2, <1>8 DEF Commit, CommitAt
<1>10. phase = "up" /\ UNCHANGED <<phase, installed, boot, capped, replayed>>
    BY <1>2 DEF Commit, CommitAt, server
<1> QED BY <1>2, <1>5, <1>6, <1>7, <1>9, <1>10

LEMMA StartTurnIs ==
    ASSUME StartTurn, LogInv
    PROVE  \E e, f :
             /\ e.type = "user-message" /\ e.turn = uploaded
             /\ f.type = "turn-start-requested"
             /\ phase = "up"
             /\ Len(log') = Len(log) + 2
             /\ \A i \in 1..Len(log) : log'[i] = log[i]
             /\ log'[Len(log) + 1] = e /\ log'[Len(log) + 2] = f
             /\ tables' = Project(installed, f, Project(installed, e, tables))
             /\ cursor' = [p \in Projectors |-> IF p \in installed
                                                THEN Len(log) + 2 ELSE cursor[p]]
             /\ uploaded # 0 /\ uploaded' = 0
             /\ UNCHANGED <<phase, installed, boot, files, endangered, capped, replayed>>
<1> DEFINE e == Ev("user-message", uploaded, 0)
           f == Ev("turn-start-requested", uploaded, 0)
           d == <<e, f>>
<1>1. /\ e.type = "user-message" /\ e.turn = uploaded
      /\ f.type = "turn-start-requested"
    BY DEF Ev
<1>2. Commit(d) /\ uploaded # 0 /\ uploaded' = 0
    BY DEF StartTurn
<1> HIDE DEF e, f
<1>3. /\ d \in Seq({e, f}) /\ Len(d) = 2 /\ d[1] = e /\ d[2] = f /\ Head(d) = e
    BY TwoEvents
<1> HIDE DEF d
<1>4. PICK S : log \in Seq(S)
    BY DEF LogInv
<1>5. log' = log \o d
    BY <1>2 DEF Commit, CommitAt
<1>6. /\ Len(log') = Len(log) + 2
      /\ \A i \in 1..Len(log) : log'[i] = log[i]
      /\ log'[Len(log) + 1] = e /\ log'[Len(log) + 2] = f
    <2>1. /\ Len(log \o d) = Len(log) + Len(d)
          /\ \A i \in 1..Len(log) : (log \o d)[i] = log[i]
          /\ \A i \in 1..Len(d) : (log \o d)[Len(log) + i] = d[i]
        BY <1>3, <1>4, Longer, SMTT(30)
    <2>2. 1 \in 1..Len(d) /\ 2 \in 1..Len(d)
        BY <1>3
    <2> QED BY <1>3, <1>5, <2>1, <2>2
<1>7. tables' = Project(installed, f, Project(installed, e, tables))
    <2>1. tables' = ProjectAll(installed, d, tables)
        BY <1>2 DEF Commit, CommitAt
    <2> QED BY <1>3, <2>1 DEF ProjectAll
<1>8. cursor' = [p \in Projectors |-> IF p \in installed
                                      THEN Len(log) + 2 ELSE cursor[p]]
    BY <1>2, <1>3 DEF Commit, CommitAt
<1>9. UNION {Pruned(p, Head(d), tables) : p \in installed} = {}
    <2>1. \A p \in installed : Pruned(p, Head(d), tables) = {}
        BY <1>1, <1>3 DEF Pruned
    <2> QED BY <2>1
<1>10. UNCHANGED <<files, endangered>>
    BY <1>2, <1>9 DEF Commit, CommitAt
<1>11. phase = "up" /\ UNCHANGED <<phase, installed, boot, capped, replayed>>
    BY <1>2 DEF Commit, CommitAt, server
<1> QED BY <1>1, <1>2, <1>6, <1>7, <1>8, <1>10, <1>11

LEMMA BootApplyIs ==
    ASSUME BootApply, ReadInv, LogInv
    PROVE  \E q \in Projectors, n \in 1..Len(log) :
             /\ phase = "boot" /\ q = Order[boot.at] /\ n = cursor[q] + 1
             /\ tables' = Apply(q, log[n], tables)
             /\ cursor' = [cursor EXCEPT ![q] = n]
             /\ files' = files \ Pruned(q, log[n], tables)
             /\ endangered' = endangered \cup Pruned(q, log[n], tables)
             /\ replayed' = (replayed \/ log[n].type = "reverted")
             /\ UNCHANGED <<log, phase, installed, uploaded, capped>>
<1> DEFINE q == Booting
           n == cursor[q] + 1
<1>1. Len(Order) = 4 /\ boot.at \in 1..4 /\ q = Order[boot.at] /\ q \in Projectors
    BY Places DEF ReadInv, Booting
<1>2. cursor[q] < Len(log) /\ cursor[q] \in 0..Len(log) /\ Len(log) \in Nat
    BY <1>1, LengthOfLog DEF BootApply, BootApplyEvent, ReadInv
<1>3. n \in 1..Len(log)
    BY <1>2
<1>4. /\ phase = "boot"
      /\ tables' = Apply(q, log[n], tables)
      /\ cursor' = [cursor EXCEPT ![q] = n]
      /\ files' = files \ Pruned(q, log[n], tables)
      /\ endangered' = endangered \cup Pruned(q, log[n], tables)
      /\ replayed' = (replayed \/ log[n].type = "reverted")
      /\ UNCHANGED <<log, phase, installed, uploaded, capped>>
    BY DEF BootApply, BootApplyEvent, thread
<1> HIDE DEF q, n
<1>5. n = cursor[q] + 1
    BY DEF n
<1> QED BY <1>1, <1>3, <1>4, <1>5

\* Steps that neither store nor apply an event.
LEMMA OtherSteps ==
    ASSUME \/ Upload \/ Restart \/ BootNext
           \/ UNCHANGED <<database, server, uploaded, history>>
           \/ \E count : RevertRollsBack(count)
    PROVE  UNCHANGED <<log, cursor, tables, replayed>>
    BY DEF Upload, Restart, BootNext, RevertRollsBack, database, server, history

LEMMA ShapeStep ==
    ASSUME IsTables(tables), ReadInv, LogInv, Next
    PROVE  IsTables(tables')
<1>1. installed \subseteq Projectors
    BY DEF ReadInv
<1>2. ASSUME NEW e, CommitOne(e) PROVE IsTables(tables')
    <2>1. tables' = Project(installed, e, tables)
        BY <1>2, CommitOneIs
    <2> QED BY <1>1, <2>1, ProjectIs
<1>3. CASE StartTurn
    <2>1. PICK e, f : tables' = Project(installed, f, Project(installed, e, tables))
        BY <1>3, StartTurnIs
    <2> DEFINE tb == Project(installed, e, tables)
    <2>2. IsTables(tb)
        BY <1>1, ProjectIs
    <2>3. tables' = Project(installed, f, tb)
        BY <2>1
    <2> HIDE DEF tb
    <2> QED BY <1>1, <2>2, <2>3, ProjectIs
<1>4. CASE BootApply
    <2>1. PICK q \in Projectors, n \in 1..Len(log) : tables' = Apply(q, log[n], tables)
        BY <1>4, BootApplyIs
    <2> QED BY <2>1, ApplyKeeps
<1> QED BY <1>2, <1>3, <1>4, Kinds, OtherSteps

-----------------------------------------------------------------------------
(* Files.                                                                  *)

LEMMA SameUsers ==
    ASSUME NEW x, NEW y, x.messages = y.messages
    PROVE  Users(x) = Users(y)
    BY DEF Users

LEMMA UsersAfter ==
    ASSUME NEW tb, IsTables(tb), NEW e
    PROVE  /\ Users(MessagesAfter(tb, e)) \subseteq
                Users(tb) \cup (IF e.type = "user-message" THEN {e.turn} ELSE {})
           /\ e.type = "reverted" =>
                Users(MessagesAfter(tb, e)) \subseteq KeptUsers(tb, e.count)
<1>1. tb.messages \in [Message -> Nat] /\ "messages" \in DOMAIN tb
    BY DEF IsTables
<1>2. \A k \in Turns : <<"user", k>> \in Message
    BY DEF Message
<1>3. CASE e.type = "user-message"
    <2> DEFINE m == [tb.messages EXCEPT ![<<"user", e.turn>>] = 1]
    <2>1. MessagesAfter(tb, e) = [tb EXCEPT !.messages = m]
        BY <1>3 DEF MessagesAfter
    <2>2. \A k \in Turns : k # e.turn => m[<<"user", k>>] = tb.messages[<<"user", k>>]
        BY <1>1, <1>2
    <2> HIDE DEF m
    <2>3. MessagesAfter(tb, e).messages = m
        BY <1>1, <2>1
    <2> QED BY <1>3, <2>2, <2>3 DEF Users
<1>4. CASE e.type = "assistant-message"
    <2> DEFINE m == [tb.messages EXCEPT ![<<"assistant", e.turn>>] = @ + 1]
    <2>1. MessagesAfter(tb, e) = [tb EXCEPT !.messages = m]
        BY <1>4 DEF MessagesAfter
    <2>2. \A k \in Turns : m[<<"user", k>>] = tb.messages[<<"user", k>>]
        BY <1>1, <1>2
    <2> HIDE DEF m
    <2>3. MessagesAfter(tb, e).messages = m
        BY <1>1, <2>1
    <2> QED BY <1>4, <2>2, <2>3 DEF Users
<1>5. CASE e.type = "reverted"
    <2> DEFINE m == [x \in Message |-> IF x \in KeptMessages(tb, e.count)
                                       THEN tb.messages[x] ELSE 0]
    <2>1. MessagesAfter(tb, e) = [tb EXCEPT !.messages = m]
        BY <1>5 DEF MessagesAfter
    <2>2. \A k \in Turns :
            m[<<"user", k>>] > 0 => /\ tb.messages[<<"user", k>>] > 0
                                    /\ <<"user", k>> \in KeptMessages(tb, e.count)
        BY <1>1, <1>2
    <2> HIDE DEF m
    <2>3. MessagesAfter(tb, e).messages = m
        BY <1>1, <2>1
    <2>4. \A k : <<"user", k>> \in KeptMessages(tb, e.count)
                    => k \in KeptUsers(tb, e.count)
        BY DEF KeptMessages
    <2> QED BY <1>5, <2>2, <2>3, <2>4 DEF Users
<1>6. CASE e.type \notin {"user-message", "assistant-message", "reverted"}
    <2>1. MessagesAfter(tb, e) = tb
        BY <1>6 DEF MessagesAfter
    <2> QED BY <1>6, <2>1
<1> QED BY <1>3, <1>4, <1>5, <1>6

LEMMA ProjectUsers ==
    ASSUME NEW tb, IsTables(tb), NEW e, NEW build, build \subseteq Projectors
    PROVE  /\ Users(Project(build, e, tb)) \subseteq
                Users(tb) \cup (IF e.type = "user-message" THEN {e.turn} ELSE {})
           /\ e.type = "reverted" /\ "messages" \in build =>
                Users(Project(build, e, tb)) \subseteq KeptUsers(tb, e.count)
<1> DEFINE r == Project(build, e, tb)
<1>1. r.messages = IF "messages" \in build
                   THEN MessagesAfter(tb, e).messages ELSE tb.messages
    BY ProjectIs
<1> HIDE DEF r
<1>2. CASE "messages" \in build
    <2>1. Users(r) = Users(MessagesAfter(tb, e))
        BY <1>1, <1>2, SameUsers
    <2> QED BY <2>1, UsersAfter DEF r
<1>3. CASE "messages" \notin build
    <2>1. Users(r) = Users(tb)
        BY <1>1, <1>3, SameUsers
    <2> QED BY <1>3, <2>1 DEF r
<1> QED BY <1>2, <1>3

\* A file goes only when a revert of messages decided so.
LEMMA PrunedIs ==
    ASSUME NEW p, NEW e, NEW tb
    PROVE  \/ Pruned(p, e, tb) = {}
           \/ /\ p = "messages" /\ e.type = "reverted"
              /\ Pruned(p, e, tb) = files \ KeptUsers(tb, e.count)
    BY DEF Pruned

\* Messages that are stored and not yet projected have their files.
LEMMA CommitFiles ==
    ASSUME FilesInv, IsTables(tables), ReadInv, LogInv, NEW e, CommitOne(e)
    PROVE  FilesInv'
<1> DEFINE there == files \cup endangered
           removed == RemovedBy(e)
           keep == KeptUsers(tables, e.count)
<1>1. /\ Len(log') = Len(log) + 1
      /\ \A i \in 1..Len(log) : log'[i] = log[i]
      /\ log'[Len(log) + 1] = e
      /\ tables' = Project(installed, e, tables)
      /\ cursor' = [p \in Projectors |-> IF p \in installed
                                         THEN Len(log) + 1 ELSE cursor[p]]
      /\ files' = files \ removed
      /\ endangered' = endangered \cup (removed \cap {uploaded})
    BY CommitOneIs
<1>0. uploaded' = uploaded
    BY DEF CommitOne
<1>2. /\ Users(tables) \subseteq there
      /\ uploaded # 0 => uploaded \in there
      /\ \A n \in (cursor["messages"] + 1)..Len(log) :
            log[n].type = "user-message" => log[n].turn \in there
    BY DEF FilesInv
<1>3. /\ installed \subseteq Projectors /\ cursor["messages"] \in 0..Len(log)
      /\ "messages" \in Projectors /\ Len(log) \in Nat
    BY LengthOfLog DEF ReadInv, Projectors
<1>4. e.type # "user-message"
    BY DEF CommitOne
<1>5. /\ Users(tables') \subseteq Users(tables)
      /\ e.type = "reverted" /\ "messages" \in installed => Users(tables') \subseteq keep
    BY <1>1, <1>3, <1>4, ProjectUsers
<1>6. \/ removed = {}
      \/ e.type = "reverted" /\ "messages" \in installed /\ removed = files \ keep
    <2>1. ASSUME NEW x \in removed
          PROVE  e.type = "reverted" /\ "messages" \in installed /\ removed = files \ keep
        <3>1. PICK p \in installed : x \in Pruned(p, e, tables)
            BY DEF RemovedBy
        <3>2. /\ p = "messages" /\ e.type = "reverted"
              /\ Pruned(p, e, tables) = files \ keep
            BY <3>1, PrunedIs
        <3>3. \A r \in installed : Pruned(r, e, tables) \subseteq files \ keep
            BY PrunedIs
        <3> QED BY <3>2, <3>3 DEF RemovedBy
    <2> QED BY <2>1
<1> HIDE DEF removed, keep, there
<1>7. Users(tables') \subseteq files' \cup endangered'
    BY <1>1, <1>2, <1>5, <1>6 DEF there
<1>8. uploaded' # 0 => uploaded' \in files' \cup endangered'
    BY <1>0, <1>1, <1>2, <1>6 DEF there
<1>9. ASSUME NEW n \in (cursor'["messages"] + 1)..Len(log'),
             log'[n].type = "user-message"
      PROVE  log'[n].turn \in files' \cup endangered'
    <2>1. n # Len(log) + 1
        BY <1>1, <1>4, <1>9
    <2>2. "messages" \notin installed
        BY <1>1, <1>3, <2>1
    <2>3. n \in (cursor["messages"] + 1)..Len(log) /\ log'[n] = log[n]
        BY <1>1, <1>3, <2>1, <2>2
    <2>4. removed = {}
        BY <1>6, <2>2
    <2> QED BY <1>1, <1>2, <1>9, <2>3, <2>4 DEF there
<1> QED BY <1>7, <1>8, <1>9 DEF FilesInv

LEMMA StartFiles ==
    ASSUME FilesInv, IsTables(tables), ReadInv, LogInv, StartTurn
    PROVE  FilesInv'
<1> DEFINE there == files \cup endangered
<1>1. PICK e, f :
        /\ e.type = "user-message" /\ e.turn = uploaded
        /\ f.type = "turn-start-requested"
        /\ Len(log') = Len(log) + 2
        /\ \A i \in 1..Len(log) : log'[i] = log[i]
        /\ log'[Len(log) + 1] = e /\ log'[Len(log) + 2] = f
        /\ tables' = Project(installed, f, Project(installed, e, tables))
        /\ cursor' = [p \in Projectors |-> IF p \in installed
                                           THEN Len(log) + 2 ELSE cursor[p]]
        /\ uploaded # 0 /\ uploaded' = 0
        /\ UNCHANGED <<files, endangered>>
    BY StartTurnIs
<1>2. /\ Users(tables) \subseteq there
      /\ uploaded # 0 => uploaded \in there
      /\ \A n \in (cursor["messages"] + 1)..Len(log) :
            log[n].type = "user-message" => log[n].turn \in there
    BY DEF FilesInv
<1>3. /\ installed \subseteq Projectors /\ cursor["messages"] \in 0..Len(log)
      /\ "messages" \in Projectors /\ Len(log) \in Nat
    BY LengthOfLog DEF ReadInv, Projectors
<1> DEFINE tb == Project(installed, e, tables)
<1>4. IsTables(tb) /\ Users(tb) \subseteq Users(tables) \cup {uploaded}
    BY <1>1, <1>3, ProjectIs, ProjectUsers
<1>5. tables' = Project(installed, f, tb)
    BY <1>1
<1> HIDE DEF tb
<1>6. Users(tables') \subseteq Users(tb)
    BY <1>1, <1>3, <1>4, <1>5, ProjectUsers
<1> HIDE DEF there
<1>7. Users(tables') \subseteq there
    BY <1>1, <1>2, <1>4, <1>6
<1>8. ASSUME NEW n \in (cursor'["messages"] + 1)..Len(log'),
             log'[n].type = "user-message"
      PROVE  log'[n].turn \in there
    <2>1. n # Len(log) + 2
        BY <1>1, <1>8
    <2>2. CASE n = Len(log) + 1
        BY <1>1, <1>2, <2>2
    <2>3. CASE n # Len(log) + 1
        <3>1. n \in (cursor["messages"] + 1)..Len(log) /\ log'[n] = log[n]
            BY <1>1, <1>3, <2>1, <2>3
        <3> QED BY <1>2, <1>8, <3>1
    <2> QED BY <2>2, <2>3
<1> QED BY <1>1, <1>7, <1>8 DEF FilesInv, there

LEMMA FilesStep ==
    ASSUME FilesInv, IsTables(tables), ReadInv, LogInv, Next
    PROVE  FilesInv'
<1> DEFINE there == files \cup endangered
<1>1. /\ Users(tables) \subseteq there
      /\ uploaded # 0 => uploaded \in there
      /\ \A n \in (cursor["messages"] + 1)..Len(log) :
            log[n].type = "user-message" => log[n].turn \in there
    BY DEF FilesInv
<1>2. ASSUME UNCHANGED <<log, cursor, tables>>,
             there \subseteq there',
             uploaded' \in {0, uploaded} \cup there'
      PROVE  FilesInv'
    BY <1>1, <1>2 DEF FilesInv
<1>3. CASE Upload
    BY <1>2, <1>3 DEF Upload, history
<1>4. CASE Restart
    BY <1>2, <1>4 DEF Restart, database
<1>5. CASE BootNext
    BY <1>2, <1>5 DEF BootNext, database, thread
<1>6. CASE UNCHANGED <<database, server, uploaded, history>>
    BY <1>2, <1>6 DEF database, history
<1>7. ASSUME NEW count, RevertRollsBack(count) PROVE FilesInv'
    BY <1>2, <1>7 DEF RevertRollsBack, thread
<1>8. CASE BootApply
    <2>1. PICK q \in Projectors, n \in 1..Len(log) :
             /\ n = cursor[q] + 1
             /\ tables' = Apply(q, log[n], tables)
             /\ cursor' = [cursor EXCEPT ![q] = n]
             /\ files' = files \ Pruned(q, log[n], tables)
             /\ endangered' = endangered \cup Pruned(q, log[n], tables)
             /\ UNCHANGED <<log, uploaded>>
        BY <1>8, BootApplyIs
    <2>2. there \subseteq there'
        BY <2>1
    <2>3. cursor \in [Projectors -> 0..Len(log)] /\ "messages" \in Projectors
        BY DEF ReadInv, Projectors
    <2>4. CASE q = "messages"
        <3>1. tables' = MessagesAfter(tables, log[n])
            BY <2>1, <2>4 DEF Apply
        <3>2. log[n].type = "user-message" => log[n].turn \in there
            BY <1>1, <2>1, <2>4
        <3>3. Users(tables') \subseteq there
            <4>1. Users(tables') \subseteq
                    Users(tables) \cup
                      (IF log[n].type = "user-message" THEN {log[n].turn} ELSE {})
                BY <3>1, UsersAfter
            <4> QED BY <1>1, <3>2, <4>1
        <3>4. \A k \in (cursor'["messages"] + 1)..Len(log) :
                 k \in (cursor["messages"] + 1)..Len(log)
            BY <2>1, <2>3, <2>4
        <3> QED BY <1>1, <2>1, <2>2, <3>3, <3>4 DEF FilesInv
    <2>5. CASE q # "messages"
        <3>1. tables'.messages = tables.messages
            BY <2>1, <2>5, ApplyKeeps
        <3>2. Users(tables') = Users(tables)
            BY <3>1, SameUsers
        <3>3. cursor'["messages"] = cursor["messages"]
            BY <2>1, <2>3, <2>5
        <3> QED BY <1>1, <2>1, <2>2, <3>2, <3>3 DEF FilesInv
    <2> QED BY <2>4, <2>5
<1> QED BY <1>3, <1>4, <1>5, <1>6, <1>7, <1>8, CommitFiles, StartFiles, Kinds

-----------------------------------------------------------------------------
(* Induction over the naturals, for a set instead of a predicate.          *)

LEMMA SetInduction ==
    ASSUME NEW S \in SUBSET Nat, 0 \in S, \A n \in S : n + 1 \in S
    PROVE  S = Nat
<1> DEFINE R == OpToRel(<, Nat)
           G == Nat \ S
<1>1. IsWellFoundedOn(R, Nat)
    BY NatLessThanWellFounded
<1>2. \A n, m \in Nat : n < m => <<n, m>> \in R
    BY DEF OpToRel
<1> HIDE DEF R
<1> SUFFICES ASSUME G # {} PROVE FALSE
    OBVIOUS
<1>3. PICK n \in G : \A m \in G : ~ (<<m, n>> \in R)
    BY <1>1, WFMin
<1>4. n \in Nat /\ n # 0
    OBVIOUS
<1>5. n - 1 \in Nat /\ n - 1 < n /\ n - 1 + 1 = n
    BY <1>4
<1>6. n - 1 \notin G
    BY <1>2, <1>3, <1>4, <1>5
<1> QED BY <1>5, <1>6

-----------------------------------------------------------------------------
(* Live projection, event by event.                                        *)

\* h holds the tables that live projection of the first n events goes through.
Trace(h, s, n) ==
    h = [i \in 0..n |-> IF i = 0 THEN NewTables
                        ELSE Project(Projectors, s[i], h[i - 1])]

\* The recursive function of Live exists, so it is such a trace.
LEMMA LiveTrace ==
    ASSUME NEW s, Len(s) \in Nat
    PROVE  \E h : Trace(h, s, Len(s)) /\ Live(s) = h[Len(s)]
<1> DEFINE S == {n \in Nat : \E h : Trace(h, s, n)}
<1>1. 0 \in S
    <2>1. Trace([i \in 0..0 |-> NewTables], s, 0)
        BY DEF Trace
    <2> QED BY <2>1
<1>2. ASSUME NEW n \in S PROVE n + 1 \in S
    <2>1. PICK h : Trace(h, s, n)
        BY <1>2
    <2> DEFINE g == [i \in 0..(n + 1) |->
                       IF i = n + 1 THEN Project(Projectors, s[n + 1], h[n]) ELSE h[i]]
    <2>2. n \in Nat /\ n + 1 \in Nat
        OBVIOUS
    <2>3. ASSUME NEW i \in 0..(n + 1)
          PROVE  g[i] = IF i = 0 THEN NewTables
                        ELSE Project(Projectors, s[i], g[i - 1])
        <3>1. CASE i = n + 1
            BY <2>2, <3>1
        <3>2. CASE i \in 0..n
            <4>1. g[i] = h[i]
                BY <2>2, <3>2
            <4>2. h[i] = IF i = 0 THEN NewTables
                         ELSE Project(Projectors, s[i], h[i - 1])
                BY <2>1, <3>2 DEF Trace
            <4>3. i # 0 => g[i - 1] = h[i - 1]
                BY <2>2, <3>2
            <4> QED BY <4>1, <4>2, <4>3
        <3> QED BY <2>2, <3>1, <3>2
    <2>4. g = [i \in 0..(n + 1) |-> g[i]]
        OBVIOUS
    <2> HIDE DEF g
    <2>5. Trace(g, s, n + 1)
        BY <2>3, <2>4 DEF Trace
    <2> QED BY <2>2, <2>5
<1>3. Len(s) \in S
    <2> HIDE DEF S
    <2>1. S \in SUBSET Nat
        BY DEF S
    <2> QED BY <1>1, <1>2, <2>1, SetInduction
<1> DEFINE h == CHOOSE h : Trace(h, s, Len(s))
<1>4. Trace(h, s, Len(s))
    BY <1>3
<1>5. Live(s) = h[Len(s)]
    BY DEF Live, Trace
<1> HIDE DEF h
<1> QED BY <1>4, <1>5

\* Traces of logs that begin alike begin alike.
LEMMA TracesAgree ==
    ASSUME NEW s, NEW t, NEW k \in Nat, NEW l \in Nat, k <= l,
           \A i \in 1..k : s[i] = t[i],
           NEW g, Trace(g, s, k), NEW h, Trace(h, t, l)
    PROVE  g[k] = h[k]
<1> DEFINE S == {n \in Nat : n <= k => g[n] = h[n]}
<1>1. /\ \A i \in 0..k : g[i] = IF i = 0 THEN NewTables
                                ELSE Project(Projectors, s[i], g[i - 1])
      /\ \A i \in 0..l : h[i] = IF i = 0 THEN NewTables
                                ELSE Project(Projectors, t[i], h[i - 1])
    BY DEF Trace
<1>2. 0 \in S
    BY <1>1
<1>3. ASSUME NEW n \in S PROVE n + 1 \in S
    <2> SUFFICES ASSUME n + 1 <= k PROVE g[n + 1] = h[n + 1]
        OBVIOUS
    <2>1. g[n] = h[n] /\ n + 1 \in 1..k /\ n + 1 \in 0..l /\ n + 1 \in 0..k
        OBVIOUS
    <2>2. s[n + 1] = t[n + 1]
        BY <2>1
    <2>3. (n + 1) - 1 = n /\ n + 1 # 0
        OBVIOUS
    <2> QED BY <1>1, <2>1, <2>2, <2>3
<1>4. k \in S
    <2> HIDE DEF S
    <2>1. S \in SUBSET Nat
        BY DEF S
    <2> QED BY <1>2, <1>3, <2>1, SetInduction
<1> QED BY <1>4

\* LiveAt, of any log.
At(s, n) == Live(SubSeq(s, 1, n))

LEMMA AtTrace ==
    ASSUME NEW S, NEW s \in Seq(S), NEW n \in 0..Len(s)
    PROVE  \E h : Trace(h, s, n) /\ At(s, n) = h[n]
<1> DEFINE u == SubSeq(s, 1, n)
<1>1. Len(u) = n /\ n \in Nat /\ \A i \in 1..n : u[i] = s[i]
    OBVIOUS
<1> HIDE DEF u
<1>2. PICK h : Trace(h, u, n) /\ Live(u) = h[n]
    BY <1>1, LiveTrace
<1>3. \A i \in 0..n : i # 0 => u[i] = s[i]
    BY <1>1
<1>4. h = [i \in 0..n |-> IF i = 0 THEN NewTables
                          ELSE Project(Projectors, s[i], h[i - 1])]
    BY <1>2, <1>3 DEF Trace
<1> QED BY <1>2, <1>4 DEF Trace, At, u

LEMMA AtZero ==
    ASSUME NEW S, NEW s \in Seq(S)
    PROVE  At(s, 0) = NewTables
<1>1. 0 \in 0..Len(s)
    OBVIOUS
<1>2. PICK h : Trace(h, s, 0) /\ At(s, 0) = h[0]
    BY <1>1, AtTrace
<1> QED BY <1>2 DEF Trace

LEMMA AtNext ==
    ASSUME NEW S, NEW s \in Seq(S), NEW n \in 1..Len(s)
    PROVE  At(s, n) = Project(Projectors, s[n], At(s, n - 1))
<1>1. n \in 0..Len(s) /\ n - 1 \in 0..Len(s) /\ n \in Nat /\ n - 1 \in Nat /\ n - 1 <= n
    OBVIOUS
<1>2. PICK h : Trace(h, s, n) /\ At(s, n) = h[n]
    BY <1>1, AtTrace
<1>3. PICK g : Trace(g, s, n - 1) /\ At(s, n - 1) = g[n - 1]
    BY <1>1, AtTrace
<1>4. g[n - 1] = h[n - 1]
    BY <1>1, <1>2, <1>3, TracesAgree
<1>5. h[n] = Project(Projectors, s[n], h[n - 1])
    BY <1>1, <1>2 DEF Trace
<1> QED BY <1>2, <1>3, <1>4, <1>5

LEMMA AtPrefix ==
    ASSUME NEW S, NEW s \in Seq(S), NEW T, NEW t \in Seq(T), Len(s) <= Len(t),
           \A i \in 1..Len(s) : t[i] = s[i], NEW n \in 0..Len(s)
    PROVE  At(t, n) = At(s, n)
<1>1. n \in 0..Len(t) /\ n \in Nat /\ n <= n
    OBVIOUS
<1>2. PICK h : Trace(h, s, n) /\ At(s, n) = h[n]
    BY AtTrace
<1>3. PICK g : Trace(g, t, n) /\ At(t, n) = g[n]
    BY <1>1, AtTrace
<1>4. \A i \in 1..n : t[i] = s[i]
    OBVIOUS
<1>5. g[n] = h[n]
    BY <1>1, <1>2, <1>3, <1>4, TracesAgree
<1> QED BY <1>2, <1>3, <1>5

LEMMA SameSummary ==
    ASSUME NEW x, NEW y, x.messages = y.messages, x.plans = y.plans,
           x.thread.latestUserMessage = y.thread.latestUserMessage,
           x.thread.hasPlan = y.thread.hasPlan, SummedUp(x)
    PROVE  SummedUp(y)
    BY SameUsers DEF SummedUp

LEMMA NewTablesAreTables ==
    IsTables(NewTables) /\ SummedUp(NewTables)
<1> DEFINE m == [x \in Message |-> 0]
           h == [latestTurn |-> 0, latestUserMessage |-> 0, hasPlan |-> FALSE]
           u == [t \in Turns |-> NoTurn]
<1>1. NewTables = [messages |-> m, plans |-> {}, turns |-> u, pending |-> 0, thread |-> h]
    BY DEF NewTables
<1>2. m \in [Message -> Nat]
    OBVIOUS
<1>3. Users(NewTables) = {}
    <2>1. \A k \in Turns : <<"user", k>> \in Message
        BY DEF Message
    <2>2. \A k \in Turns : m[<<"user", k>>] = 0
        BY <2>1
    <2>3. NewTables.messages = m
        BY <1>1
    <2> HIDE DEF m
    <2> QED BY <2>2, <2>3 DEF Users
<1>4. Max({} \cup {0}) = 0
    <2>1. {} \cup {0} = {0}
        OBVIOUS
    <2>2. \A x : (x \in {0} /\ \A y \in {0} : x >= y) <=> x = 0
        OBVIOUS
    <2> QED BY <2>1, <2>2 DEF Max
<1> HIDE DEF m, u
<1>5. IsTables(NewTables)
    BY <1>1, <1>2 DEF IsTables
<1>6. /\ NewTables.thread.latestUserMessage = 0
      /\ NewTables.thread.hasPlan = FALSE /\ NewTables.plans = {}
    BY <1>1
<1> QED BY <1>3, <1>4, <1>5, <1>6 DEF SummedUp

\* Live projection keeps the thread's row a summary.
LEMMA LiveSummary ==
    ASSUME NEW tb, IsTables(tb), SummedUp(tb), NEW e
    PROVE  IsTables(Project(Projectors, e, tb)) /\ SummedUp(Project(Projectors, e, tb))
<1> DEFINE r == Project(Projectors, e, tb)
<1>1. \A p \in {"messages", "plans", "turns", "threads"} : p \in Projectors
    BY DEF Projectors
<1>2. /\ IsTables(r)
      /\ r.messages = MessagesAfter(tb, e).messages
      /\ r.plans = PlansAfter(tb, e).plans
      /\ e.type = "turn-start-requested" => r.thread = tb.thread
      /\ e.type # "turn-start-requested" => SummedUp(r)
    BY <1>1, ProjectIs
<1> HIDE DEF r
<1>3. CASE e.type = "turn-start-requested"
    <2>1. MessagesAfter(tb, e) = tb /\ PlansAfter(tb, e) = tb
        BY <1>3 DEF MessagesAfter, PlansAfter
    <2>2. SummedUp(r)
        BY <1>2, <1>3, <2>1, SameSummary
    <2> QED BY <1>2, <2>2 DEF r
<1> QED BY <1>2, <1>3 DEF r

LEMMA AtIsTables ==
    ASSUME NEW S, NEW s \in Seq(S)
    PROVE  \A n \in 0..Len(s) : IsTables(At(s, n)) /\ SummedUp(At(s, n))
<1> DEFINE G == {n \in Nat : n <= Len(s) => IsTables(At(s, n)) /\ SummedUp(At(s, n))}
<1>1. 0 \in G
    BY AtZero, NewTablesAreTables
<1>2. ASSUME NEW n \in G PROVE n + 1 \in G
    <2> SUFFICES ASSUME n + 1 <= Len(s)
                 PROVE  IsTables(At(s, n + 1)) /\ SummedUp(At(s, n + 1))
        OBVIOUS
    <2>1. Len(s) \in Nat /\ n \in Nat
        OBVIOUS
    <2>2. n + 1 \in 1..Len(s) /\ (n + 1) - 1 = n /\ n <= Len(s)
        BY <2>1
    <2>3. At(s, n + 1) = Project(Projectors, s[n + 1], At(s, n))
        BY <2>2, AtNext
    <2>4. IsTables(At(s, n)) /\ SummedUp(At(s, n))
        BY <2>2
    <2> QED BY <2>3, <2>4, LiveSummary
<1>3. G = Nat
    <2> HIDE DEF G
    <2>1. G \in SUBSET Nat
        BY DEF G
    <2> QED BY <1>1, <1>2, <2>1, SetInduction
<1>4. \A n \in 0..Len(s) : n \in G /\ n <= Len(s)
    BY <1>3
<1> QED BY <1>4

-----------------------------------------------------------------------------
(* Tables that follow live projection.                                     *)

\* What the projectors of a build own is the same.
Agrees(build, tb, lv) ==
    /\ "messages" \in build => tb.messages = lv.messages
    /\ "plans" \in build => tb.plans = lv.plans
    /\ "turns" \in build => tb.turns = lv.turns /\ tb.pending = lv.pending
    /\ "threads" \in build => tb.thread = lv.thread

LEMMA OwnReads ==
    ASSUME NEW build, build \subseteq Projectors, ReadsItsOwn(build)
    PROVE  /\ "messages" \in build => "turns" \in build
           /\ "plans" \in build => "turns" \in build
           /\ "threads" \in build => build = Projectors
<1>1. ASSUME NEW p \in build PROVE Reads[p] \subseteq build
    BY DEF ReadsItsOwn
<1>2. /\ Reads["messages"] = {"turns"} /\ Reads["plans"] = {"turns"}
      /\ Reads["threads"] = {"messages", "plans", "turns"}
    BY DEF Reads
<1> QED BY <1>1, <1>2 DEF Projectors

LEMMA SameTables ==
    ASSUME NEW x, NEW y, IsTables(x), IsTables(y), x.messages = y.messages,
           x.plans = y.plans, x.turns = y.turns, x.pending = y.pending,
           x.thread = y.thread
    PROVE  x = y
    BY DEF IsTables

\* A build's projectors do to their own rows what live projection does.
LEMMA ProjectAgrees ==
    ASSUME NEW tb, IsTables(tb), NEW lv, IsTables(lv), NEW e,
           NEW build, build \subseteq Projectors, ReadsItsOwn(build),
           Agrees(build, tb, lv)
    PROVE  Agrees(build, Project(build, e, tb), Project(Projectors, e, lv))
<1> DEFINE r == Project(build, e, tb)
           l == Project(Projectors, e, lv)
<1>1. \A p \in {"messages", "plans", "turns", "threads"} : p \in Projectors
    BY DEF Projectors
<1>2. /\ l.messages = MessagesAfter(lv, e).messages
      /\ l.plans = PlansAfter(lv, e).plans
      /\ l.turns = TurnRowsAfter(lv.turns, lv.pending, e)
      /\ l.pending = PendingAfter(lv.pending, e)
    BY <1>1, ProjectIs
<1>3. /\ "messages" \in build => r.messages = MessagesAfter(tb, e).messages
      /\ "plans" \in build => r.plans = PlansAfter(tb, e).plans
      /\ "turns" \in build => /\ r.turns = TurnRowsAfter(tb.turns, tb.pending, e)
                              /\ r.pending = PendingAfter(tb.pending, e)
    BY ProjectIs
<1>4. "threads" \in build => r = l
    <2> SUFFICES ASSUME "threads" \in build PROVE r = l
        OBVIOUS
    <2>1. build = Projectors
        BY OwnReads
    <2>2. tb = lv
        BY <1>1, <2>1, SameTables DEF Agrees
    <2> QED BY <2>1, <2>2
<1> HIDE DEF r, l
<1>5. "messages" \in build => r.messages = l.messages
    <2> SUFFICES ASSUME "messages" \in build PROVE r.messages = l.messages
        OBVIOUS
    <2>1. tb.messages = lv.messages /\ tb.turns = lv.turns
        BY OwnReads DEF Agrees
    <2>2. MessagesAfter(tb, e).messages = MessagesAfter(lv, e).messages
        BY <2>1, MessagesAgree
    <2> QED BY <1>2, <1>3, <2>2
<1>6. "plans" \in build => r.plans = l.plans
    <2> SUFFICES ASSUME "plans" \in build PROVE r.plans = l.plans
        OBVIOUS
    <2>1. tb.plans = lv.plans /\ tb.turns = lv.turns
        BY OwnReads DEF Agrees
    <2>2. PlansAfter(tb, e).plans = PlansAfter(lv, e).plans
        BY <2>1, PlansAgree
    <2> QED BY <1>2, <1>3, <2>2
<1>7. "turns" \in build => r.turns = l.turns /\ r.pending = l.pending
    <2> SUFFICES ASSUME "turns" \in build
                 PROVE  r.turns = l.turns /\ r.pending = l.pending
        OBVIOUS
    <2>1. tb.turns = lv.turns /\ tb.pending = lv.pending
        BY DEF Agrees
    <2> QED BY <1>2, <1>3, <2>1
<1>8. Agrees(build, r, l)
    BY <1>4, <1>5, <1>6, <1>7 DEF Agrees
<1> QED BY <1>8 DEF r, l

\* The tables tb follow the log s, of m events so far, as of the cursors c.
Follows(s, m, c, tb) ==
    /\ \A p \in Projectors : c["threads"] <= c[p]
    /\ tb.messages = At(s, c["messages"]).messages
    /\ tb.plans = At(s, c["plans"]).plans
    /\ tb.turns = At(s, c["turns"]).turns
    /\ tb.pending = At(s, c["turns"]).pending
    /\ tb.thread.latestTurn = At(s, c["threads"]).thread.latestTurn
    /\ \/ SummedUp(tb)
       \/ \E k \in (c["threads"] + 1)..m : s[k].type # "turn-start-requested"

\* The projectors of a build are at the end of the log, and apply one more
\* event.
LEMMA FollowLive ==
    ASSUME NEW S, NEW s \in Seq(S), NEW n \in Nat, n < Len(s),
           NEW c \in [Projectors -> 0..n],
           NEW build, build \subseteq Projectors, ReadsItsOwn(build),
           \A p \in build : c[p] = n,
           NEW tb, IsTables(tb), Follows(s, n, c, tb),
           NEW c2, c2 = [p \in Projectors |-> IF p \in build THEN n + 1 ELSE c[p]],
           NEW r, r = Project(build, s[n + 1], tb)
    PROVE  /\ IsTables(r) /\ Follows(s, n + 1, c2, r)
           /\ c2 \in [Projectors -> 0..(n + 1)]
<1> DEFINE e == s[n + 1]
           lv == At(s, n)
           l == At(s, n + 1)
<1>1. Len(s) \in Nat /\ n \in 0..Len(s) /\ n + 1 \in 1..Len(s) /\ n + 1 \in 0..Len(s)
      /\ (n + 1) - 1 = n
    OBVIOUS
<1>2. l = Project(Projectors, e, lv)
    BY <1>1, AtNext
<1>3. IsTables(lv) /\ SummedUp(lv) /\ IsTables(l) /\ SummedUp(l)
    BY <1>1, AtIsTables
<1>4. r = Project(build, e, tb)
    OBVIOUS
<1> HIDE DEF e, lv, l
<1>5. \A p \in {"messages", "plans", "turns", "threads"} : p \in Projectors
    BY DEF Projectors
<1>6. /\ \A p \in Projectors : c["threads"] <= c[p] /\ c[p] \in 0..n
      /\ c2 \in [Projectors -> 0..(n + 1)]
      /\ \A p \in build : c2[p] = n + 1 /\ c[p] = n /\ p \in Projectors
      /\ \A p \in Projectors : p \notin build => c2[p] = c[p]
    BY DEF Follows
<1>7. Agrees(build, tb, lv)
    <2>1. /\ "messages" \in build => tb.messages = lv.messages
          /\ "plans" \in build => tb.plans = lv.plans
          /\ "turns" \in build => tb.turns = lv.turns /\ tb.pending = lv.pending
        BY <1>6 DEF Follows, lv
    <2>2. ASSUME "threads" \in build PROVE tb.thread = lv.thread
        <3>1. build = Projectors /\ c["threads"] = n
            BY <1>6, <2>2, OwnReads
        <3>2. SummedUp(tb)
            BY <3>1 DEF Follows
        <3>3. Users(tb) = Users(lv) /\ tb.plans = lv.plans
            BY <1>5, <2>1, <3>1, SameUsers
        <3>4. tb.thread.latestTurn = lv.thread.latestTurn
            BY <3>1 DEF Follows, lv
        <3>5. /\ tb.thread.latestUserMessage = lv.thread.latestUserMessage
              /\ tb.thread.hasPlan = lv.thread.hasPlan
            BY <1>3, <3>2, <3>3 DEF SummedUp
        <3>6. /\ tb.thread = [latestTurn |-> tb.thread.latestTurn,
                              latestUserMessage |-> tb.thread.latestUserMessage,
                              hasPlan |-> tb.thread.hasPlan]
              /\ lv.thread = [latestTurn |-> lv.thread.latestTurn,
                              latestUserMessage |-> lv.thread.latestUserMessage,
                              hasPlan |-> lv.thread.hasPlan]
            BY <1>3 DEF IsTables
        <3> QED BY <3>4, <3>5, <3>6
    <2> QED BY <2>1, <2>2 DEF Agrees
<1>8. Agrees(build, r, l)
    BY <1>2, <1>3, <1>4, <1>7, ProjectAgrees
<1>9. /\ IsTables(r)
      /\ "messages" \notin build => r.messages = tb.messages
      /\ "plans" \notin build => r.plans = tb.plans
      /\ "turns" \notin build => r.turns = tb.turns /\ r.pending = tb.pending
      /\ "threads" \notin build => r.thread = tb.thread
      /\ e.type = "turn-start-requested" => r.thread = tb.thread
    BY <1>4, ProjectIs
<1>10. /\ r.messages = At(s, c2["messages"]).messages
       /\ r.plans = At(s, c2["plans"]).plans
       /\ r.turns = At(s, c2["turns"]).turns
       /\ r.pending = At(s, c2["turns"]).pending
    BY <1>5, <1>6, <1>8, <1>9 DEF Agrees, Follows, l
<1>11. r.thread.latestTurn = At(s, c2["threads"]).thread.latestTurn
    BY <1>5, <1>6, <1>8, <1>9 DEF Agrees, Follows, l
<1>12. \A p \in Projectors : c2["threads"] <= c2[p]
    <2>1. CASE "threads" \in build
        BY <1>6, <2>1, OwnReads
    <2>2. CASE "threads" \notin build
        <3>1. c2["threads"] = c["threads"]
            BY <1>5, <1>6, <2>2
        <3>2. ASSUME NEW p \in Projectors PROVE c2["threads"] <= c2[p]
            <4>1. c["threads"] <= c[p] /\ c[p] \in 0..n /\ c["threads"] \in 0..n
                BY <1>5, <1>6
            <4>2. c2[p] = n + 1 \/ c2[p] = c[p]
                BY <1>6
            <4> QED BY <3>1, <4>1, <4>2
        <3> QED BY <3>2
    <2> QED BY <2>1, <2>2
<1>13. \/ SummedUp(r)
       \/ \E k \in (c2["threads"] + 1)..(n + 1) : s[k].type # "turn-start-requested"
    <2>1. CASE "threads" \in build
        <3>1. build = Projectors
            BY <2>1, OwnReads
        <3>2. r.messages = l.messages /\ r.plans = l.plans /\ r.thread = l.thread
            BY <1>5, <1>8, <3>1 DEF Agrees
        <3> QED BY <1>3, <3>2, SameSummary
    <2>2. CASE "threads" \notin build /\ e.type # "turn-start-requested"
        <3>1. n + 1 \in (c2["threads"] + 1)..(n + 1)
            BY <1>5, <1>6, <2>2
        <3> QED BY <2>2, <3>1 DEF e
    <2>3. CASE "threads" \notin build /\ e.type = "turn-start-requested"
        <3>1. MessagesAfter(tb, e) = tb /\ PlansAfter(tb, e) = tb
            BY <2>3 DEF MessagesAfter, PlansAfter
        <3>2. r.messages = tb.messages /\ r.plans = tb.plans /\ r.thread = tb.thread
            BY <1>4, <1>9, <2>3, <3>1, ProjectIs
        <3>3. CASE SummedUp(tb)
            BY <3>2, <3>3, SameSummary
        <3>4. CASE \E k \in (c["threads"] + 1)..n : s[k].type # "turn-start-requested"
            <4>1. PICK k \in (c["threads"] + 1)..n : s[k].type # "turn-start-requested"
                BY <3>4
            <4>2. c2["threads"] = c["threads"] /\ c["threads"] \in 0..n
                BY <1>5, <1>6, <2>3
            <4>3. k \in (c2["threads"] + 1)..(n + 1)
                BY <4>2
            <4> QED BY <4>1, <4>3
        <3> QED BY <3>3, <3>4 DEF Follows
    <2> QED BY <2>1, <2>2, <2>3
<1>14. Follows(s, n + 1, c2, r)
    BY <1>10, <1>11, <1>12, <1>13 DEF Follows
<1> QED BY <1>6, <1>9, <1>14

LEMMA LatestAgrees ==
    ASSUME NEW x, NEW y, NEW latest, NEW e, e.type # "reverted"
    PROVE  LatestAfter(x, latest, e) = LatestAfter(y, latest, e)
<1>1. CASE e.type \in {"session-set", "turn-diff-completed"}
    BY <1>1 DEF LatestAfter
<1>2. CASE e.type \notin {"session-set", "turn-diff-completed"}
    BY <1>2 DEF LatestAfter
<1> QED BY <1>1, <1>2

\* A projector at work at a start applies the next event of its stream; that
\* of the thread's row comes last.
LEMMA FollowBoot ==
    ASSUME NEW S, NEW s \in Seq(S), NEW c \in [Projectors -> 0..Len(s)],
           NEW q \in Projectors, NEW n \in 1..Len(s), n = c[q] + 1,
           s[n].type # "reverted",
           q = "threads" => \A p \in Projectors : p # q => c[p] = Len(s),
           NEW tb, IsTables(tb), Follows(s, Len(s), c, tb),
           NEW c2, c2 = [c EXCEPT ![q] = n],
           NEW r, r = Apply(q, s[n], tb)
    PROVE  Follows(s, Len(s), c2, r)
<1> DEFINE e == s[n]
           m == Len(s)
           lv == At(s, n - 1)
           l == At(s, n)
<1>1. /\ m \in Nat /\ n \in 1..m /\ n \in 0..m /\ n - 1 \in 0..m
      /\ c[q] = n - 1 /\ c[q] \in 0..m
    OBVIOUS
<1>2. l = Project(Projectors, e, lv)
    BY AtNext
<1>3. IsTables(lv) /\ IsTables(l)
    BY <1>1, AtIsTables
<1>4. r = Apply(q, e, tb)
    OBVIOUS
<1>5. \A p \in {"messages", "plans", "turns", "threads"} : p \in Projectors
    BY DEF Projectors
<1> HIDE DEF e, lv, l, m
<1>6. /\ l.messages = MessagesAfter(lv, e).messages
      /\ l.plans = PlansAfter(lv, e).plans
      /\ l.turns = TurnRowsAfter(lv.turns, lv.pending, e)
      /\ l.pending = PendingAfter(lv.pending, e)
      /\ e.type = "turn-start-requested" => l.thread = lv.thread
      /\ e.type # "turn-start-requested" =>
            l.thread.latestTurn = LatestAfter(l.turns, lv.thread.latestTurn, e)
    BY <1>2, <1>3, <1>5, ProjectIs
<1>7. /\ c2[q] = n
      /\ \A p \in Projectors : p # q => c2[p] = c[p]
      /\ \A p \in Projectors : c["threads"] <= c[p] /\ c[p] \in 0..m
    BY DEF Follows, m
<1>8. /\ q # "messages" => r.messages = tb.messages
      /\ q # "plans" => r.plans = tb.plans
      /\ q # "turns" => r.turns = tb.turns /\ r.pending = tb.pending
      /\ q # "threads" => r.thread = tb.thread
    BY <1>4, ApplyKeeps
<1>9. e.type # "reverted"
    BY DEF e
<1>10. r.messages = At(s, c2["messages"]).messages
    <2>1. CASE q = "messages"
        <3>1. tb.messages = lv.messages
            BY <1>1, <2>1 DEF Follows, lv
        <3>2. MessagesAfter(tb, e).messages = MessagesAfter(lv, e).messages
            BY <1>3, <1>9, <3>1, MessagesAgree
        <3>3. r = MessagesAfter(tb, e)
            BY <1>4, <2>1 DEF Apply
        <3> QED BY <1>6, <1>7, <2>1, <3>2, <3>3 DEF l
    <2>2. CASE q # "messages"
        BY <1>5, <1>7, <1>8, <2>2 DEF Follows
    <2> QED BY <2>1, <2>2
<1>11. r.plans = At(s, c2["plans"]).plans
    <2>1. CASE q = "plans"
        <3>1. tb.plans = lv.plans
            BY <1>1, <2>1 DEF Follows, lv
        <3>2. PlansAfter(tb, e).plans = PlansAfter(lv, e).plans
            BY <1>3, <1>9, <3>1, PlansAgree
        <3>3. r = PlansAfter(tb, e)
            BY <1>4, <2>1 DEF Apply
        <3> QED BY <1>6, <1>7, <2>1, <3>2, <3>3 DEF l
    <2>2. CASE q # "plans"
        BY <1>5, <1>7, <1>8, <2>2 DEF Follows
    <2> QED BY <2>1, <2>2
<1>12. /\ r.turns = At(s, c2["turns"]).turns
       /\ r.pending = At(s, c2["turns"]).pending
    <2>1. CASE q = "turns"
        <3>1. tb.turns = lv.turns /\ tb.pending = lv.pending
            BY <1>1, <2>1 DEF Follows, lv
        <3>2. r = TurnsAfter(tb, e)
            BY <1>4, <2>1 DEF Apply
        <3> DEFINE u == TurnRowsAfter(tb.turns, tb.pending, e)
                   w == PendingAfter(tb.pending, e)
        <3>3. r = [messages |-> tb.messages, plans |-> tb.plans, turns |-> u,
                   pending |-> w, thread |-> tb.thread]
            BY <3>2, TurnsProjection
        <3>4. u = l.turns /\ w = l.pending
            BY <1>6, <3>1
        <3> HIDE DEF u, w
        <3>5. r.turns = u /\ r.pending = w
            BY <3>3
        <3> QED BY <1>7, <2>1, <3>4, <3>5 DEF l
    <2>2. CASE q # "turns"
        BY <1>5, <1>7, <1>8, <2>2 DEF Follows
    <2> QED BY <2>1, <2>2
<1>13. \A p \in Projectors : c2["threads"] <= c2[p]
    <2>1. CASE q = "threads"
        BY <1>1, <1>7, <2>1 DEF m
    <2>2. CASE q # "threads"
        <3>1. c2["threads"] = c["threads"] /\ c["threads"] \in 0..m
            BY <1>5, <1>7, <2>2
        <3>2. ASSUME NEW p \in Projectors PROVE c2["threads"] <= c2[p]
            <4>1. CASE p = q
                <5>1. c["threads"] <= c[q]
                    BY <1>7
                <5> QED BY <1>1, <1>7, <3>1, <4>1, <5>1
            <4>2. CASE p # q
                BY <1>7, <3>1, <4>2
            <4> QED BY <4>1, <4>2
        <3> QED BY <3>2
    <2> QED BY <2>1, <2>2
<1>14. ASSUME q # "threads"
       PROVE  /\ r.thread.latestTurn = At(s, c2["threads"]).thread.latestTurn
              /\ \/ SummedUp(r)
                 \/ \E k \in (c2["threads"] + 1)..m : s[k].type # "turn-start-requested"
    <2>1. c2["threads"] = c["threads"] /\ c["threads"] \in 0..m /\ c["threads"] <= n - 1
        BY <1>1, <1>5, <1>7, <1>14
    <2>2. r.thread.latestTurn = At(s, c2["threads"]).thread.latestTurn
        BY <1>8, <1>14, <2>1 DEF Follows
    <2>3. CASE e.type # "turn-start-requested"
        <3>1. n \in (c2["threads"] + 1)..m
            BY <1>1, <2>1
        <3> QED BY <2>2, <2>3, <3>1 DEF e
    <2>4. CASE e.type = "turn-start-requested"
        <3>1. MessagesAfter(tb, e) = tb /\ PlansAfter(tb, e) = tb
            BY <2>4 DEF MessagesAfter, PlansAfter
        <3>2. /\ q = "messages" => r = MessagesAfter(tb, e)
              /\ q = "plans" => r = PlansAfter(tb, e)
            BY <1>4 DEF Apply
        <3>3. r.messages = tb.messages /\ r.plans = tb.plans /\ r.thread = tb.thread
            BY <1>8, <1>14, <3>1, <3>2
        <3>4. SummedUp(tb) => SummedUp(r)
            BY <3>3, SameSummary
        <3> QED BY <2>1, <2>2, <3>4 DEF Follows, m
    <2> QED BY <2>3, <2>4
<1>15. ASSUME q = "threads"
       PROVE  /\ r.thread.latestTurn = At(s, c2["threads"]).thread.latestTurn
              /\ \/ SummedUp(r)
                 \/ \E k \in (c2["threads"] + 1)..m : s[k].type # "turn-start-requested"
    <2>1. r = ThreadsAfter(tb, e)
        BY <1>4, <1>15 DEF Apply
    <2>2. tb.thread.latestTurn = lv.thread.latestTurn
        BY <1>1, <1>15 DEF Follows, lv
    <2>3. CASE e.type = "turn-start-requested"
        <3>1. r = tb
            BY <2>1, <2>3, ThreadsProjection
        <3>2. r.thread.latestTurn = l.thread.latestTurn
            BY <1>6, <2>2, <2>3, <3>1
        <3>3. CASE SummedUp(tb)
            BY <1>7, <1>15, <3>1, <3>2, <3>3 DEF l
        <3>4. CASE \E k \in (c["threads"] + 1)..m : s[k].type # "turn-start-requested"
            <4>1. PICK k \in (c["threads"] + 1)..m : s[k].type # "turn-start-requested"
                BY <3>4
            <4>2. k # n
                BY <2>3, <4>1 DEF e
            <4>3. k \in (n + 1)..m
                BY <1>1, <1>15, <4>2
            <4> QED BY <1>7, <1>15, <3>2, <4>1, <4>3 DEF l
        <3> QED BY <3>3, <3>4 DEF Follows, m
    <2>4. CASE e.type # "turn-start-requested"
        <3> DEFINE latest == LatestAfter(tb.turns, tb.thread.latestTurn, e)
                   most == Max(Users(tb) \cup {0})
        <3>1. r = Refreshed(tb, latest)
            BY <2>1, <2>4, ThreadsProjection
        <3>2. /\ SummedUp(Refreshed(tb, latest))
              /\ Refreshed(tb, latest) =
                   [messages |-> tb.messages, plans |-> tb.plans, turns |-> tb.turns,
                    pending |-> tb.pending,
                    thread |-> [latestTurn |-> latest, latestUserMessage |-> most,
                                hasPlan |-> tb.plans # {}]]
            BY RefreshedIs
        <3>3. latest = LatestAfter(l.turns, lv.thread.latestTurn, e)
            BY <1>9, <2>2, LatestAgrees
        <3> HIDE DEF latest, most
        <3>4. r.thread.latestTurn = latest
            BY <3>1, <3>2
        <3> QED BY <1>6, <1>7, <1>15, <2>4, <3>1, <3>2, <3>3, <3>4 DEF l
    <2> QED BY <2>3, <2>4
<1> QED BY <1>10, <1>11, <1>12, <1>13, <1>14, <1>15 DEF Follows, m

LEMMA FollowsLonger ==
    ASSUME NEW S, NEW s \in Seq(S), NEW T, NEW t \in Seq(T), Len(s) <= Len(t),
           \A i \in 1..Len(s) : t[i] = s[i],
           NEW c \in [Projectors -> 0..Len(s)], NEW tb, Follows(s, Len(s), c, tb)
    PROVE  Follows(t, Len(s), c, tb)
<1>1. \A p \in {"messages", "plans", "turns", "threads"} :
         p \in Projectors /\ c[p] \in 0..Len(s)
    BY DEF Projectors
<1>2. \A n \in 0..Len(s) : At(t, n) = At(s, n)
    BY AtPrefix
<1>3. \A p \in {"messages", "plans", "turns", "threads"} : At(t, c[p]) = At(s, c[p])
    BY <1>1, <1>2
<1>4. \A k \in (c["threads"] + 1)..Len(s) : t[k] = s[k]
    BY <1>1
<1> QED BY <1>3, <1>4 DEF Follows

LEMMA LiveInvIs ==
    LiveInv <=> ReadsItsOwn(installed) /\ Follows(log, Len(log), cursor, tables)
    BY DEF LiveInv, Follows, LiveAt, At

LEMMA CommitOneLive ==
    ASSUME TablesInv, ReadInv, LogInv, LogInv', capped = {}, ~replayed,
           NEW e, CommitOne(e)
    PROVE  LiveInv'
<1>1. PICK S : log \in Seq(S)
    BY DEF LogInv
<1>2. PICK T : log' \in Seq(T)
    BY DEF LogInv
<1> DEFINE n == Len(log)
<1>3. /\ phase = "up"
      /\ Len(log') = n + 1
      /\ \A i \in 1..n : log'[i] = log[i]
      /\ log'[n + 1] = e
      /\ tables' = Project(installed, e, tables)
      /\ cursor' = [p \in Projectors |-> IF p \in installed
                                         THEN n + 1 ELSE cursor[p]]
      /\ installed' = installed
    BY CommitOneIs
<1>4. /\ IsTables(tables) /\ ReadsItsOwn(installed)
      /\ Follows(log, n, cursor, tables)
    BY LiveInvIs DEF TablesInv
<1>5. /\ cursor \in [Projectors -> 0..n] /\ installed \subseteq Projectors
      /\ \A p \in installed : cursor[p] = n
    BY <1>3 DEF ReadInv, UpMeansCaughtUp
<1>6. n \in Nat /\ n < Len(log') /\ n <= Len(log')
    BY <1>3, LengthOfLog
<1>7. Follows(log', n, cursor, tables)
    BY <1>1, <1>2, <1>3, <1>4, <1>5, <1>6, FollowsLonger
<1>8. tables' = Project(installed, log'[n + 1], tables)
    BY <1>3
<1> HIDE DEF n
<1>9. Follows(log', n + 1, cursor', tables')
    BY <1>2, <1>3, <1>4, <1>5, <1>6, <1>7, <1>8, FollowLive
<1>10. Follows(log, Len(log), cursor, tables)'
    BY <1>3, <1>9 DEF Follows, At
<1> QED BY <1>3, <1>4, <1>10, LiveInvIs DEF LiveInv, Follows, LiveAt, At

LEMMA StartTurnLive ==
    ASSUME TablesInv, ReadInv, LogInv, LogInv', capped = {}, ~replayed, StartTurn
    PROVE  LiveInv'
<1>1. PICK S : log \in Seq(S)
    BY DEF LogInv
<1>2. PICK T : log' \in Seq(T)
    BY DEF LogInv
<1> DEFINE n == Len(log)
<1>3. PICK e, f :
      /\ phase = "up"
      /\ Len(log') = n + 2
      /\ \A i \in 1..n : log'[i] = log[i]
      /\ log'[n + 1] = e /\ log'[n + 2] = f
      /\ tables' = Project(installed, f, Project(installed, e, tables))
      /\ cursor' = [p \in Projectors |-> IF p \in installed
                                         THEN n + 2 ELSE cursor[p]]
      /\ installed' = installed
    BY StartTurnIs
<1>4. /\ IsTables(tables) /\ ReadsItsOwn(installed)
      /\ Follows(log, n, cursor, tables)
    BY LiveInvIs DEF TablesInv
<1>5. /\ cursor \in [Projectors -> 0..n] /\ installed \subseteq Projectors
      /\ \A p \in installed : cursor[p] = n
    BY <1>3 DEF ReadInv, UpMeansCaughtUp
<1>6. n \in Nat /\ n + 1 \in Nat /\ n < Len(log') /\ n <= Len(log') /\ n + 1 < Len(log')
    BY <1>3, LengthOfLog
<1>7. Follows(log', n, cursor, tables)
    BY <1>1, <1>2, <1>3, <1>4, <1>5, <1>6, FollowsLonger
<1> DEFINE tb == Project(installed, e, tables)
           c == [p \in Projectors |-> IF p \in installed THEN n + 1 ELSE cursor[p]]
<1>8. tb = Project(installed, log'[n + 1], tables)
    BY <1>3
<1>9. c = [p \in Projectors |-> IF p \in installed THEN n + 1 ELSE cursor[p]]
    OBVIOUS
<1>10. tables' = Project(installed, log'[(n + 1) + 1], tb)
    BY <1>3, <1>6
<1> HIDE DEF n, tb, c
<1>11. IsTables(tb) /\ Follows(log', n + 1, c, tb) /\ c \in [Projectors -> 0..(n + 1)]
    BY <1>2, <1>4, <1>5, <1>6, <1>7, <1>8, <1>9, FollowLive
<1>12. \A p \in installed : c[p] = n + 1
    BY <1>5, <1>9
<1>13. cursor' = [p \in Projectors |-> IF p \in installed THEN (n + 1) + 1 ELSE c[p]]
    BY <1>3, <1>6, <1>9
<1>14. Follows(log', (n + 1) + 1, cursor', tables')
    BY <1>2, <1>4, <1>5, <1>6, <1>10, <1>11, <1>12, <1>13, FollowLive
<1>15. (n + 1) + 1 = Len(log')
    BY <1>3, <1>6
<1>16. Follows(log', Len(log'), cursor', tables')
    BY <1>14, <1>15
<1> QED BY <1>3, <1>4, <1>16 DEF LiveInv, Follows, LiveAt, At

LEMMA BootApplyLive ==
    ASSUME TablesInv, ReadInv, LogInv, capped = {}, ~replayed', BootApply
    PROVE  LiveInv'
<1>1. PICK S : log \in Seq(S)
    BY DEF LogInv
<1>2. PICK q \in Projectors, n \in 1..Len(log) :
         /\ phase = "boot" /\ q = Order[boot.at] /\ n = cursor[q] + 1
         /\ tables' = Apply(q, log[n], tables)
         /\ cursor' = [cursor EXCEPT ![q] = n]
         /\ replayed' = (replayed \/ log[n].type = "reverted")
         /\ UNCHANGED <<log, installed>>
    BY BootApplyIs
<1>3. ~replayed /\ log[n].type # "reverted"
    BY <1>2
<1>4. IsTables(tables) /\ ReadsItsOwn(installed) /\ Follows(log, Len(log), cursor, tables)
    BY <1>3, LiveInvIs DEF TablesInv
<1>5. cursor \in [Projectors -> 0..Len(log)]
    BY DEF ReadInv
<1>6. ASSUME q = "threads", NEW p \in Projectors, p # q
      PROVE  cursor[p] = Len(log)
    <2>1. boot.at \in 1..4
        BY Places DEF ReadInv
    <2>2. boot.at = 4
        <3>1. boot.at # 1 /\ boot.at # 2 /\ boot.at # 3
            BY <1>2, <1>6, Places
        <3> QED BY <2>1, <3>1
    <2>3. PICK i \in 1..4 : Order[i] = p
        BY Places
    <2>4. i # 4
        BY <1>2, <1>6, <2>2, <2>3
    <2>5. i \in 1..(boot.at - 1)
        BY <2>2, <2>4
    <2>6. Done(p)
        BY <1>2, <2>3, <2>5 DEF ReadInv
    <2> QED BY <2>6 DEF Done
<1>7. q = "threads" => \A p \in Projectors : p # q => cursor[p] = Len(log)
    BY <1>6
<1>8. Follows(log, Len(log), cursor', tables')
    BY <1>1, <1>2, <1>3, <1>4, <1>5, <1>7, FollowBoot, ZenonT(40)
<1> QED BY <1>2, <1>4, <1>8 DEF LiveInv, Follows, LiveAt, At

LEMMA TablesStep ==
    ASSUME TablesInv, ReadInv, LogInv, LogInv', Next
    PROVE  TablesInv'
<1>1. IsTables(tables')
    BY ShapeStep DEF TablesInv
<1>2. ASSUME capped' = {}, ~replayed'
      PROVE  LiveInv'
    <2>1. ASSUME NEW e, CommitOne(e) PROVE LiveInv'
        <3>1. capped = {} /\ ~replayed
            BY <1>2, <2>1, CommitOneIs
        <3> QED BY <2>1, <3>1, CommitOneLive
    <2>2. CASE StartTurn
        <3>1. capped = {} /\ ~replayed
            BY <1>2, <2>2, StartTurnIs
        <3> QED BY <2>2, <3>1, StartTurnLive
    <2>3. CASE BootApply
        <3>1. capped = {}
            BY <1>2, <2>3, BootApplyIs
        <3> QED BY <1>2, <2>3, <3>1, BootApplyLive
    <2>4. ASSUME UNCHANGED <<log, cursor, tables>>, ReadsItsOwn(installed'),
                 capped = {}, ~replayed
          PROVE  LiveInv'
        <3>1. LiveInv
            BY <2>4 DEF TablesInv
        <3> QED BY <2>4, <3>1 DEF LiveInv, LiveAt
    <2>5. ASSUME UNCHANGED installed, capped = {}, ~replayed
          PROVE  ReadsItsOwn(installed')
        BY <2>5 DEF TablesInv, LiveInv
    <2>6. CASE Restart
        <3>1. installed' = Projectors /\ capped = {} /\ ~replayed
            BY <1>2, <2>6 DEF Restart
        <3>2. ReadsItsOwn(Projectors)
            BY DEF ReadsItsOwn, Reads, Projectors
        <3>3. ReadsItsOwn(installed')
            BY <3>1, <3>2
        <3> QED BY <2>4, <2>6, <3>1, <3>3, OtherSteps
    <2>7. CASE BootNext
        <3>1. capped = {}
            BY <1>2, <2>7 DEF BootNext
        <3>2. UNCHANGED installed /\ ~replayed
            BY <1>2, <2>7 DEF BootNext
        <3> QED BY <2>4, <2>5, <2>7, <3>1, <3>2, OtherSteps
    <2>8. CASE \/ Upload \/ UNCHANGED <<database, server, uploaded, history>>
               \/ \E count : RevertRollsBack(count)
        <3>1. UNCHANGED <<installed, capped, replayed>>
            BY <2>8 DEF Upload, RevertRollsBack, server, history
        <3> QED BY <1>2, <2>4, <2>5, <2>8, <3>1, OtherSteps
    <2> QED BY <2>1, <2>2, <2>3, <2>6, <2>7, <2>8, Kinds
<1> QED BY <1>1, <1>2 DEF TablesInv

-----------------------------------------------------------------------------
(* Theorems.                                                               *)

BootInv == LogInv /\ ReadInv /\ IsTables(tables) /\ FilesInv

LEMMA BootInit ==
    ASSUME Init
    PROVE  BootInv
<1>1. log = <<>> /\ Len(log) = 0 /\ LogInv
    <2>1. <<>> \in Seq({})
        OBVIOUS
    <2> QED BY <2>1 DEF Init, LogInv
<1>2. ReadInv
    <2>1. installed \subseteq Projectors
        BY BootstrapAssumption DEF Init, BootstrapAssumption
    <2>2. boot.at = 1 /\ 1 \in 1..Len(Order)
        BY Places DEF Init
    <2>3. cursor \in [Projectors -> 0..Len(log)] /\ \A p \in Projectors : cursor[p] = 0
        BY <1>1 DEF Init
    <2>4. applied \in [Projectors -> Seq(Nat)] /\ \A p \in Projectors : applied[p] = <<>>
        BY DEF Init
    <2>5. phase = "up"
        BY DEF Init
    <2>6. AppliedOnceInOrder
        <3>1. Len(<<>>) = 0 /\ DOMAIN <<>> = {}
            OBVIOUS
        <3> QED BY <2>3, <2>4, <3>1 DEF AppliedOnceInOrder
    <2>7. UpMeansCaughtUp
        BY <1>1, <2>1, <2>3 DEF UpMeansCaughtUp
    <2> QED BY <2>1, <2>2, <2>3, <2>4, <2>5, <2>6, <2>7 DEF ReadInv
<1>3. tables = NewTables /\ IsTables(tables)
    BY NewTablesAreTables DEF Init
<1>4. FilesInv
    <2>1. Users(tables) = {}
        <3>1. \A k \in Turns : <<"user", k>> \in Message
            BY DEF Message
        <3>2. NewTables.messages = [m \in Message |-> 0]
            BY DEF NewTables
        <3>3. \A k \in Turns : NewTables.messages[<<"user", k>>] = 0
            BY <3>1, <3>2
        <3> QED BY <1>3, <3>3 DEF Users
    <2>2. uploaded = 0
        BY DEF Init
    <2>3. \A n \in (cursor["messages"] + 1)..Len(log) : FALSE
        BY <1>1 DEF Init, Projectors
    <2> QED BY <2>1, <2>2, <2>3 DEF FilesInv
<1> QED BY <1>1, <1>2, <1>3, <1>4 DEF BootInv

LEMMA BootStep ==
    ASSUME BootInv, [Next]_vars
    PROVE  BootInv'
<1>1. CASE Next
    BY <1>1, LogStep, ReadStep, ShapeStep, FilesStep DEF BootInv
<1>2. CASE UNCHANGED vars
    <2>1. UNCHANGED <<log, cursor, tables, files, phase, installed, boot, uploaded,
                      applied, capped, endangered>>
        BY <1>2 DEF vars, database, server, thread, history
    <2>2. LogInv' /\ ReadInv' /\ FilesInv'
        BY <2>1 DEF BootInv, LogInv, ReadInv, FilesInv, AppliedOnceInOrder,
                    UpMeansCaughtUp, Done
    <2> QED BY <2>1, <2>2 DEF BootInv
<1> QED BY <1>1, <1>2

\* How far each projector has read, what shape the tables have and which files
\* there are: the inductive invariant of the bootstrap and the commits.
THEOREM BootstrapInvariant == Spec => []BootInv
<1>1. Init => BootInv
    BY BootInit
<1>2. BootInv /\ [Next]_vars => BootInv'
    BY BootStep
<1> QED BY <1>1, <1>2, PTL DEF Spec

\* Through any number of crashes in the middle of a start, no projector
\* applies an event twice or out of order, and one leaves out events only
\* where its stream ended at the read limit.
THEOREM EventsAppliedOnce == Spec => []AppliedOnceInOrder
<1>1. BootInv => AppliedOnceInOrder
    BY DEF BootInv, ReadInv
<1> QED BY <1>1, BootstrapInvariant, PTL

\* A server that accepts commands has every projector of its build at the end
\* of the log, but for those the read limit stopped.
THEOREM ServersAreCaughtUp == Spec => []UpMeansCaughtUp
<1>1. BootInv => UpMeansCaughtUp
    BY DEF BootInv, ReadInv
<1> QED BY <1>1, BootstrapInvariant, PTL

\* The file of a message that is shown is on disk, unless a revert that was
\* rolled back, was replayed or met an upload pruned it.
THEOREM FilesAreThere == Spec => []ShownFilesExist
<1>1. BootInv => ShownFilesExist
    BY DEF BootInv, FilesInv, ShownFilesExist
<1> QED BY <1>1, BootstrapInvariant, PTL

LEMMA TablesInit ==
    ASSUME \A build \in OldBuilds : ReadsItsOwn(build), Init
    PROVE  TablesInv
<1>1. log \in Seq({}) /\ Len(log) = 0
    BY DEF Init
<1>2. At(log, 0) = NewTables
    BY <1>1, AtZero
<1>3. /\ \A p \in {"messages", "plans", "turns", "threads"} : cursor[p] = 0
      /\ \A p \in Projectors : cursor[p] = 0
    BY DEF Init, Projectors
<1>4. tables = NewTables /\ IsTables(NewTables) /\ SummedUp(NewTables)
    BY NewTablesAreTables DEF Init
<1>5. ReadsItsOwn(installed)
    BY DEF Init
<1>6. Follows(log, Len(log), cursor, tables)
    BY <1>2, <1>3, <1>4 DEF Follows
<1> QED BY <1>4, <1>5, <1>6, LiveInvIs DEF TablesInv

\* Projectors that catch up one by one, at the start of a build that has more
\* of them, leave the tables live projection would have, as long as no limit
\* and no replayed revert came in between: if every older build had the
\* projectors of all the tables its projectors read.
THEOREM BootstrapIsLive ==
    ASSUME \A build \in OldBuilds : ReadsItsOwn(build)
    PROVE  Spec => []BootstrapMatchesLive
<1>1. Init => TablesInv
    BY TablesInit
<1>2. BootInv /\ BootInv' /\ TablesInv /\ [Next]_vars => TablesInv'
    <2> SUFFICES ASSUME BootInv, BootInv', TablesInv, [Next]_vars
                 PROVE  TablesInv'
        OBVIOUS
    <2>1. CASE Next
        BY <2>1, TablesStep DEF BootInv
    <2>2. CASE UNCHANGED vars
        <3>1. UNCHANGED <<log, cursor, tables, installed, capped, replayed>>
            BY <2>2 DEF vars, database, server, history
        <3> QED BY <3>1 DEF TablesInv, LiveInv, LiveAt
    <2> QED BY <2>1, <2>2
<1>3. BootInv /\ TablesInv => BootstrapMatchesLive
    <2> SUFFICES ASSUME BootInv, TablesInv, phase = "up", installed = Projectors,
                        capped = {}, ~replayed
                 PROVE  tables = Live(log)
        BY DEF BootstrapMatchesLive
    <2>1. PICK S : log \in Seq(S)
        BY DEF BootInv, LogInv
    <2> DEFINE n == Len(log)
               lv == At(log, n)
    <2>2. n \in 0..n /\ SubSeq(log, 1, n) = log
        BY <2>1
    <2>3. lv = Live(log)
        BY <2>2 DEF At
    <2>4. IsTables(lv) /\ SummedUp(lv)
        BY <2>1, <2>2, AtIsTables
    <2>5. \A p \in Projectors : cursor[p] = n
        BY DEF BootInv, ReadInv, UpMeansCaughtUp
    <2>6. Follows(log, n, cursor, tables) /\ IsTables(tables)
        BY LiveInvIs DEF TablesInv
    <2>7. \A p \in {"messages", "plans", "turns", "threads"} : cursor[p] = n
        BY <2>5 DEF Projectors
    <2> HIDE DEF lv
    <2>8. /\ tables.messages = lv.messages /\ tables.plans = lv.plans
          /\ tables.turns = lv.turns /\ tables.pending = lv.pending
          /\ tables.thread.latestTurn = lv.thread.latestTurn
        BY <2>6, <2>7 DEF Follows, lv
    <2>9. SummedUp(tables)
        <3>1. n \in Nat
            BY <2>1
        <3>2. \A k \in (cursor["threads"] + 1)..n : FALSE
            BY <2>7, <3>1
        <3> QED BY <2>6, <3>2 DEF Follows
    <2>10. Users(tables) = Users(lv)
        BY <2>8, SameUsers
    <2>11. /\ tables.thread.latestUserMessage = lv.thread.latestUserMessage
           /\ tables.thread.hasPlan = lv.thread.hasPlan
        BY <2>4, <2>8, <2>9, <2>10 DEF SummedUp
    <2>12. tables.thread = lv.thread
        <3>1. /\ tables.thread = [latestTurn |-> tables.thread.latestTurn,
                        latestUserMessage |-> tables.thread.latestUserMessage,
                        hasPlan |-> tables.thread.hasPlan]
              /\ lv.thread = [latestTurn |-> lv.thread.latestTurn,
                              latestUserMessage |-> lv.thread.latestUserMessage,
                              hasPlan |-> lv.thread.hasPlan]
            BY <2>4, <2>6 DEF IsTables
        <3> QED BY <2>8, <2>11, <3>1
    <2> QED BY <2>3, <2>4, <2>6, <2>8, <2>12, SameTables
<1> QED BY <1>1, <1>2, <1>3, BootstrapInvariant, PTL DEF Spec

-----------------------------------------------------------------------------
(* The tables' types.                                                      *)

LEMMA GreatestNatural ==
    ASSUME NEW S \in SUBSET Nat, S # {}, NEW bound \in Nat, \A n \in S : n <= bound
    PROVE  \E n \in S : \A k \in S : k <= n
<1> DEFINE R == OpToRel(<, Nat)
           B == {b \in Nat : \A n \in S : n <= b}
<1>1. IsWellFoundedOn(R, Nat)
    BY NatLessThanWellFounded
<1>2. \A n, m \in Nat : n < m => <<n, m>> \in R
    BY DEF OpToRel
<1>3. B \subseteq Nat /\ bound \in B
    OBVIOUS
<1> HIDE DEF R
<1>4. PICK b \in B : \A c \in B : ~ (<<c, b>> \in R)
    BY <1>1, <1>3, WFMin
<1>5. ASSUME b \notin S PROVE FALSE
    <2>1. PICK n \in S : TRUE
        OBVIOUS
    <2>2. \A k \in S : k \in Nat /\ k <= b /\ k # b
        BY <1>5
    <2>3. b \in Nat /\ b - 1 \in Nat /\ b - 1 < b
        BY <2>1, <2>2
    <2>4. b - 1 \in B
        BY <2>2, <2>3
    <2> QED BY <1>2, <1>4, <2>3, <2>4
<1> QED BY <1>5

LEMMA TurnsAreBounded ==
    MaxTurns \in Nat /\ Turns \subseteq Nat /\ \A t \in Turns : t <= MaxTurns /\ t # 0
    BY BootstrapAssumption DEF BootstrapAssumption, Turns

\* The latest message is a message.
LEMMA LatestUser ==
    ASSUME NEW tb
    PROVE  Max(Users(tb) \cup {0}) \in 0..MaxTurns
<1> DEFINE S == Users(tb) \cup {0}
<1>0. Users(tb) \subseteq Turns
    BY DEF Users
<1>1. S \in SUBSET Nat /\ S # {} /\ \A n \in S : n <= MaxTurns
    <2>1. \A n \in S : n \in Turns \/ n = 0
        BY <1>0
    <2>2. 0 \in S
        OBVIOUS
    <2> HIDE DEF S
    <2>3. 0 <= MaxTurns
        BY TurnsAreBounded
    <2>4. ASSUME NEW n \in S PROVE n \in Nat /\ n <= MaxTurns
        <3>1. CASE n \in Turns
            BY <3>1, TurnsAreBounded
        <3>2. CASE n = 0
            BY <2>3, <3>2
        <3> QED BY <2>1, <3>1, <3>2
    <2> QED BY <2>2, <2>4
<1> HIDE DEF S
<1>2. \E n \in S : \A k \in S : k <= n
    BY <1>1, GreatestNatural, TurnsAreBounded
<1>3. \E n \in S : \A k \in S : n >= k
    BY <1>1, <1>2
<1>4. Max(S) \in S
    BY <1>3 DEF Max
<1>5. Max(S) \in Nat /\ Max(S) <= MaxTurns
    BY <1>1, <1>4
<1> QED BY <1>5, TurnsAreBounded DEF S

\* tb has its type, and no count above bound.
Typed(tb, bound) == tb \in Tables /\ \A t \in Turns : tb.turns[t].count <= bound

\* e is an event that some thread stores when no count is above bound.
Sound(e, bound) ==
    e \in Event /\ e.count <= bound /\ (e.type = "plan-upserted" => e.turn # 0)

LEMMA TypedIs ==
    ASSUME NEW tb, NEW bound, Typed(tb, bound)
    PROVE  /\ IsTables(tb)
           /\ tb.plans \subseteq Turns /\ tb.turns \in [Turns -> TurnRow]
           /\ tb.pending \in 0..MaxTurns /\ tb.thread.latestTurn \in 0..MaxTurns
           /\ tb.thread.latestUserMessage \in 0..MaxTurns
           /\ tb.thread.hasPlan \in BOOLEAN
<1> DEFINE H == [latestTurn : 0..MaxTurns, latestUserMessage : 0..MaxTurns,
                 hasPlan : BOOLEAN]
<1>1. /\ tb = [messages |-> tb.messages, plans |-> tb.plans, turns |-> tb.turns,
               pending |-> tb.pending, thread |-> tb.thread]
      /\ tb.messages \in [Message -> Nat] /\ tb.plans \in SUBSET Turns
      /\ tb.turns \in [Turns -> TurnRow] /\ tb.pending \in 0..MaxTurns
      /\ tb.thread \in H
    BY DEF Typed, Tables
<1>2. \A h \in H : /\ h = [latestTurn |-> h.latestTurn,
                           latestUserMessage |-> h.latestUserMessage,
                           hasPlan |-> h.hasPlan]
                   /\ h.latestTurn \in 0..MaxTurns /\ h.latestUserMessage \in 0..MaxTurns
                   /\ h.hasPlan \in BOOLEAN
    OBVIOUS
<1> HIDE DEF H
<1> QED BY <1>1, <1>2 DEF IsTables

LEMMA TypedWhen ==
    ASSUME NEW tb, IsTables(tb), NEW bound, tb.plans \subseteq Turns,
           tb.turns \in [Turns -> TurnRow], tb.pending \in 0..MaxTurns,
           tb.thread.latestTurn \in 0..MaxTurns,
           tb.thread.latestUserMessage \in 0..MaxTurns, tb.thread.hasPlan \in BOOLEAN,
           \A t \in Turns : tb.turns[t].count <= bound
    PROVE  Typed(tb, bound)
<1> DEFINE H == [latestTurn : 0..MaxTurns, latestUserMessage : 0..MaxTurns,
                 hasPlan : BOOLEAN]
<1>1. tb.thread \in H
    BY DEF IsTables
<1> HIDE DEF H
<1>2. /\ tb.messages \in [Message -> Nat]
      /\ tb = [messages |-> tb.messages, plans |-> tb.plans, turns |-> tb.turns,
               pending |-> tb.pending, thread |-> tb.thread]
    BY DEF IsTables
<1>3. tb \in [messages : [Message -> Nat], plans : SUBSET Turns,
              turns : [Turns -> TurnRow], pending : 0..MaxTurns, thread : H]
    BY <1>1, <1>2
<1>4. tb \in Tables
    BY <1>3 DEF Tables, H
<1> QED BY <1>4 DEF Typed

\* A row of a turn, after a running session, an answer or a diff, or a diff
\* of another turn.
LEMMA RowChanges ==
    ASSUME NEW x \in TurnRow, NEW y, NEW bound, x.count <= bound
    PROVE  /\ \A q \in 0..MaxTurns :
                y = Running(x, q) => y \in TurnRow /\ y.count <= bound
           /\ y = [x EXCEPT !.known = TRUE] => y \in TurnRow /\ y.count <= bound
           /\ \A c \in 0..MaxTurns :
                y = [x EXCEPT !.known = TRUE, !.count = c] => y \in TurnRow /\ y.count = c
           /\ \A c \in 0..MaxTurns :
                y = [x EXCEPT !.count = c] => y \in TurnRow /\ y.count = c
<1>1. x.message \in 0..MaxTurns
    BY DEF TurnRow
<1> DEFINE k == [x EXCEPT !.known = TRUE]
<1>2. k \in TurnRow /\ k.count = x.count /\ k.message = x.message
    BY DEF TurnRow
<1>3. ASSUME NEW z \in TurnRow, NEW q \in 0..MaxTurns
      PROVE  /\ [z EXCEPT !.message = q] \in TurnRow
             /\ [z EXCEPT !.message = q].count = z.count
             /\ [z EXCEPT !.count = q] \in TurnRow
             /\ [z EXCEPT !.count = q].count = q
    BY DEF TurnRow
<1>4. ASSUME NEW q \in 0..MaxTurns, y = Running(x, q)
      PROVE  y \in TurnRow /\ y.count <= bound
    <2> DEFINE m == IF x.message # 0 THEN x.message ELSE q
    <2>1. y = [k EXCEPT !.message = m]
        BY <1>4 DEF Running
    <2>2. m \in 0..MaxTurns
        BY <1>1
    <2> HIDE DEF k, m
    <2>3. y \in TurnRow /\ y.count = k.count
        BY <1>2, <1>3, <2>1, <2>2
    <2> QED BY <1>2, <2>3
<1>5. ASSUME NEW c \in 0..MaxTurns, y = [x EXCEPT !.known = TRUE, !.count = c]
      PROVE  y \in TurnRow /\ y.count = c
    <2>1. y = [k EXCEPT !.count = c]
        BY <1>5
    <2> HIDE DEF k
    <2> QED BY <1>2, <1>3, <2>1
<1>6. y = k => y \in TurnRow /\ y.count <= bound
    BY <1>2
<1>7. ASSUME NEW c \in 0..MaxTurns, y = [x EXCEPT !.count = c]
      PROVE  y \in TurnRow /\ y.count = c
    BY <1>3, <1>7
<1> QED BY <1>4, <1>5, <1>6, <1>7

LEMMA RowsTyped ==
    ASSUME NEW bound \in Nat, NEW turns \in [Turns -> TurnRow], NEW pending \in 0..MaxTurns,
           \A t \in Turns : turns[t].count <= bound, NEW e, Sound(e, bound)
    PROVE  /\ TurnRowsAfter(turns, pending, e) \in [Turns -> TurnRow]
           /\ \A t \in Turns : TurnRowsAfter(turns, pending, e)[t].count <= bound
           /\ PendingAfter(pending, e) \in 0..MaxTurns
<1> DEFINE u == TurnRowsAfter(turns, pending, e)
<1>1. e.turn \in 0..MaxTurns /\ e.count \in 0..MaxTurns /\ e.count <= bound
    BY DEF Sound, Event
<1>2. PendingAfter(pending, e) \in 0..MaxTurns
    BY <1>1, TurnsAreBounded DEF PendingAfter
<1>3. \A t \in Turns : /\ turns[t] \in TurnRow
                       /\ turns[t].known \in BOOLEAN /\ turns[t].message \in 0..MaxTurns
                       /\ turns[t].count \in 0..MaxTurns /\ turns[t].count <= bound
    BY DEF TurnRow
<1>4. NoTurn \in TurnRow /\ NoTurn.count <= bound
    BY TurnsAreBounded DEF NoTurn, TurnRow
<1>6. CASE e.type = "session-set" /\ e.turn # 0
    <2>1. u = [turns EXCEPT ![e.turn] = Running(@, pending)]
        BY <1>6 DEF TurnRowsAfter
    <2>2. /\ \A t \in Turns : u[t] = IF t = e.turn THEN Running(turns[t], pending)
                                     ELSE turns[t]
          /\ u = [t \in Turns |-> u[t]]
        BY <2>1
    <2> HIDE DEF u
    <2>3. \A t \in Turns : u[t] \in TurnRow /\ u[t].count <= bound
        <3> TAKE t \in Turns
        <3>1. CASE t = e.turn
            <4>1. u[t] = Running(turns[t], pending)
                BY <2>2, <3>1
            <4> QED BY <1>3, <4>1, RowChanges
        <3>2. CASE t # e.turn
            BY <1>3, <2>2, <3>2
        <3> QED BY <3>1, <3>2
    <2> QED BY <1>2, <2>2, <2>3 DEF u
<1>7. CASE e.type = "assistant-message"
    <2>1. u = [turns EXCEPT ![e.turn].known = TRUE]
        BY <1>7 DEF TurnRowsAfter
    <2>2. \A t \in Turns : u[t] = IF t = e.turn THEN [turns[t] EXCEPT !.known = TRUE]
                                  ELSE turns[t]
        BY <2>1
    <2>3. u = [t \in Turns |-> u[t]]
        BY <2>1
    <2> HIDE DEF u
    <2>4. \A t \in Turns : u[t] \in TurnRow /\ u[t].count <= bound
        <3> TAKE t \in Turns
        <3>1. CASE t = e.turn
            <4>1. u[t] = [turns[t] EXCEPT !.known = TRUE]
                BY <2>2, <3>1
            <4> QED BY <1>3, <4>1, RowChanges
        <3>2. CASE t # e.turn
            BY <1>3, <2>2, <3>2
        <3> QED BY <3>1, <3>2
    <2> QED BY <1>2, <2>3, <2>4 DEF u
<1>8. CASE e.type = "turn-diff-completed"
    <2>1. u = [t \in Turns |->
                 IF t = e.turn
                 THEN [turns[t] EXCEPT !.known = TRUE, !.count = e.count]
                 ELSE [turns[t] EXCEPT !.count = IF @ = e.count THEN 0 ELSE @]]
        BY <1>8 DEF TurnRowsAfter
    <2>2. \A t \in Turns :
             u[t] = IF t = e.turn
                    THEN [turns[t] EXCEPT !.known = TRUE, !.count = e.count]
                    ELSE [turns[t] EXCEPT !.count = IF @ = e.count THEN 0 ELSE @]
        BY <2>1
    <2>3. u = [t \in Turns |-> u[t]]
        BY <2>1
    <2> HIDE DEF u
    <2>4. \A t \in Turns : u[t] \in TurnRow /\ u[t].count <= bound
        <3> TAKE t \in Turns
        <3>1. CASE t = e.turn
            <4>1. u[t] = [turns[t] EXCEPT !.known = TRUE, !.count = e.count]
                BY <2>2, <3>1
            <4> DEFINE c == e.count
            <4>2. u[t] = [turns[t] EXCEPT !.known = TRUE, !.count = c]
                BY <4>1
            <4>3. c \in 0..MaxTurns /\ c <= bound
                BY <1>1
            <4> HIDE DEF c
            <4>4. u[t] \in TurnRow /\ u[t].count = c
                BY <1>3, <4>2, <4>3, RowChanges
            <4> QED BY <4>3, <4>4
        <3>2. CASE t # e.turn
            <4> DEFINE c == IF turns[t].count = e.count THEN 0 ELSE turns[t].count
            <4>1. c \in 0..MaxTurns /\ c <= bound
                BY <1>3, TurnsAreBounded
            <4>2. u[t] = [turns[t] EXCEPT !.count = c]
                BY <2>2, <3>2
            <4> HIDE DEF c
            <4>3. u[t] \in TurnRow /\ u[t].count = c
                BY <1>3, <4>1, <4>2, RowChanges
            <4> QED BY <4>1, <4>3
        <3> QED BY <3>1, <3>2
    <2> QED BY <1>2, <2>3, <2>4 DEF u
<1>9. CASE e.type = "reverted"
    <2>1. u = [t \in Turns |-> IF turns[t].count \in 1..e.count
                               THEN turns[t] ELSE NoTurn]
        BY <1>9 DEF TurnRowsAfter
    <2> HIDE DEF u
    <2> QED BY <1>2, <1>3, <1>4, <2>1 DEF u
<1>10. CASE /\ e.type \notin {"assistant-message", "turn-diff-completed", "reverted"}
            /\ ~ (e.type = "session-set" /\ e.turn # 0)
    <2>1. u = turns
        BY <1>10 DEF TurnRowsAfter
    <2> HIDE DEF u
    <2> QED BY <1>2, <2>1 DEF u
<1> QED BY <1>6, <1>7, <1>8, <1>9, <1>10

LEMMA LatestTyped ==
    ASSUME NEW bound, NEW turns \in [Turns -> TurnRow], NEW latest \in 0..MaxTurns,
           NEW e, Sound(e, bound)
    PROVE  LatestAfter(turns, latest, e) \in 0..MaxTurns
<1>1. e.turn \in 0..MaxTurns
    BY DEF Sound, Event
<1>2. CASE e.type \in {"session-set", "turn-diff-completed"}
    BY <1>1, <1>2 DEF LatestAfter
<1>3. CASE e.type = "reverted"
    <2> DEFINE kept == {t \in Turns : turns[t].count \in 1..e.count}
               counts == {turns[t].count : t \in kept}
    <2>1. \A t \in Turns : turns[t].count \in Nat /\ turns[t].count <= MaxTurns
        BY TurnsAreBounded DEF TurnRow
    <2>2. LatestAfter(turns, latest, e) =
             IF kept = {} THEN 0
             ELSE CHOOSE t \in kept : \A u \in kept : turns[u].count <= turns[t].count
        BY <1>3 DEF LatestAfter
    <2>3. CASE kept = {}
        BY <2>2, <2>3, TurnsAreBounded
    <2>4. CASE kept # {}
        <3>1. counts \in SUBSET Nat /\ counts # {} /\ \A n \in counts : n <= MaxTurns
            BY <2>1, <2>4
        <3>2. PICK n \in counts : \A k \in counts : k <= n
            <4> HIDE DEF counts
            <4> QED BY <3>1, GreatestNatural, TurnsAreBounded
        <3>3. PICK t \in kept : n = turns[t].count
            OBVIOUS
        <3>4. \A u \in kept : turns[u].count <= turns[t].count
            BY <3>2, <3>3
        <3>5. kept \subseteq Turns
            OBVIOUS
        <3> HIDE DEF kept, counts
        <3>6. LatestAfter(turns, latest, e) \in kept
            BY <2>2, <2>4, <3>4
        <3>7. LatestAfter(turns, latest, e) \in Turns
            BY <3>5, <3>6
        <3> DEFINE l == LatestAfter(turns, latest, e)
        <3>8. l \in Turns
            BY <3>7
        <3> HIDE DEF l
        <3>9. l \in 0..MaxTurns
            BY <3>8, TurnsAreBounded
        <3> QED BY <3>9 DEF l
    <2> QED BY <2>3, <2>4
<1>4. CASE e.type \notin {"session-set", "turn-diff-completed", "reverted"}
    BY <1>4 DEF LatestAfter
<1> QED BY <1>2, <1>3, <1>4

\* A projector keeps the types, and adds no count but the event's.
LEMMA ApplyTyped ==
    ASSUME NEW bound \in Nat, NEW tb, Typed(tb, bound), NEW e, Sound(e, bound),
           NEW p \in Projectors
    PROVE  Typed(Apply(p, e, tb), bound)
<1> DEFINE r == Apply(p, e, tb)
<1>1. /\ IsTables(tb) /\ tb.plans \subseteq Turns /\ tb.turns \in [Turns -> TurnRow]
      /\ tb.pending \in 0..MaxTurns /\ tb.thread.latestTurn \in 0..MaxTurns
      /\ tb.thread.latestUserMessage \in 0..MaxTurns /\ tb.thread.hasPlan \in BOOLEAN
      /\ \A t \in Turns : tb.turns[t].count <= bound
    BY TypedIs DEF Typed
<1>2. /\ IsTables(r)
      /\ p # "plans" => r.plans = tb.plans
      /\ p # "turns" => r.turns = tb.turns /\ r.pending = tb.pending
      /\ p # "threads" => r.thread = tb.thread
    BY <1>1, ApplyKeeps
<1>3. CASE p = "messages"
    <2> HIDE DEF r
    <2>1. r.plans = tb.plans /\ r.turns = tb.turns /\ r.pending = tb.pending
          /\ r.thread = tb.thread
        BY <1>2, <1>3
    <2> QED BY <1>1, <1>2, <2>1, TypedWhen DEF r
<1>4. CASE p = "plans"
    <2>1. r = PlansAfter(tb, e)
        BY <1>4 DEF Apply
    <2>2. r.plans \subseteq Turns
        <3>0. "plans" \in DOMAIN tb
            BY <1>1 DEF IsTables
        <3>1. CASE e.type = "plan-upserted"
            <4>1. r = [tb EXCEPT !.plans = tb.plans \cup {e.turn}]
                BY <2>1, <3>1 DEF PlansAfter
            <4>2. e.turn \in Turns
                BY <3>1, TurnsAreBounded DEF Sound, Event, Turns
            <4> HIDE DEF r
            <4> QED BY <1>1, <3>0, <4>1, <4>2
        <3>2. CASE e.type = "reverted"
            <4>1. r = [tb EXCEPT !.plans = tb.plans \cap KeptTurns(tb, e.count)]
                BY <2>1, <3>2 DEF PlansAfter
            <4> HIDE DEF r
            <4> QED BY <1>1, <3>0, <4>1
        <3>3. CASE e.type \notin {"plan-upserted", "reverted"}
            <4>1. r = tb
                BY <2>1, <3>3 DEF PlansAfter
            <4> HIDE DEF r
            <4> QED BY <1>1, <4>1
        <3> QED BY <3>1, <3>2, <3>3
    <2> HIDE DEF r
    <2>3. r.turns = tb.turns /\ r.pending = tb.pending /\ r.thread = tb.thread
        BY <1>2, <1>4
    <2> QED BY <1>1, <1>2, <2>2, <2>3, TypedWhen DEF r
<1>5. CASE p = "turns"
    <2> DEFINE u == TurnRowsAfter(tb.turns, tb.pending, e)
               q == PendingAfter(tb.pending, e)
    <2>1. r = TurnsAfter(tb, e)
        BY <1>5 DEF Apply
    <2>2. u \in [Turns -> TurnRow] /\ (\A t \in Turns : u[t].count <= bound)
          /\ q \in 0..MaxTurns
        BY <1>1, RowsTyped
    <2>3. TurnsAfter(tb, e) = [messages |-> tb.messages, plans |-> tb.plans,
                               turns |-> u, pending |-> q, thread |-> tb.thread]
        BY <1>1, TurnsProjection
    <2> HIDE DEF r, u, q
    <2>4. r.turns = u /\ r.pending = q /\ r.plans = tb.plans /\ r.thread = tb.thread
        BY <2>1, <2>3
    <2> QED BY <1>1, <1>2, <2>2, <2>4, TypedWhen DEF r
<1>6. CASE p = "threads"
    <2> DEFINE latest == LatestAfter(tb.turns, tb.thread.latestTurn, e)
               most == Max(Users(tb) \cup {0})
    <2>1. r = ThreadsAfter(tb, e)
        BY <1>6 DEF Apply
    <2>2. CASE e.type = "turn-start-requested"
        <3>1. r = tb
            BY <1>1, <2>1, <2>2, ThreadsProjection
        <3> HIDE DEF r
        <3> QED BY <3>1 DEF r
    <2>3. CASE e.type # "turn-start-requested"
        <3>1. latest \in 0..MaxTurns /\ most \in 0..MaxTurns
            BY <1>1, LatestTyped, LatestUser
        <3>2. r = Refreshed(tb, latest)
            BY <1>1, <2>1, <2>3, ThreadsProjection
        <3>3. Refreshed(tb, latest) =
                [messages |-> tb.messages, plans |-> tb.plans, turns |-> tb.turns,
                 pending |-> tb.pending,
                 thread |-> [latestTurn |-> latest, latestUserMessage |-> most,
                             hasPlan |-> tb.plans # {}]]
            BY <1>1, RefreshedIs
        <3> HIDE DEF r, latest, most
        <3>4. /\ r.plans = tb.plans /\ r.turns = tb.turns /\ r.pending = tb.pending
              /\ r.thread.latestTurn = latest /\ r.thread.latestUserMessage = most
              /\ r.thread.hasPlan = (tb.plans # {})
            BY <3>2, <3>3
        <3> QED BY <1>1, <1>2, <3>1, <3>4, TypedWhen DEF r
    <2> QED BY <2>2, <2>3
<1> QED BY <1>3, <1>4, <1>5, <1>6 DEF Projectors

LEMMA ProjectTyped ==
    ASSUME NEW bound \in Nat, NEW tb, Typed(tb, bound), NEW e, Sound(e, bound), NEW build
    PROVE  Typed(Project(build, e, tb), bound)
<1>1. ASSUME NEW x, Typed(x, bound), NEW p \in Projectors
      PROVE  Typed(ApplyIn(build, p, e, x), bound)
    BY <1>1, ApplyTyped DEF ApplyIn
<1> DEFINE first == ApplyIn(build, Order[1], e, tb)
           second == ApplyIn(build, Order[2], e, first)
           third == ApplyIn(build, Order[3], e, second)
<1>2. \A i \in 1..4 : Order[i] \in Projectors
    BY DEF Order, Projectors
<1>3. Typed(first, bound)
    BY <1>1, <1>2
<1> HIDE DEF first
<1>4. Typed(second, bound)
    BY <1>1, <1>2, <1>3
<1> HIDE DEF second
<1>5. Typed(third, bound)
    BY <1>1, <1>2, <1>4
<1> HIDE DEF third
<1>6. Typed(ApplyIn(build, Order[4], e, third), bound)
    BY <1>1, <1>2, <1>5
<1> QED BY <1>6 DEF Project, first, second, third

LEMMA NewTyped ==
    ASSUME NEW bound \in Nat
    PROVE  Typed(NewTables, bound)
<1> DEFINE m == [x \in Message |-> 0]
           h == [latestTurn |-> 0, latestUserMessage |-> 0, hasPlan |-> FALSE]
           u == [t \in Turns |-> NoTurn]
<1>1. NewTables = [messages |-> m, plans |-> {}, turns |-> u, pending |-> 0, thread |-> h]
    BY DEF NewTables
<1>2. u \in [Turns -> TurnRow] /\ \A t \in Turns : u[t].count <= bound
    BY TurnsAreBounded DEF NoTurn, TurnRow
<1>3. /\ h.latestTurn \in 0..MaxTurns /\ h.latestUserMessage \in 0..MaxTurns
      /\ h.hasPlan \in BOOLEAN /\ 0 \in 0..MaxTurns
    BY TurnsAreBounded
<1> HIDE DEF m, h, u
<1>4. /\ NewTables.plans = {} /\ NewTables.turns = u /\ NewTables.pending = 0
      /\ NewTables.thread = h
    BY <1>1
<1> QED BY <1>2, <1>3, <1>4, NewTablesAreTables, TypedWhen

\* The events of s, in a thread with no count above bound.
LogSound(s, bound) == s \in Seq(Event) /\ \A n \in DOMAIN s : Sound(s[n], bound)

LEMMA LiveTyped ==
    ASSUME NEW bound \in Nat, NEW s, LogSound(s, bound)
    PROVE  Typed(Live(s), bound)
<1> DEFINE G == {n \in Nat : n <= Len(s) => Typed(At(s, n), bound)}
<1>0. s \in Seq(Event) /\ Len(s) \in Nat /\ DOMAIN s = 1..Len(s)
    BY DEF LogSound
<1>1. 0 \in G
    BY <1>0, AtZero, NewTyped
<1>2. ASSUME NEW n \in G PROVE n + 1 \in G
    <2> SUFFICES ASSUME n + 1 <= Len(s) PROVE Typed(At(s, n + 1), bound)
        OBVIOUS
    <2>1. n + 1 \in 1..Len(s) /\ (n + 1) - 1 = n /\ n <= Len(s)
        BY <1>0
    <2>2. At(s, n + 1) = Project(Projectors, s[n + 1], At(s, n))
        BY <1>0, <2>1, AtNext
    <2>3. Typed(At(s, n), bound) /\ Sound(s[n + 1], bound)
        BY <1>0, <2>1 DEF LogSound
    <2> QED BY <2>2, <2>3, ProjectTyped
<1>3. Len(s) \in G
    <2> HIDE DEF G
    <2>1. G \in SUBSET Nat
        BY DEF G
    <2> QED BY <1>0, <1>1, <1>2, <2>1, SetInduction
<1>4. Typed(At(s, Len(s)), bound)
    BY <1>0, <1>3
<1>5. SubSeq(s, 1, Len(s)) = s
    BY <1>0
<1> QED BY <1>4, <1>5 DEF At

-----------------------------------------------------------------------------
(* How often something was stored.                                         *)

Times(s, type) == Cardinality({n \in DOMAIN s : s[n].type = type})

LEMMA TimesType ==
    ASSUME NEW S, NEW s \in Seq(S), NEW type
    PROVE  Times(s, type) \in Nat
<1> DEFINE N == {n \in DOMAIN s : s[n].type = type}
<1>1. DOMAIN s = 1..Len(s) /\ Len(s) \in Nat
    OBVIOUS
<1>2. IsFiniteSet(1..Len(s))
    BY <1>1, FS_Interval
<1>3. N \in SUBSET (1..Len(s))
    BY <1>1
<1> HIDE DEF N
<1>4. Cardinality(N) \in Nat
    BY <1>2, <1>3, FS_Subset, FS_CardinalityType
<1> QED BY <1>4 DEF Times, N

LEMMA TimesLonger ==
    ASSUME NEW S, NEW s \in Seq(S), NEW T, NEW t \in Seq(T), Len(t) = Len(s) + 1,
           \A i \in 1..Len(s) : t[i] = s[i], NEW type
    PROVE  Times(t, type) = Times(s, type)
                              + (IF t[Len(s) + 1].type = type THEN 1 ELSE 0)
<1> DEFINE N == {n \in DOMAIN s : s[n].type = type}
           M == {n \in DOMAIN t : t[n].type = type}
           l == Len(s) + 1
<1>1. /\ DOMAIN s = 1..Len(s) /\ Len(s) \in Nat /\ DOMAIN t = 1..l
      /\ l \in 1..l /\ l \notin 1..Len(s) /\ 1..l = 1..Len(s) \cup {l}
    OBVIOUS
<1>2. IsFiniteSet(1..Len(s)) /\ N \in SUBSET (1..Len(s))
    BY <1>1, FS_Interval
<1>3. M = IF t[l].type = type THEN N \cup {l} ELSE N
    BY <1>1
<1>4. l \notin N
    BY <1>1
<1> HIDE DEF N, M, l
<1>5. IsFiniteSet(N) /\ Cardinality(N) \in Nat
    BY <1>2, FS_Subset, FS_CardinalityType
<1>6. Cardinality(M) = Cardinality(N) + (IF t[l].type = type THEN 1 ELSE 0)
    <2>1. Cardinality(N \cup {l}) = Cardinality(N) + 1
        BY <1>4, <1>5, FS_AddElement
    <2>2. CASE t[l].type = type
        BY <1>3, <2>1, <2>2
    <2>3. CASE t[l].type # type
        BY <1>3, <1>5, <2>3
    <2> QED BY <2>2, <2>3
<1> QED BY <1>6 DEF Times, N, M, l

-----------------------------------------------------------------------------
(* Types and counts of the whole.                                          *)

Started == Times(log, "user-message")
Captured == Times(log, "turn-diff-completed")

DataOK ==
    /\ LogSound(log, Captured) /\ Typed(tables, Captured)
    /\ applied \in [Projectors -> Seq(1..Len(log))]
    /\ files \subseteq Turns /\ endangered \subseteq Turns
    /\ capped \subseteq Projectors /\ replayed \in BOOLEAN

ServerOK ==
    /\ boot \in [at : 1..Len(Order), left : 0..ReadLimit]
    /\ faults \in [restarts : 0..MaxRestarts, rollBacks : 0..MaxRollBacks]

ThreadOK ==
    /\ uploaded \in 0..MaxTurns
    /\ stage \in [turn : 0..MaxTurns, at : {"idle", "requested", "running", "ended"},
                  chunks : 0..MaxChunks]
    /\ Started <= MaxTurns
    /\ Captured + (IF stage.at = "idle" THEN 0 ELSE 1) <= Started
    /\ uploaded # 0 => uploaded = Started + 1
    /\ stage.at # "idle" => stage.turn # 0

TypedInv == DataOK /\ ServerOK /\ ThreadOK

LEMMA TypedInvIs ==
    ASSUME ReadInv
    PROVE  TypedInv <=> TypeOK /\ CountsInv
<1>1. Stored("user-message") = Started /\ Stored("turn-diff-completed") = Captured
    BY DEF Stored, Started, Captured, Times
<1>2. /\ cursor \in [Projectors -> 0..Len(log)]
      /\ phase \in {"up", "boot"} /\ installed \subseteq Projectors
    BY DEF ReadInv
<1>3. LogSound(log, Captured) <=>
        /\ log \in Seq(Event)
        /\ \A n \in DOMAIN log :
              /\ log[n].count <= Captured
              /\ log[n].type = "plan-upserted" => log[n].turn # 0
    BY DEF LogSound, Sound
<1>4. ASSUME TypedInv PROVE TypeOK /\ CountsInv
    <2>1. TypeOK
        BY <1>2, <1>3, <1>4 DEF TypedInv, DataOK, ServerOK, ThreadOK, TypeOK, Typed
    <2>2. uploaded # 0 => uploaded <= MaxTurns
        BY <1>4, TurnsAreBounded DEF TypedInv, ThreadOK
    <2>3. CountsInv
        BY <1>1, <1>3, <1>4, <2>2 DEF TypedInv, DataOK, ThreadOK, Typed, CountsInv
    <2> QED BY <2>1, <2>3
<1>5. ASSUME TypeOK, CountsInv PROVE TypedInv
    <2>1. DataOK
        BY <1>1, <1>3, <1>5 DEF DataOK, TypeOK, CountsInv, Typed
    <2>2. ServerOK /\ ThreadOK
        BY <1>1, <1>5 DEF ServerOK, ThreadOK, TypeOK, CountsInv
    <2> QED BY <2>1, <2>2 DEF TypedInv
<1> QED BY <1>4, <1>5

LEMMA SoundMore ==
    ASSUME NEW e, NEW b \in Nat, Sound(e, b), NEW c \in Nat, b <= c
    PROVE  Sound(e, c)
    BY TurnsAreBounded DEF Sound, Event

LEMMA TypedMore ==
    ASSUME NEW tb, NEW b \in Nat, Typed(tb, b), NEW c \in Nat, b <= c
    PROVE  Typed(tb, c)
<1>1. \A t \in Turns : tb.turns[t].count \in Nat
    BY TypedIs, TurnsAreBounded DEF TurnRow
<1> QED BY <1>1 DEF Typed

\* The log t is s and one more event e.
Extends(t, s, e) ==
    /\ t \in Seq(Event) /\ Len(t) = Len(s) + 1
    /\ \A i \in 1..Len(s) : t[i] = s[i]
    /\ t[Len(s) + 1] = e

LEMMA LogMore ==
    ASSUME NEW s, NEW b \in Nat, LogSound(s, b), NEW c \in Nat, b <= c,
           NEW e, Sound(e, c), NEW t, t = s \o <<e>>
    PROVE  Extends(t, s, e) /\ LogSound(t, c)
<1>1. s \in Seq(Event) /\ DOMAIN s = 1..Len(s) /\ Len(s) \in Nat /\ e \in Event
    BY DEF LogSound, Sound
<1>2. /\ t \in Seq(Event) /\ Len(t) = Len(s) + 1
      /\ \A i \in 1..Len(s) : t[i] = s[i]
      /\ t[Len(s) + 1] = e
    BY <1>1
<1>3. \A i \in 1..Len(s) : Sound(t[i], c)
    BY <1>1, <1>2, SoundMore DEF LogSound
<1>4. DOMAIN t = 1..(Len(s) + 1)
    BY <1>2
<1>5. \A n \in DOMAIN t : Sound(t[n], c)
    BY <1>1, <1>2, <1>3, <1>4
<1> QED BY <1>2, <1>5 DEF LogSound, Extends

LEMMA AppliedLonger ==
    ASSUME NEW n \in Nat, NEW a \in Seq(1..n), NEW T, NEW d \in Seq(T)
    PROVE  /\ a \o [i \in DOMAIN d |-> n + i] \in Seq(1..(n + Len(d)))
           /\ a \in Seq(1..(n + Len(d)))
<1>1. DOMAIN d = 1..Len(d) /\ Len(d) \in Nat
    OBVIOUS
<1> DEFINE m == n + Len(d)
           b == [i \in DOMAIN d |-> n + i]
<1>2. 1..n \subseteq 1..m /\ \A i \in 1..Len(d) : n + i \in 1..m
    BY <1>1
<1>3. b \in Seq(1..m)
    BY <1>1, <1>2
<1>4. a \in Seq(1..m)
    BY <1>2
<1> HIDE DEF b, m
<1>5. a \o b \in Seq(1..m)
    BY <1>3, <1>4
<1> QED BY <1>4, <1>5 DEF b, m

\* What a command leaves of the history of projections.
LEMMA CommitApplied ==
    ASSUME NEW T, NEW d \in Seq(T), Commit(d), LogInv,
           applied \in [Projectors -> Seq(1..Len(log))], Len(log') = Len(log) + Len(d)
    PROVE  applied' \in [Projectors -> Seq(1..Len(log'))]
<1> DEFINE n == Len(log)
<1>1. n \in Nat
    BY LengthOfLog
<1>2. applied' = [p \in Projectors |->
                    IF p \in installed THEN applied[p] \o [i \in DOMAIN d |-> n + i]
                    ELSE applied[p]]
    BY DEF Commit, CommitAt
<1>3. \A p \in Projectors : applied[p] \in Seq(1..n)
    OBVIOUS
<1> HIDE DEF n
<1>4. \A p \in Projectors :
         /\ applied[p] \o [i \in DOMAIN d |-> n + i] \in Seq(1..(n + Len(d)))
         /\ applied[p] \in Seq(1..(n + Len(d)))
    BY <1>1, <1>3, AppliedLonger
<1>5. Len(log') = n + Len(d)
    BY DEF n
<1> QED BY <1>2, <1>4, <1>5

LEMMA CountsOfLog ==
    ASSUME DataOK
    PROVE  /\ log \in Seq(Event) /\ Started \in Nat /\ Captured \in Nat
    BY TimesType DEF DataOK, LogSound, Started, Captured

LEMMA CommitOneTyped ==
    ASSUME LogInv, DataOK, NEW e, CommitOne(e), NEW bound,
           bound = Captured + (IF e.type = "turn-diff-completed" THEN 1 ELSE 0),
           Sound(e, bound)
    PROVE  /\ DataOK' /\ Started' = Started /\ Captured' = bound
           /\ UNCHANGED <<boot, faults, uploaded>>
<1>1. /\ log \in Seq(Event) /\ Captured \in Nat /\ bound \in Nat /\ Captured <= bound
    BY CountsOfLog
<1>2. Commit(<<e>>) /\ log' = log \o <<e>> /\ e.type # "user-message"
    BY DEF CommitOne, Commit, CommitAt
<1>3. /\ log' \in Seq(Event) /\ Len(log') = Len(log) + 1
      /\ \A i \in 1..Len(log) : log'[i] = log[i]
      /\ log'[Len(log) + 1] = e
      /\ LogSound(log', bound)
    <2> DEFINE b == Captured
    <2>1. LogSound(log, b) /\ b \in Nat /\ b <= bound
        BY <1>1 DEF DataOK
    <2> HIDE DEF b
    <2>2. log' = log \o <<e>>
        BY <1>2
    <2>3. Extends(log', log, e) /\ LogSound(log', bound)
        BY <1>1, <2>1, <2>2, LogMore
    <2> QED BY <2>3 DEF Extends
<1>4. Started' = Started /\ Captured' = bound
    <2>1. \A type : Times(log', type) = Times(log, type)
                                          + (IF e.type = type THEN 1 ELSE 0)
        <3> TAKE type
        <3>1. Times(log', type) = Times(log, type)
                                    + (IF log'[Len(log) + 1].type = type THEN 1 ELSE 0)
            BY <1>1, <1>3, TimesLonger
        <3> QED BY <1>3, <3>1
    <2>2. Times(log', "user-message") = Times(log, "user-message") + 0
        BY <1>2, <2>1
    <2>3. Times(log', "turn-diff-completed") = bound
        BY <2>1 DEF Captured
    <2>4. Started \in Nat
        BY CountsOfLog
    <2> QED BY <2>2, <2>3, <2>4 DEF Started, Captured
<1>5. tables' = Project(installed, e, tables)
    BY CommitOneIs
<1>6. Typed(tables', bound)
    BY <1>1, <1>5, TypedMore, ProjectTyped DEF DataOK
<1>7. applied' \in [Projectors -> Seq(1..Len(log'))]
    <2>1. <<e>> \in Seq({e}) /\ Len(<<e>>) = 1
        OBVIOUS
    <2> QED BY <1>2, <1>3, <2>1, CommitApplied DEF DataOK
<1>8. /\ files' = files \ RemovedBy(e)
      /\ endangered' = endangered \cup (RemovedBy(e) \cap {uploaded})
      /\ UNCHANGED <<capped, replayed, boot, uploaded>>
    BY CommitOneIs
<1>9. RemovedBy(e) \subseteq files
    BY DEF RemovedBy, Pruned
<1>10. UNCHANGED faults
    BY <1>2 DEF Commit, CommitAt
<1> QED BY <1>3, <1>4, <1>6, <1>7, <1>8, <1>9, <1>10 DEF DataOK

LEMMA StartTurnTyped ==
    ASSUME LogInv, DataOK, StartTurn, uploaded \in 0..MaxTurns
    PROVE  /\ DataOK' /\ Started' = Started + 1 /\ Captured' = Captured
           /\ UNCHANGED <<boot, faults>>
<1> DEFINE e == Ev("user-message", uploaded, 0)
           f == Ev("turn-start-requested", uploaded, 0)
           d == <<e, f>>
           bound == Captured
           middle == log \o <<e>>
<1>1. log \in Seq(Event) /\ bound \in Nat /\ Started \in Nat
    BY CountsOfLog
<1>2. /\ e.type = "user-message" /\ f.type = "turn-start-requested"
      /\ Sound(e, bound) /\ Sound(f, bound)
    BY <1>1, TurnsAreBounded DEF Ev, Sound, Event
<1>3. Commit(d)
    BY DEF StartTurn
<1>4. log' = log \o d
    BY <1>3 DEF Commit, CommitAt
<1> HIDE DEF e, f, bound
<1>5. /\ middle \in Seq(Event) /\ Len(middle) = Len(log) + 1
      /\ \A i \in 1..Len(log) : middle[i] = log[i]
      /\ middle[Len(log) + 1] = e
      /\ LogSound(middle, bound)
    <2>1. LogSound(log, bound) /\ bound <= bound
        BY <1>1 DEF DataOK, bound
    <2>2. Extends(middle, log, e) /\ LogSound(middle, bound)
        BY <1>1, <1>2, <2>1, LogMore
    <2> QED BY <2>2 DEF Extends
<1>6. log \o d = middle \o <<f>>
    <2>1. log \in Seq(Event) /\ e \in Event /\ f \in Event
        BY <1>1, <1>2 DEF Sound
    <2>2. <<e>> \o <<f>> = <<e, f>>
        <3> DEFINE s == <<e>> \o <<f>>
        <3>1. /\ s \in Seq(Event) /\ Len(s) = 2 /\ s[1] = e /\ s[2] = f
            BY <2>1
        <3>2. /\ <<e, f>> \in Seq(Event) /\ Len(<<e, f>>) = 2
              /\ <<e, f>>[1] = e /\ <<e, f>>[2] = f
            BY <2>1
        <3> HIDE DEF s
        <3>3. \A i \in 1..Len(s) : s[i] = <<e, f>>[i]
            BY <3>1, <3>2
        <3>4. s = <<e, f>>
            BY <3>1, <3>2, <3>3, SeqEqual
        <3> QED BY <3>4 DEF s
    <2>3. <<e>> \in Seq(Event) /\ <<f>> \in Seq(Event)
        BY <2>1
    <2>4. (log \o <<e>>) \o <<f>> = log \o (<<e>> \o <<f>>)
        BY <2>1, <2>3, ConcatAssociative
    <2> QED BY <2>2, <2>4
<1> HIDE DEF middle, d
<1>7. /\ log' \in Seq(Event) /\ Len(log') = Len(middle) + 1
      /\ \A i \in 1..Len(middle) : log'[i] = middle[i]
      /\ log'[Len(middle) + 1] = f
      /\ LogSound(log', bound)
    <2>1. log' = middle \o <<f>> /\ bound <= bound
        BY <1>1, <1>4, <1>6
    <2>2. Extends(log', middle, f) /\ LogSound(log', bound)
        BY <1>1, <1>2, <1>5, <2>1, LogMore
    <2> QED BY <2>2 DEF Extends
<1>8. /\ Times(middle, "user-message") = Started + 1
      /\ Times(middle, "turn-diff-completed") = Captured
    BY <1>1, <1>2, <1>5, TimesLonger DEF Started, Captured, bound
<1>9. /\ Times(log', "user-message") = Started + 1
      /\ Times(log', "turn-diff-completed") = Captured
    BY <1>1, <1>2, <1>5, <1>7, <1>8, TimesLonger DEF bound
<1>10. Typed(tables', bound)
    <2>1. tables' = Project(installed, f, Project(installed, e, tables))
        <3>1. d[1] = e /\ d[2] = f /\ Len(d) = 2
            BY TwoEvents DEF d
        <3>2. tables' = ProjectAll(installed, d, tables)
            BY <1>3 DEF Commit, CommitAt
        <3> QED BY <3>1, <3>2 DEF ProjectAll
    <2>2. Typed(Project(installed, e, tables), bound)
        BY <1>1, <1>2, ProjectTyped DEF DataOK, bound
    <2> QED BY <1>1, <1>2, <2>1, <2>2, ProjectTyped
<1>11. d \in Seq({e, f}) /\ Len(d) = 2
    BY TwoEvents DEF d
<1>12. applied' \in [Projectors -> Seq(1..Len(log'))]
    <2>1. Len(log') = Len(log) + Len(d)
        BY <1>1, <1>5, <1>7, <1>11
    <2> QED BY <1>3, <1>11, <2>1, CommitApplied DEF DataOK
<1>13. UNCHANGED <<boot, files, endangered, capped, replayed>>
    BY StartTurnIs
<1>14. UNCHANGED faults
    BY <1>3 DEF Commit, CommitAt
<1> QED BY <1>7, <1>9, <1>10, <1>12, <1>13, <1>14 DEF DataOK, Started, Captured, bound

\* Whoever captures or reverts sees a count of the thread.
LEMMA HighestCount ==
    ASSUME DataOK
    PROVE  Max(Counts) \in 0..Captured
<1> DEFINE tb == IF "turns" \in installed THEN tables ELSE Live(log)
           S == {tb.turns[t].count : t \in Turns} \cup {0}
<1>1. Captured \in Nat
    BY CountsOfLog
<1>2. Typed(tb, Captured)
    BY <1>1, LiveTyped DEF DataOK
<1>3. Counts = S
    BY DEF Counts
<1> HIDE DEF tb
<1>4. \A t \in Turns : tb.turns[t].count \in Nat /\ tb.turns[t].count <= Captured
    BY <1>2, TypedIs, TurnsAreBounded DEF TurnRow, Typed
<1>5. S \in SUBSET Nat /\ S # {} /\ \A n \in S : n <= Captured
    BY <1>1, <1>4
<1> HIDE DEF S
<1>6. \E n \in S : \A k \in S : n >= k
    BY <1>1, <1>5, GreatestNatural
<1>7. Max(S) \in S
    BY <1>6 DEF Max
<1>8. Max(S) \in Nat /\ Max(S) <= Captured
    BY <1>5, <1>7
<1> QED BY <1>1, <1>3, <1>8

LEMMA StageIs ==
    ASSUME ThreadOK
    PROVE  /\ stage.turn \in 0..MaxTurns /\ stage.chunks \in 0..MaxChunks
           /\ stage.at \in {"idle", "requested", "running", "ended"}
           /\ stage = [turn |-> stage.turn, at |-> stage.at, chunks |-> stage.chunks]
           /\ \A at \in {"idle", "requested", "running", "ended"} :
                [stage EXCEPT !.at = at] =
                    [turn |-> stage.turn, at |-> at, chunks |-> stage.chunks]
<1> DEFINE Stage == [turn : 0..MaxTurns, at : {"idle", "requested", "running", "ended"},
                     chunks : 0..MaxChunks]
<1>1. stage \in Stage
    BY DEF ThreadOK
<1> QED BY <1>1

\* The thread's part, after a command that starts no turn.
LEMMA StageMoves ==
    ASSUME ThreadOK, DataOK, Started' = Started, UNCHANGED uploaded,
           Captured' \in Nat,
           \/ UNCHANGED stage /\ Captured' = Captured
           \/ /\ stage' = [stage EXCEPT !.at = "idle"]
              /\ stage.at # "idle" /\ Captured' <= Captured + 1
           \/ /\ stage' \in {[stage EXCEPT !.at = "running"], [stage EXCEPT !.at = "ended"]}
              /\ stage.at # "idle" /\ Captured' = Captured
           \/ /\ stage' = [stage EXCEPT !.chunks = @ + 1]
              /\ stage.at = "running" /\ stage.chunks < MaxChunks /\ Captured' = Captured
    PROVE  ThreadOK'
<1>1. /\ stage.turn \in 0..MaxTurns /\ stage.chunks \in 0..MaxChunks
      /\ stage.at \in {"idle", "requested", "running", "ended"}
      /\ stage = [turn |-> stage.turn, at |-> stage.at, chunks |-> stage.chunks]
      /\ \A at \in {"idle", "requested", "running", "ended"} :
           [stage EXCEPT !.at = at] =
               [turn |-> stage.turn, at |-> at, chunks |-> stage.chunks]
    BY StageIs
<1>2. /\ Started \in Nat /\ Captured \in Nat /\ MaxChunks \in Nat
      /\ uploaded \in 0..MaxTurns /\ Started <= MaxTurns
      /\ Captured + (IF stage.at = "idle" THEN 0 ELSE 1) <= Started
      /\ uploaded # 0 => uploaded = Started + 1
      /\ stage.at # "idle" => stage.turn # 0
    BY CountsOfLog, BootstrapAssumption DEF ThreadOK, BootstrapAssumption
<1>3. ASSUME stage'.turn = stage.turn, stage'.chunks \in 0..MaxChunks,
             stage'.at \in {"idle", "requested", "running", "ended"},
             stage' = [turn |-> stage'.turn, at |-> stage'.at, chunks |-> stage'.chunks],
             Captured' + (IF stage'.at = "idle" THEN 0 ELSE 1) <= Started,
             stage'.at # "idle" => stage.at # "idle"
      PROVE  ThreadOK'
    <2>1. stage' \in [turn : 0..MaxTurns, at : {"idle", "requested", "running", "ended"},
                      chunks : 0..MaxChunks]
        BY <1>1, <1>3
    <2> QED BY <1>2, <1>3, <2>1 DEF ThreadOK
<1>4. CASE UNCHANGED stage /\ Captured' = Captured
    <2>1. stage'.turn = stage.turn /\ stage'.chunks = stage.chunks /\ stage'.at = stage.at
          /\ stage' = [turn |-> stage'.turn, at |-> stage'.at, chunks |-> stage'.chunks]
        BY <1>1, <1>4
    <2>2. Captured' + (IF stage'.at = "idle" THEN 0 ELSE 1) <= Started
        BY <1>2, <1>4, <2>1
    <2> QED BY <1>1, <1>3, <2>1, <2>2
<1>5. ASSUME NEW at \in {"idle", "running", "ended"}, stage' = [stage EXCEPT !.at = at],
             stage.at # "idle", Captured' + (IF at = "idle" THEN 0 ELSE 1) <= Captured + 1
      PROVE  ThreadOK'
    <2>1. stage' = [turn |-> stage.turn, at |-> at, chunks |-> stage.chunks]
        BY <1>1, <1>5
    <2>2. stage'.turn = stage.turn /\ stage'.at = at /\ stage'.chunks = stage.chunks
        BY <2>1
    <2>3. Captured' + (IF stage'.at = "idle" THEN 0 ELSE 1) <= Started
        BY <1>2, <1>5, <2>2
    <2> QED BY <1>1, <1>3, <1>5, <2>1, <2>2, <2>3
<1>6. CASE /\ stage' = [stage EXCEPT !.chunks = @ + 1]
           /\ stage.at = "running" /\ stage.chunks < MaxChunks /\ Captured' = Captured
    <2>1. stage' = [turn |-> stage.turn, at |-> stage.at, chunks |-> stage.chunks + 1]
        BY <1>1, <1>6
    <2>2. stage'.turn = stage.turn /\ stage'.at = "running"
          /\ stage'.chunks = stage.chunks + 1
        BY <1>6, <2>1
    <2>3. stage'.chunks \in 0..MaxChunks
        BY <1>1, <1>2, <1>6, <2>2
    <2>4. Captured' + (IF stage'.at = "idle" THEN 0 ELSE 1) <= Started
        BY <1>2, <1>6, <2>2
    <2> QED BY <1>3, <1>6, <2>1, <2>2, <2>3, <2>4
<1>7. Captured' <= Captured + 1 => Captured' + 0 <= Captured + 1
    BY <1>2
<1>8. Captured' = Captured => Captured' + 1 <= Captured + 1
    BY <1>2
<1> QED BY <1>2, <1>4, <1>5, <1>6, <1>7, <1>8

\* A turn, from the provider's start to its capture, and reverts.
LEMMA TurnTyped ==
    ASSUME LogInv, TypedInv, Next, ~ StartTurn, ~ Upload, ~ StartFails,
           ~ Restart, ~ Bootstrap, \A count \in 0..MaxTurns : ~ RevertRollsBack(count)
    PROVE  TypedInv'
<1>1. /\ Started \in Nat /\ Captured \in Nat /\ MaxTurns \in Nat
      /\ DataOK /\ ServerOK /\ ThreadOK
    BY CountsOfLog, TurnsAreBounded DEF TypedInv
<1>2. ASSUME NEW e, CommitOne(e), Sound(e, Captured), e.type # "turn-diff-completed"
      PROVE  /\ DataOK' /\ ServerOK' /\ Started' = Started /\ Captured' = Captured
             /\ UNCHANGED uploaded
    <2>1. Captured = Captured + (IF e.type = "turn-diff-completed" THEN 1 ELSE 0)
        BY <1>1, <1>2
    <2>2. /\ DataOK' /\ Started' = Started /\ Captured' = Captured
          /\ UNCHANGED <<boot, faults, uploaded>>
        BY <1>1, <1>2, <2>1, CommitOneTyped
    <2> QED BY <1>1, <2>2 DEF ServerOK
<1>3. ASSUME NEW type \in {"session-set", "assistant-message", "reverted"},
             NEW t \in 0..MaxTurns, NEW c \in 0..MaxTurns, c <= Captured,
             Commit(<<Ev(type, t, c)>>), UNCHANGED uploaded
      PROVE  /\ DataOK' /\ ServerOK' /\ Started' = Started /\ Captured' = Captured
             /\ UNCHANGED uploaded
    <2> DEFINE e == Ev(type, t, c)
    <2>1. Sound(e, Captured) /\ e.type = type
        BY <1>1, <1>3 DEF Sound, Event, Ev
    <2>2. Commit(<<e>>)
        BY <1>3
    <2> HIDE DEF e
    <2>3. CommitOne(e)
        BY <1>3, <2>1, <2>2 DEF CommitOne
    <2> QED BY <1>2, <2>1, <2>3
<1>4. stage.turn \in 0..MaxTurns /\ 0 \in 0..MaxTurns /\ 0 <= Captured
    BY <1>1, StageIs
<1>5. CASE SessionStarts
    <2>1. /\ Commit(<<Ev("session-set", stage.turn, 0)>>) /\ UNCHANGED uploaded
          /\ stage' = [stage EXCEPT !.at = "running"] /\ stage.at # "idle"
        BY <1>5 DEF SessionStarts
    <2>2. DataOK' /\ ServerOK' /\ Started' = Started /\ Captured' = Captured
        BY <1>3, <1>4, <2>1
    <2>3. ThreadOK'
        BY <1>1, <2>1, <2>2, StageMoves
    <2> QED BY <2>2, <2>3 DEF TypedInv
<1>6. CASE Answer
    <2>1. /\ Commit(<<Ev("assistant-message", stage.turn, 0)>>) /\ UNCHANGED uploaded
          /\ stage' = [stage EXCEPT !.chunks = @ + 1]
          /\ stage.at = "running" /\ stage.chunks < MaxChunks
        BY <1>6 DEF Answer
    <2>2. DataOK' /\ ServerOK' /\ Started' = Started /\ Captured' = Captured
        BY <1>3, <1>4, <2>1
    <2>3. ThreadOK'
        BY <1>1, <2>1, <2>2, StageMoves
    <2> QED BY <2>2, <2>3 DEF TypedInv
<1>7. CASE ProposePlan
    <2> DEFINE e == Ev("plan-upserted", stage.turn, 0)
    <2>1. Commit(<<e>>) /\ UNCHANGED <<uploaded, stage>> /\ stage.turn # 0
        BY <1>1, <1>7 DEF ProposePlan, thread, ThreadOK
    <2>2. Sound(e, Captured) /\ e.type = "plan-upserted"
        BY <1>1, <1>4, <2>1 DEF Sound, Event, Ev
    <2> HIDE DEF e
    <2>3. CommitOne(e)
        BY <2>1, <2>2 DEF CommitOne
    <2>4. DataOK' /\ ServerOK' /\ Started' = Started /\ Captured' = Captured
        BY <1>2, <2>2, <2>3
    <2>5. ThreadOK'
        BY <1>1, <2>1, <2>4, StageMoves
    <2> QED BY <2>4, <2>5 DEF TypedInv
<1>8. CASE SessionEnds
    <2>1. /\ Commit(<<Ev("session-set", 0, 0)>>) /\ UNCHANGED uploaded
          /\ stage' = [stage EXCEPT !.at = "ended"] /\ stage.at # "idle"
        BY <1>8 DEF SessionEnds
    <2>2. DataOK' /\ ServerOK' /\ Started' = Started /\ Captured' = Captured
        BY <1>3, <1>4, <2>1
    <2>3. ThreadOK'
        BY <1>1, <2>1, <2>2, StageMoves
    <2> QED BY <2>2, <2>3 DEF TypedInv
<1>9. CASE CaptureTurn
    <2> DEFINE next == Max(Counts) + 1
               e == Ev("turn-diff-completed", stage.turn, next)
    <2>1. /\ Commit(<<e>>) /\ UNCHANGED uploaded
          /\ stage' = [stage EXCEPT !.at = "idle"] /\ stage.at # "idle"
        BY <1>9 DEF CaptureTurn
    <2>2. Captured + 1 <= MaxTurns
        BY <1>1, <2>1 DEF ThreadOK
    <2>3. next \in 0..MaxTurns /\ next <= Captured + 1
        BY <1>1, <2>2, HighestCount
    <2> HIDE DEF next
    <2>4. Sound(e, Captured + 1) /\ e.type = "turn-diff-completed"
        BY <1>1, <1>4, <2>3 DEF Sound, Event, Ev
    <2> HIDE DEF e
    <2>5. CommitOne(e)
        BY <2>1, <2>4 DEF CommitOne
    <2>6. Captured + 1 = Captured + (IF e.type = "turn-diff-completed" THEN 1 ELSE 0)
        BY <2>4
    <2>7. /\ DataOK' /\ Started' = Started /\ Captured' = Captured + 1
          /\ UNCHANGED <<boot, faults, uploaded>>
        BY <1>1, <2>4, <2>5, <2>6, CommitOneTyped
    <2>8. Captured' \in Nat /\ Captured' <= Captured + 1
        BY <1>1, <2>7
    <2>9. ThreadOK'
        BY <1>1, <2>1, <2>7, <2>8, StageMoves
    <2> QED BY <1>1, <2>7, <2>9 DEF TypedInv, ServerOK
<1>10. ASSUME NEW count \in 0..MaxTurns, Revert(count) PROVE TypedInv'
    <2>1. /\ Commit(<<Ev("reverted", 0, count)>>) /\ UNCHANGED <<uploaded, stage>>
          /\ count < Max(Counts)
        BY <1>10 DEF Revert, MayRevert, thread
    <2>2. count <= Captured
        BY <1>1, <2>1, HighestCount
    <2>3. DataOK' /\ ServerOK' /\ Started' = Started /\ Captured' = Captured
        BY <1>3, <1>4, <2>1, <2>2
    <2>4. ThreadOK'
        BY <1>1, <2>1, <2>3, StageMoves
    <2> QED BY <2>3, <2>4 DEF TypedInv
<1> QED BY <1>5, <1>6, <1>7, <1>8, <1>9, <1>10 DEF Next, ThreadStep

\* The start of a server: an event is applied, or a stream ends.
LEMMA BootstrapTyped ==
    ASSUME LogInv, ReadInv, TypedInv, Bootstrap
    PROVE  TypedInv'
<1>1. /\ Captured \in Nat /\ DataOK /\ ServerOK /\ ThreadOK
      /\ ReadLimit \in Nat \ {0}
    BY CountsOfLog, BootstrapAssumption DEF TypedInv, BootstrapAssumption
<1>2. /\ boot \in [at : 1..Len(Order), left : 0..ReadLimit]
      /\ boot.at \in 1..4 /\ Len(Order) = 4 /\ Booting \in Projectors
    BY <1>1, Places DEF ServerOK, Booting
<1>3. CASE BootApply
    <2> DEFINE q == Booting
               n == cursor[q] + 1
    <2>1. /\ applied' = [applied EXCEPT ![q] = Append(@, n)]
          /\ boot' = [boot EXCEPT !.left = @ - 1] /\ boot.left > 0
          /\ tables' = Apply(q, log[n], tables)
          /\ files' = files \ Pruned(q, log[n], tables)
          /\ endangered' = endangered \cup Pruned(q, log[n], tables)
          /\ replayed' = (replayed \/ log[n].type = "reverted")
          /\ cursor[q] < Len(log)
          /\ UNCHANGED <<log, uploaded, stage, capped, faults>>
        BY <1>3 DEF BootApply, BootApplyEvent, thread
    <2>2. n \in 1..Len(log)
        BY <1>2, <2>1, LengthOfLog DEF ReadInv
    <2> HIDE DEF q, n
    <2>3. Typed(tables', Captured)
        <3>1. Sound(log[n], Captured)
            BY <1>1, <2>2 DEF DataOK, LogSound
        <3> QED BY <1>1, <1>2, <2>1, <3>1, ApplyTyped DEF DataOK, q
    <2>4. applied' \in [Projectors -> Seq(1..Len(log))]
        <3> DEFINE N == 1..Len(log)
        <3>1. applied \in [Projectors -> Seq(N)] /\ n \in N
            BY <1>1, <2>2 DEF DataOK
        <3> HIDE DEF N
        <3>2. \A p \in Projectors : applied[p] \in Seq(N) /\ Append(applied[p], n) \in Seq(N)
            BY <3>1
        <3>3. applied' \in [Projectors -> Seq(N)]
            BY <2>1, <3>1, <3>2
        <3> QED BY <3>3 DEF N
    <2>5. boot' \in [at : 1..Len(Order), left : 0..ReadLimit]
        BY <1>1, <1>2, <2>1
    <2>6. Pruned(q, log[n], tables) \subseteq files
        BY DEF Pruned
    <2>7. replayed' \in BOOLEAN
        BY <1>1, <2>1 DEF DataOK
    <2>8. Started' = Started /\ Captured' = Captured
        BY <2>1 DEF Started, Captured
    <2>9. DataOK'
        BY <1>1, <2>1, <2>3, <2>4, <2>6, <2>7, <2>8 DEF DataOK
    <2>10. ServerOK' /\ ThreadOK'
        BY <1>1, <2>1, <2>5, <2>8 DEF ServerOK, ThreadOK
    <2> QED BY <2>9, <2>10 DEF TypedInv
<1>4. CASE BootNext
    <2>1. /\ \/ boot.at < Len(Order) /\ boot' = [at |-> boot.at + 1, left |-> ReadLimit]
             \/ boot' = [at |-> 1, left |-> ReadLimit]
          /\ capped' \in {capped, capped \cup {Booting}}
          /\ UNCHANGED <<log, tables, files, uploaded, stage, applied, replayed,
                         endangered, faults>>
        BY <1>4 DEF BootNext, Proceed, database, thread
    <2>2. boot' \in [at : 1..Len(Order), left : 0..ReadLimit]
        BY <1>1, <1>2, <2>1
    <2>3. Started' = Started /\ Captured' = Captured
        BY <2>1 DEF Started, Captured
    <2>4. DataOK'
        BY <1>1, <1>2, <2>1, <2>3 DEF DataOK
    <2> QED BY <1>1, <2>1, <2>2, <2>3, <2>4 DEF TypedInv, ServerOK, ThreadOK
<1> QED BY <1>3, <1>4 DEF Bootstrap

LEMMA TypedStep ==
    ASSUME LogInv, ReadInv, TypedInv, Next
    PROVE  TypedInv'
<1>1. /\ Started \in Nat /\ Captured \in Nat /\ MaxTurns \in Nat /\ MaxChunks \in Nat
      /\ ReadLimit \in Nat \ {0} /\ MaxRestarts \in Nat /\ MaxRollBacks \in Nat
      /\ DataOK /\ ServerOK /\ ThreadOK
    BY CountsOfLog, BootstrapAssumption DEF TypedInv, BootstrapAssumption
<1>3. CASE Upload
    <2>1. /\ uploaded' = Stored("user-message") + 1 /\ Stored("user-message") < MaxTurns
          /\ files' = files \cup {uploaded'}
          /\ UNCHANGED <<log, tables, boot, stage, applied, capped, replayed,
                         endangered, faults>>
        BY <1>3 DEF Upload, server, history
    <2>2. /\ Stored("user-message") = Started
          /\ Started' = Started /\ Captured' = Captured
        BY <2>1 DEF Stored, Started, Captured, Times
    <2>3. uploaded' = Started + 1 /\ uploaded' \in Turns
        BY <1>1, <2>1, <2>2 DEF Turns
    <2>4. DataOK'
        BY <1>1, <2>1, <2>2, <2>3 DEF DataOK
    <2>5. ThreadOK'
        BY <1>1, <2>1, <2>2, <2>3, TurnsAreBounded DEF ThreadOK
    <2> QED BY <1>1, <2>1, <2>4, <2>5 DEF TypedInv, ServerOK
<1>4. CASE StartTurn
    <2>1. uploaded \in 0..MaxTurns /\ uploaded # 0 /\ uploaded = Started + 1
        BY <1>1, <1>4 DEF ThreadOK, StartTurn
    <2>2. /\ DataOK' /\ Started' = Started + 1 /\ Captured' = Captured
          /\ UNCHANGED <<boot, faults>>
        BY <1>1, <1>4, <2>1, StartTurnTyped
    <2>3. /\ stage' = [turn |-> uploaded, at |-> "requested", chunks |-> 0]
          /\ uploaded' = 0 /\ stage.at = "idle"
        BY <1>4 DEF StartTurn
    <2>4. /\ stage' \in [turn : 0..MaxTurns,
                         at : {"idle", "requested", "running", "ended"},
                         chunks : 0..MaxChunks]
          /\ stage'.turn # 0 /\ stage'.at = "requested"
        BY <1>1, <2>1, <2>3
    <2>5. Captured <= Started
        BY <1>1, <2>3 DEF ThreadOK
    <2>6. Captured' + (IF stage'.at = "idle" THEN 0 ELSE 1) <= Started'
        BY <1>1, <2>2, <2>4, <2>5
    <2>7. Started' <= MaxTurns /\ uploaded' \in 0..MaxTurns
        BY <1>1, <2>1, <2>2, <2>3
    <2> QED BY <1>1, <2>2, <2>3, <2>4, <2>6, <2>7 DEF TypedInv, ServerOK, ThreadOK
<1>5. CASE StartFails
    <2>1. /\ stage' = [stage EXCEPT !.at = "idle"] /\ stage.at # "idle"
          /\ UNCHANGED <<log, tables, files, boot, uploaded, applied, capped, replayed,
                         endangered, faults>>
        BY <1>5 DEF StartFails, database, server, history
    <2>2. Started' = Started /\ Captured' = Captured /\ Captured' \in Nat
          /\ Captured' <= Captured + 1
        BY <1>1, <2>1 DEF Started, Captured
    <2>3. ThreadOK'
        BY <1>1, <2>1, <2>2, StageMoves
    <2> QED BY <1>1, <2>1, <2>2, <2>3 DEF TypedInv, DataOK, ServerOK
<1>6. ASSUME NEW count \in 0..MaxTurns, RevertRollsBack(count) PROVE TypedInv'
    <2>1. /\ faults.rollBacks < MaxRollBacks
          /\ faults' = [faults EXCEPT !.rollBacks = @ + 1]
          /\ \E removed : /\ removed \subseteq files
                          /\ files' = files \ removed
                          /\ endangered' = endangered \cup removed
          /\ UNCHANGED <<log, tables, boot, uploaded, stage, applied, capped, replayed>>
        BY <1>6 DEF RevertRollsBack, Pruned, server, thread
    <2>2. Started' = Started /\ Captured' = Captured
        BY <2>1 DEF Started, Captured
    <2>3. faults' \in [restarts : 0..MaxRestarts, rollBacks : 0..MaxRollBacks]
        <3>1. faults \in [restarts : 0..MaxRestarts, rollBacks : 0..MaxRollBacks]
            BY <1>1 DEF ServerOK
        <3>2. faults.rollBacks + 1 \in 0..MaxRollBacks
            BY <1>1, <2>1, <3>1
        <3> QED BY <2>1, <3>1, <3>2
    <2>4. ServerOK'
        BY <1>1, <2>1, <2>3 DEF ServerOK
    <2> QED BY <1>1, <2>1, <2>2, <2>4 DEF TypedInv, DataOK, ThreadOK
<1>7. CASE Restart
    <2>1. /\ faults.restarts < MaxRestarts
          /\ faults' = [faults EXCEPT !.restarts = @ + 1]
          /\ boot' = [at |-> 1, left |-> ReadLimit]
          /\ uploaded' = 0 /\ stage' = [stage EXCEPT !.at = "idle"]
          /\ UNCHANGED <<log, tables, files, applied, capped, replayed, endangered>>
        BY <1>7 DEF Restart, database
    <2>2. Started' = Started /\ Captured' = Captured
        BY <2>1 DEF Started, Captured
    <2>3. ServerOK'
        BY <1>1, <2>1, Places DEF ServerOK
    <2>4. stage' = [turn |-> stage.turn, at |-> "idle", chunks |-> stage.chunks]
          /\ stage.turn \in 0..MaxTurns /\ stage.chunks \in 0..MaxChunks
        BY <1>1, <2>1, StageIs
    <2>5. /\ stage' \in [turn : 0..MaxTurns,
                         at : {"idle", "requested", "running", "ended"},
                         chunks : 0..MaxChunks]
          /\ stage'.at = "idle"
        BY <2>4
    <2>6. Captured <= Started
        BY <1>1 DEF ThreadOK
    <2>7. ThreadOK'
        BY <1>1, <2>1, <2>2, <2>5, <2>6 DEF ThreadOK
    <2> QED BY <1>1, <2>1, <2>2, <2>3, <2>7 DEF TypedInv, DataOK
<1> QED BY <1>3, <1>4, <1>5, <1>6, <1>7, BootstrapTyped, TurnTyped DEF Next

LEMMA TypedInit ==
    ASSUME Init
    PROVE  TypedInv
<1>1. /\ MaxTurns \in Nat /\ MaxChunks \in Nat /\ ReadLimit \in Nat \ {0}
      /\ MaxRestarts \in Nat /\ MaxRollBacks \in Nat
    BY BootstrapAssumption DEF BootstrapAssumption
<1>2. log = <<>> /\ <<>> \in Seq(Event) /\ DOMAIN <<>> = {}
    BY DEF Init
<1>3. Started = 0 /\ Captured = 0
    <2>1. \A type : {n \in DOMAIN log : log[n].type = type} = {}
        BY <1>2
    <2> QED BY <2>1, FS_EmptySet DEF Started, Captured, Times
<1>4. LogSound(log, Captured)
    BY <1>2 DEF LogSound
<1>5. Typed(tables, Captured)
    BY <1>3, NewTyped DEF Init
<1>6. applied \in [Projectors -> Seq(1..Len(log))]
    BY DEF Init
<1>7. DataOK
    BY <1>4, <1>5, <1>6 DEF Init, DataOK
<1>8. ServerOK
    BY <1>1, Places DEF Init, ServerOK
<1>9. ThreadOK
    BY <1>1, <1>3 DEF Init, ThreadOK
<1> QED BY <1>7, <1>8, <1>9 DEF TypedInv

\* What the log, the tables and the bookkeeping hold is of its type, and no
\* checkpoint counts more than there were captures, although a build without
\* rows of turns counts from the log and every other one from the tables.
THEOREM TypeCorrect == Spec => [](TypeOK /\ CountsInv)
<1>1. Init => TypedInv
    BY TypedInit
<1>2. BootInv /\ TypedInv /\ [Next]_vars => TypedInv'
    <2> SUFFICES ASSUME BootInv, TypedInv, [Next]_vars PROVE TypedInv'
        OBVIOUS
    <2>1. CASE Next
        BY <2>1, TypedStep DEF BootInv
    <2>2. CASE UNCHANGED vars
        BY <2>2 DEF vars, database, server, thread, history, TypedInv, DataOK, ServerOK,
                    ThreadOK, Started, Captured
    <2> QED BY <2>1, <2>2
<1>3. BootInv /\ TypedInv => TypeOK /\ CountsInv
    BY TypedInvIs DEF BootInv
<1> QED BY <1>1, <1>2, <1>3, BootstrapInvariant, PTL DEF Spec
=============================================================================
