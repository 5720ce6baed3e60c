--------------------- MODULE EnvironmentConnection_proofs ---------------------
(***************************************************************************)
(* Theorems of EnvironmentConnection: for any number of reconnects,        *)
(* waiters and failures the gate can always be settled, and no caller is   *)
(* answered before a snapshot has come.                                    *)
(***************************************************************************)
EXTENDS EnvironmentConnection, TLAPS

USE ConnectionAssumption DEF ConnectionAssumption

\* What one step does to the gate's promises.
Settled(outcome) ==
    /\ Len(promises') = Len(promises)
    /\ promises'[Len(promises)] # "pending"
    /\ settler' = 0
    /\ \A p \in 1..Len(promises) : promises'[p] \in {promises[p], outcome}

LEMMA SettleStep ==
    ASSUME TypeOK, CurrentCanBeSettled, NEW outcome \in {"resolved", "rejected"},
           Settle(outcome)
    PROVE  /\ promises' \in Seq(Outcome) /\ promises' # <<>>
           /\ Settled(outcome)
<1>1. /\ Len(promises) \in Nat \ {0}
      /\ DOMAIN promises = 1..Len(promises)
      /\ \A p \in 1..Len(promises) : promises[p] \in Outcome
    BY DEF TypeOK
<1>2. promises' = [p \in 1..Len(promises) |->
                     IF p = settler THEN outcome ELSE promises[p]]
    BY <1>1 DEF Settle
<1>3. outcome \in Outcome
    BY DEF Outcome
<1>4. promises' \in Seq(Outcome) /\ Len(promises') = Len(promises)
    BY <1>1, <1>2, <1>3
<1>5. promises' # <<>>
    BY <1>1, <1>4
<1>6. promises'[Len(promises)] # "pending"
    BY <1>1, <1>2 DEF CurrentCanBeSettled, Current
<1> QED BY <1>1, <1>2, <1>4, <1>5, <1>6 DEF Settled, Settle

LEMMA ResetStep ==
    ASSUME TypeOK, Reset
    PROVE  /\ promises' \in Seq(Outcome) /\ promises' # <<>>
           /\ Len(promises') = Len(promises) + 1
           /\ \A p \in 1..Len(promises) : promises'[p] = promises[p]
           /\ promises'[Len(promises')] = "pending"
           /\ settler' = Len(promises')
<1>1. promises \in Seq(Outcome) /\ "pending" \in Outcome
    BY DEF TypeOK, Outcome
<1> QED BY <1>1 DEF Reset

-----------------------------------------------------------------------------

\* The steps that neither touch the gate nor the callers.
LoopAlone ==
    RunStream \/ SessionLost \/ Drop \/ SnapshotFails \/ Dispose

LEMMA LoopAloneStep ==
    ASSUME LoopAlone
    PROVE  UNCHANGED <<promises, settler, session, chain, calls, applied>>
    BY DEF LoopAlone, RunStream, SessionLost, Drop, SnapshotFails, Dispose, gate,
           transport

LEMMA TypeStep ==
    ASSUME TypeOK, ChainHolds, CurrentCanBeSettled, [Next]_vars
    PROVE  TypeOK'
<1> DEFINE GateOK == promises \in Seq(Outcome) /\ promises # <<>> /\ settler \in Nat
           RestOK == /\ session \in Nat /\ chain \in Seq(Reconnects)
                     /\ disposed \in BOOLEAN /\ loop \in Loop
                     /\ received \in BOOLEAN /\ applied \in Nat
                     /\ faultCount \in 0..MaxFaults
           CallsOK == calls \in [Calls -> Call]
<1> SUFFICES GateOK' /\ RestOK' /\ CallsOK'
    BY DEF TypeOK
<1>a. GateOK /\ RestOK /\ CallsOK
    BY DEF TypeOK
<1>g. (UNCHANGED gate => GateOK') /\ (Reset => GateOK')
    <2>1. UNCHANGED gate => GateOK'
        BY <1>a DEF gate
    <2> QED BY <1>a, <2>1, ResetStep
<1>s. ASSUME NEW outcome \in {"resolved", "rejected"}, Settle(outcome)
      PROVE  GateOK'
    BY <1>s, SettleStep DEF Settled
\* Changing two fields of one caller leaves the others alone.
<1>o. ASSUME NEW c \in Calls, NEW call, calls' = [calls EXCEPT ![c] = call],
             calls'[c] \in Call
      PROVE  CallsOK'
    BY <1>o, <1>a
\* Moving one caller keeps the callers typed.
<1>m. ASSUME NEW c \in Calls,
             NEW at \in {"refused", "queued", "closing", "metadata", "waiting",
                         "done", "failed"},
             calls' = [calls EXCEPT ![c].at = at]
      PROVE  CallsOK'
    BY <1>m, <1>a DEF Call
<1> USE DEF Calls
<1>1. CASE UNCHANGED vars
    BY <1>1, <1>a, <1>g DEF vars, gate, transport, subscription
<1>2. CASE LoopAlone
    <2>1. loop' \in Loop
        <3>1. loop.session \in Nat /\ loop.hook \in BOOLEAN
            BY <1>a DEF Loop
        <3>2. CASE RunStream
            BY <3>2, <1>a DEF RunStream, Loop
        <3>3. ASSUME NEW at \in {"start", "ended"}, loop' = [loop EXCEPT !.at = at]
              PROVE  loop' \in Loop
            BY <3>3, <1>a DEF Loop
        <3> QED
            BY <1>2, <3>2, <3>3
            DEF LoopAlone, SessionLost, Drop, SnapshotFails, Dispose
    <2>2. disposed' \in BOOLEAN
        BY <1>2, <1>a
        DEF LoopAlone, RunStream, SessionLost, Drop, SnapshotFails, Dispose,
            transport
    <2>3. received' = received /\ faultCount' \in 0..MaxFaults
        BY <1>2, <1>a
        DEF LoopAlone, RunStream, SessionLost, Drop, SnapshotFails, Dispose, Fault
    <2> QED BY <1>a, <1>g, <2>1, <2>2, <2>3, <1>2, LoopAloneStep DEF gate
<1>3. CASE RequestStarts
    <2>1. GateOK'
        BY <1>3, <1>g DEF RequestStarts
    <2>2. loop' \in Loop
        BY <1>3, <1>a DEF RequestStarts, Loop
    <2>3. RestOK'
        BY <1>3, <1>a, <2>2 DEF RequestStarts, transport
    <2>4. CallsOK'
        BY <1>3, <1>a DEF RequestStarts
    <2> QED BY <2>1, <2>3, <2>4
<1>4. CASE ReceiveSnapshot
    <2>1. GateOK'
        BY <1>4, <1>s DEF ReceiveSnapshot
    <2>2. loop' \in Loop
        BY <1>4, <1>a DEF ReceiveSnapshot, Loop
    <2>3. RestOK'
        BY <1>4, <1>a, <2>2 DEF ReceiveSnapshot, transport
    <2>4. CallsOK'
        BY <1>4, <1>a DEF ReceiveSnapshot
    <2> QED BY <2>1, <2>3, <2>4
<1>5. ASSUME NEW c \in Reconnects, Reconnect(c)
      PROVE  GateOK' /\ RestOK' /\ CallsOK'
    <2>1. CallsOK'
        <3>1. PICK at \in {"refused", "queued"} :
                calls' = [calls EXCEPT ![c].at = at, ![c].since = applied]
            BY <1>5 DEF Reconnect, Enter
        <3>2. calls'[c] \in Call
            BY <3>1, <1>a DEF Call
        <3> QED BY <3>1, <3>2, <1>o
    <2>2. GateOK'
        BY <1>5, <1>g DEF Reconnect
    <2>3. chain' \in Seq(Reconnects)
        BY <1>5, <1>a DEF Reconnect, Enter
    <2>4. RestOK'
        BY <1>5, <1>a, <2>3 DEF Reconnect, subscription
    <2> QED BY <2>1, <2>2, <2>4
<1>6. ASSUME NEW c \in Reconnects, ReplaceSession(c)
      PROVE  GateOK' /\ RestOK' /\ CallsOK'
    <2>1. CallsOK'
        BY <1>6, <1>m DEF ReplaceSession, At
    <2>2. GateOK'
        BY <1>6, <1>g DEF ReplaceSession
    <2>3. RestOK'
        BY <1>6, <1>a DEF ReplaceSession, subscription
    <2> QED BY <2>1, <2>2, <2>3
<1>7. ASSUME NEW c \in Reconnects, CloseSession(c)
      PROVE  GateOK' /\ RestOK' /\ CallsOK'
    <2>1. chain # <<>>
        BY <1>7 DEF CloseSession, ChainHolds
    <2>2. CallsOK'
        BY <1>7, <1>m DEF CloseSession, At
    <2>3. GateOK'
        BY <1>7, <1>g DEF CloseSession
    <2>4. RestOK'
        BY <1>7, <1>a, <2>1 DEF CloseSession, subscription
    <2> QED BY <2>2, <2>3, <2>4
<1>8. ASSUME NEW c \in Calls, calls[c].at \in {"metadata", "none"},
             calls' = [calls EXCEPT ![c].at = "waiting", ![c].promise = Current],
             UNCHANGED <<gate, transport, subscription, applied, faultCount>>
      PROVE  GateOK' /\ RestOK' /\ CallsOK'
    <2>1. Len(promises) \in Nat
        BY <1>a
    <2>2. CallsOK'
        <3>1. calls'[c] \in Call
            BY <1>8, <1>a, <2>1 DEF Call, Current
        <3> QED BY <3>1, <1>8, <1>o
    <2>3. GateOK'
        BY <1>8, <1>g
    <2>4. RestOK'
        BY <1>8, <1>a DEF transport, subscription
    <2> QED BY <2>2, <2>3, <2>4
<1>9. ASSUME NEW c \in Reconnects, Throw(c), UNCHANGED <<session, disposed, subscription, applied>>,
             chain' \in Seq(Reconnects), faultCount' \in 0..MaxFaults
      PROVE  GateOK' /\ RestOK' /\ CallsOK'
    BY <1>9, <1>a, <1>s, <1>m DEF Throw, At, subscription
<1>10. ASSUME NEW c \in Reconnects, TransportDisposed(c)
       PROVE  GateOK' /\ RestOK' /\ CallsOK'
    <2>1. chain # <<>>
        BY <1>10, <1>a DEF TransportDisposed, ChainHolds
    <2> QED BY <1>9, <1>10, <1>a, <2>1 DEF TransportDisposed
<1>11. ASSUME NEW c \in Reconnects, Refused(c) \/ RefreshMetadataFails(c)
       PROVE  GateOK' /\ RestOK' /\ CallsOK'
    BY <1>9, <1>11, <1>a DEF Refused, RefreshMetadataFails, Fault, transport
<1>12. ASSUME NEW c \in Calls, GateRejects(c)
       PROVE  GateOK' /\ RestOK' /\ CallsOK'
    <2>1. CASE c \in Reconnects
        BY <1>9, <1>12, <1>a, <2>1 DEF GateRejects, transport
    <2>2. CASE c \notin Reconnects
        BY <1>12, <1>a, <1>g, <1>m, <2>2 DEF GateRejects, At, transport, subscription
    <2> QED BY <2>1, <2>2
<1>13. ASSUME NEW c \in Calls, GateOpens(c)
       PROVE  GateOK' /\ RestOK' /\ CallsOK'
    BY <1>13, <1>a, <1>g, <1>m DEF GateOpens, At, transport, subscription
<1> HIDE DEF GateOK, RestOK, CallsOK
<1> QED
    BY <1>1, <1>2, <1>3, <1>4, <1>5, <1>6, <1>7, <1>8, <1>10, <1>11, <1>12, <1>13
    DEF Next, LoopStep, CallStep, LoopAlone, AwaitGate, EnsureBootstrapped

\* Head of the chain: queued and closing reconnects.
LEMMA ChainStep ==
    ASSUME TypeOK, ChainHolds, [Next]_vars
    PROVE  ChainHolds'
<1> USE DEF Calls
<1>a. chain \in Seq(Reconnects) /\ Len(chain) \in Nat /\ calls \in [Calls -> Call]
    BY DEF TypeOK
<1>b. \A d \in Reconnects :
        /\ calls[d].at = "closing" => chain # <<>> /\ chain[1] = d
        /\ calls[d].at = "queued" => \E i \in 1..Len(chain) : chain[i] = d
    BY <1>a DEF ChainHolds
\* Steps that leave the chain alone and move nobody into it.
<1>1. ASSUME UNCHANGED chain,
             \A d \in Reconnects : calls'[d].at \in {"closing", "queued"} =>
                                     calls'[d].at = calls[d].at
      PROVE  ChainHolds'
    BY <1>1, <1>a, <1>b DEF ChainHolds
\* Steps that take the head of the chain.
<1>2. ASSUME NEW c \in Reconnects, chain # <<>>, chain[1] = c, chain' = Tail(chain),
             \A d \in Reconnects \ {c} : calls'[d] = calls[d],
             calls'[c].at \notin {"closing", "queued"}
      PROVE  ChainHolds'
    <2>1. /\ Len(chain') = Len(chain) - 1
          /\ \A i \in 1..Len(chain') : chain'[i] = chain[i + 1]
        BY <1>2, <1>a
    <2>2. ASSUME NEW d \in Reconnects, calls'[d].at = "queued"
          PROVE  \E i \in 1..Len(chain') : chain'[i] = d
        <3>1. d # c /\ calls[d].at = "queued"
            BY <1>2, <2>2
        <3>2. PICK i \in 1..Len(chain) : chain[i] = d
            BY <1>b, <3>1
        <3>3. i # 1
            BY <1>2, <3>1, <3>2
        <3>4. i - 1 \in 1..Len(chain') /\ chain'[i - 1] = chain[i]
            BY <1>a, <2>1, <3>2, <3>3
        <3> QED BY <3>2, <3>4
    <2>3. ASSUME NEW d \in Reconnects, calls'[d].at = "closing" PROVE FALSE
        BY <1>2, <1>b, <2>3
    <2> QED BY <2>2, <2>3 DEF ChainHolds
<1>3. ASSUME NEW c \in Reconnects, Reconnect(c) PROVE ChainHolds'
    <2>1. CASE disposed
        BY <1>1, <1>3, <1>a, <2>1 DEF Reconnect, Enter, Call
    <2>2. CASE ~disposed
        <3>1. /\ chain' = Append(chain, c)
              /\ Len(chain') = Len(chain) + 1 /\ chain'[Len(chain) + 1] = c
              /\ \A i \in 1..Len(chain) : chain'[i] = chain[i]
            BY <1>3, <1>a, <2>2 DEF Reconnect, Enter
        <3>2. \A d \in Reconnects \ {c} : calls'[d] = calls[d]
            BY <1>3, <1>a DEF Reconnect, Enter
        <3>3. calls'[c].at = "queued"
            BY <1>3, <1>a, <2>2 DEF Reconnect, Enter, Call
        <3>4. ASSUME NEW d \in Reconnects, calls'[d].at = "closing"
              PROVE  chain' # <<>> /\ Head(chain') = d
            <4>1. d # c /\ calls[d].at = "closing"
                BY <3>2, <3>3, <3>4
            <4>2. chain # <<>> /\ chain[1] = d
                BY <1>b, <4>1
            <4>3. 1 \in 1..Len(chain)
                BY <1>a, <4>2
            <4> QED BY <1>a, <3>1, <4>2, <4>3
        <3>5. ASSUME NEW d \in Reconnects, calls'[d].at = "queued"
              PROVE  \E i \in 1..Len(chain') : chain'[i] = d
            BY <1>a, <1>b, <3>1, <3>2, <3>5
        <3> QED BY <3>4, <3>5 DEF ChainHolds
    <2> QED BY <2>1, <2>2
<1>4. ASSUME NEW c \in Reconnects, ReplaceSession(c) PROVE ChainHolds'
    <2>1. chain # <<>> /\ chain[1] = c /\ chain' = chain
        BY <1>4, <1>a, <1>b DEF ReplaceSession
    <2>2. \A d \in Reconnects \ {c} : calls'[d] = calls[d]
        BY <1>4, <1>a DEF ReplaceSession, At
    <2>3. calls'[c].at = "closing"
        BY <1>4, <1>a DEF ReplaceSession, At, Call
    <2> QED BY <1>a, <1>b, <2>1, <2>2, <2>3 DEF ChainHolds
<1>5. ASSUME NEW c \in Reconnects, CloseSession(c) PROVE ChainHolds'
    <2>1. chain # <<>> /\ chain[1] = c
        BY <1>5, <1>b DEF CloseSession
    <2> QED BY <1>2, <1>5, <1>a, <2>1 DEF CloseSession, At, Call
<1>6. ASSUME NEW c \in Reconnects, TransportDisposed(c) PROVE ChainHolds'
    <2>1. chain # <<>> /\ chain[1] = c
        BY <1>6, <1>a, <1>b DEF TransportDisposed
    <2> QED BY <1>2, <1>6, <1>a, <2>1 DEF TransportDisposed, Throw, At, Call
<1>7. CASE UNCHANGED vars \/ LoopAlone \/ RequestStarts \/ ReceiveSnapshot
    BY <1>1, <1>7, LoopAloneStep
    DEF RequestStarts, ReceiveSnapshot, vars, transport
<1>8. ASSUME NEW c \in Calls,
             AwaitGate(c) \/ EnsureBootstrapped(c) \/ Refused(c)
               \/ RefreshMetadataFails(c) \/ GateRejects(c) \/ GateOpens(c)
      PROVE  ChainHolds'
    <2>1. UNCHANGED chain
        BY <1>8
        DEF AwaitGate, EnsureBootstrapped, Refused, RefreshMetadataFails,
            GateRejects, GateOpens, transport
    <2>2. /\ \A d \in Calls \ {c} : calls'[d] = calls[d]
          /\ calls'[c].at \in {"waiting", "failed", "done"}
        <3>1. ASSUME NEW at \in {"failed", "done"}, At(c, at)
              PROVE  /\ \A d \in Calls \ {c} : calls'[d] = calls[d]
                     /\ calls'[c].at = at
            BY <3>1, <1>a DEF At, Call
        <3>2. CASE AwaitGate(c) \/ EnsureBootstrapped(c)
            BY <3>2, <1>a DEF AwaitGate, EnsureBootstrapped, Call
        <3>3. CASE Refused(c) \/ RefreshMetadataFails(c)
            BY <3>1, <3>3 DEF Refused, RefreshMetadataFails, Throw
        <3>4. CASE GateRejects(c) \/ GateOpens(c)
            BY <3>1, <3>4 DEF GateRejects, GateOpens, Throw
        <3> QED BY <1>8, <3>2, <3>3, <3>4
    <2> QED BY <1>1, <2>1, <2>2
<1> QED
    BY <1>3, <1>4, <1>5, <1>6, <1>7, <1>8 DEF Next, LoopStep, CallStep, LoopAlone

-----------------------------------------------------------------------------

\* The gate's promise stays settleable.
LEMMA GateStep ==
    ASSUME TypeOK, CurrentCanBeSettled, [Next]_vars
    PROVE  CurrentCanBeSettled'
<1>1. CASE UNCHANGED gate
    BY <1>1 DEF gate, CurrentCanBeSettled, Current
<1>2. CASE Reset
    BY <1>2, ResetStep DEF CurrentCanBeSettled, Current
<1>3. ASSUME NEW outcome \in {"resolved", "rejected"}, Settle(outcome)
      PROVE  CurrentCanBeSettled'
    BY <1>3, SettleStep DEF CurrentCanBeSettled, Current, Settled
<1>4. UNCHANGED vars \/ LoopAlone => UNCHANGED gate
    BY LoopAloneStep DEF vars, gate
<1>5. RequestStarts => UNCHANGED gate \/ Reset
    BY DEF RequestStarts
<1>6. ReceiveSnapshot => Settle("resolved")
    BY DEF ReceiveSnapshot
<1>7. \A c \in Reconnects : Reconnect(c) => Reset
    BY DEF Reconnect
<1>8. \A c \in Reconnects :
        Refused(c) \/ TransportDisposed(c) \/ RefreshMetadataFails(c)
          => Settle("rejected")
    BY DEF Refused, TransportDisposed, RefreshMetadataFails, Throw
<1>9. \A c \in Calls : GateRejects(c) => Settle("rejected") \/ UNCHANGED gate
    BY DEF GateRejects, Throw
<1>10. \A c \in Calls :
         ReplaceSession(c) \/ CloseSession(c) \/ AwaitGate(c) \/ GateOpens(c)
           \/ EnsureBootstrapped(c) => UNCHANGED gate
    BY DEF ReplaceSession, CloseSession, AwaitGate, GateOpens, EnsureBootstrapped
<1> QED
    BY <1>1, <1>2, <1>3, <1>4, <1>5, <1>6, <1>7, <1>8, <1>9, <1>10
    DEF Next, LoopStep, CallStep, LoopAlone, Calls

\* What ResolvedBySnapshot and AnswersFollowSnapshots say of one caller.
Trusts(c) ==
    /\ calls[c].since <= applied
    /\ calls[c].at = "waiting" => calls[c].promise \in 1..Current
    /\ calls[c].since = applied =>
         /\ promises[Current] # "resolved"
         /\ calls[c].at = "waiting" => promises[calls[c].promise] # "resolved"
    /\ calls[c].at = "done" => applied > calls[c].since

\* A caller keeps its trust while the gate changes as it may.
LEMMA TrustKept ==
    ASSUME TypeOK, CurrentCanBeSettled, NEW c \in Calls, Trusts(c),
           calls'[c] = calls[c],
           \/ UNCHANGED <<promises, applied>>
           \/ Reset /\ UNCHANGED applied
           \/ Settle("rejected") /\ UNCHANGED applied
           \/ Settle("resolved") /\ applied' = applied + 1
    PROVE  Trusts(c)'
<1>a. /\ Len(promises) \in Nat \ {0} /\ applied \in Nat
      /\ calls[c].since \in Nat /\ calls[c].promise \in Nat
    BY DEF TypeOK, Call
<1>1. CASE UNCHANGED <<promises, applied>>
    BY <1>1 DEF Trusts, Current
<1>2. CASE Reset /\ UNCHANGED applied
    BY <1>2, <1>a, ResetStep DEF Trusts, Current
<1>3. CASE Settle("rejected") /\ UNCHANGED applied
    <2>1. /\ Len(promises') = Len(promises)
          /\ \A p \in 1..Len(promises) : promises'[p] \in {promises[p], "rejected"}
        BY <1>3, SettleStep DEF Settled
    <2> QED BY <1>3, <1>a, <2>1 DEF Trusts, Current
<1>4. CASE Settle("resolved") /\ applied' = applied + 1
    <2>1. Len(promises') = Len(promises)
        BY <1>4, SettleStep DEF Settled
    <2> QED BY <1>4, <1>a, <2>1 DEF Trusts, Current
<1> QED BY <1>1, <1>2, <1>3, <1>4

LEMMA AnswerStep ==
    ASSUME TypeOK, CurrentCanBeSettled, [Next]_vars, \A c \in Calls : Trusts(c)
    PROVE  \A c \in Calls : Trusts(c)'
<1> USE DEF Calls
<1>a. /\ Len(promises) \in Nat \ {0} /\ applied \in Nat
      /\ calls \in [Calls -> Call]
      /\ \A d \in Calls : calls[d].since \in Nat /\ calls[d].promise \in Nat
    BY DEF TypeOK, Call
<1>1. CASE UNCHANGED calls
    <2>1. \/ UNCHANGED <<promises, applied>>
          \/ Reset /\ UNCHANGED applied
          \/ Settle("resolved") /\ applied' = applied + 1
        <3>1. UNCHANGED vars \/ LoopAlone => UNCHANGED <<promises, applied>>
            BY LoopAloneStep DEF vars, gate
        <3>2. RequestStarts => \/ UNCHANGED <<promises, applied>>
                               \/ Reset /\ UNCHANGED applied
            BY DEF RequestStarts, gate
        <3>3. ReceiveSnapshot => Settle("resolved") /\ applied' = applied + 1
            BY DEF ReceiveSnapshot
        <3>4. ASSUME NEW c \in Calls,
                     \/ ReplaceSession(c) \/ CloseSession(c) \/ AwaitGate(c)
                     \/ Refused(c) \/ TransportDisposed(c) \/ GateOpens(c)
                     \/ GateRejects(c) \/ Reconnect(c) \/ RefreshMetadataFails(c)
                     \/ EnsureBootstrapped(c)
              PROVE  FALSE
            <4>1. PICK at : calls'[c].at = at /\ calls[c].at # at
                BY <3>4, <1>a
                DEF ReplaceSession, CloseSession, AwaitGate, Refused,
                    TransportDisposed, GateOpens, GateRejects, Reconnect, Enter,
                    RefreshMetadataFails, EnsureBootstrapped, Throw, At, Call
            <4> QED BY <1>1, <4>1
        <3> QED
            BY <3>1, <3>2, <3>3, <3>4 DEF Next, LoopStep, CallStep, LoopAlone
    <2> QED BY <1>1, <2>1, TrustKept
\* A step of one caller: the others keep their trust.
<1>2. ASSUME NEW c \in Calls, \A d \in Calls \ {c} : calls'[d] = calls[d],
             Trusts(c)',
             \/ UNCHANGED <<promises, applied>>
             \/ Reset /\ UNCHANGED applied
             \/ Settle("rejected") /\ UNCHANGED applied
      PROVE  \A d \in Calls : Trusts(d)'
    BY <1>2, TrustKept
<1>3. ASSUME NEW c \in Reconnects, Reconnect(c) PROVE \A d \in Calls : Trusts(d)'
    <2>1. calls'[c].since = applied /\ calls'[c].at \in {"refused", "queued"}
        BY <1>3, <1>a DEF Reconnect, Enter, Call
    <2>2. Reset /\ UNCHANGED applied
        BY <1>3 DEF Reconnect
    <2>3. Trusts(c)'
        BY <2>1, <2>2, <1>a, ResetStep DEF Trusts, Current
    <2> QED BY <1>2, <1>3, <1>a, <2>2, <2>3 DEF Reconnect, Enter
\* Steps that move c to a place where it awaits nothing.
<1>4. ASSUME NEW c \in Calls, NEW at \in {"closing", "metadata", "failed"}, At(c, at),
             \/ UNCHANGED <<promises, applied>>
             \/ Settle("rejected") /\ UNCHANGED applied
      PROVE  \A d \in Calls : Trusts(d)'
    <2>1. calls'[c].since = calls[c].since /\ calls'[c].at = at
        BY <1>4, <1>a DEF At, Call
    <2>2. Trusts(c)'
        <3>1. CASE UNCHANGED <<promises, applied>>
            BY <2>1, <3>1 DEF Trusts, Current
        <3>2. CASE Settle("rejected") /\ UNCHANGED applied
            <4>1. /\ Len(promises') = Len(promises)
                  /\ promises'[Len(promises)] \in {promises[Len(promises)], "rejected"}
                BY <3>2, <1>a, SettleStep DEF Settled
            <4> QED BY <2>1, <3>2, <4>1 DEF Trusts, Current
        <3> QED BY <1>4, <3>1, <3>2
    <2> QED BY <1>2, <1>4, <1>a, <2>2 DEF At
<1>5. ASSUME NEW c \in Calls, AwaitGate(c) \/ EnsureBootstrapped(c)
      PROVE  \A d \in Calls : Trusts(d)'
    <2>1. /\ calls'[c].since = calls[c].since /\ calls'[c].at = "waiting"
          /\ calls'[c].promise = Len(promises)
        BY <1>5, <1>a DEF AwaitGate, EnsureBootstrapped, Call, Current
    <2>2. UNCHANGED <<promises, applied>>
        BY <1>5 DEF AwaitGate, EnsureBootstrapped, gate
    <2>3. Trusts(c)'
        BY <1>a, <2>1, <2>2 DEF Trusts, Current
    <2> QED BY <1>2, <1>5, <1>a, <2>2, <2>3 DEF AwaitGate, EnsureBootstrapped
<1>6. ASSUME NEW c \in Calls, GateOpens(c) PROVE \A d \in Calls : Trusts(d)'
    <2>1. calls'[c].since = calls[c].since /\ calls'[c].at = "done"
        BY <1>6, <1>a DEF GateOpens, At, Call
    <2>2. UNCHANGED <<promises, applied>>
        BY <1>6 DEF GateOpens, gate
    <2>3. Trusts(c)'
        BY <1>6, <1>a, <2>1, <2>2 DEF GateOpens, Trusts, Current
    <2> QED BY <1>2, <1>6, <1>a, <2>2, <2>3 DEF GateOpens, At
<1>7. ASSUME NEW c \in Calls,
             \/ ReplaceSession(c) \/ CloseSession(c) \/ Refused(c)
             \/ TransportDisposed(c) \/ GateRejects(c) \/ RefreshMetadataFails(c)
      PROVE  \A d \in Calls : Trusts(d)'
    <2>1. CASE ReplaceSession(c) \/ CloseSession(c)
        BY <1>4, <2>1 DEF ReplaceSession, CloseSession, gate
    <2>2. CASE Refused(c) \/ TransportDisposed(c) \/ RefreshMetadataFails(c)
        BY <1>4, <2>2 DEF Refused, TransportDisposed, RefreshMetadataFails, Throw
    <2>3. CASE GateRejects(c)
        BY <1>4, <2>3 DEF GateRejects, Throw, gate
    <2> QED BY <1>7, <2>1, <2>2, <2>3
<1>8. CASE UNCHANGED vars \/ LoopAlone \/ RequestStarts \/ ReceiveSnapshot
    BY <1>1, <1>8, LoopAloneStep DEF vars, RequestStarts, ReceiveSnapshot
<1> QED
    BY <1>3, <1>5, <1>6, <1>7, <1>8 DEF Next, LoopStep, CallStep, LoopAlone

-----------------------------------------------------------------------------

LEMMA TrustsAll ==
    (\A c \in Calls : Trusts(c)) <=> ResolvedBySnapshot /\ AnswersFollowSnapshots
    BY DEF Trusts, ResolvedBySnapshot, AnswersFollowSnapshots

LEMMA InvInit == Init => ConnectionInv
<1> SUFFICES ASSUME Init PROVE ConnectionInv
    OBVIOUS
<1>1. /\ promises \in Seq(Outcome) /\ promises # <<>>
      /\ Len(promises) = 1 /\ promises[1] = "pending" /\ settler = 1
    BY DEF Init, Outcome
<1>2. /\ calls \in [Calls -> Call]
      /\ \A c \in Calls : calls[c].at = "none" /\ calls[c].since = 0
    BY DEF Init, Call
<1>3. TypeOK
    <2>1. loop \in Loop
        BY DEF Init, Loop
    <2>2. received \in BOOLEAN /\ disposed \in BOOLEAN
        BY DEF Init
    <2>3. /\ settler \in Nat /\ session \in Nat /\ applied \in Nat
          /\ chain \in Seq(Reconnects) /\ faultCount \in 0..MaxFaults
        BY DEF Init
    <2> QED BY <1>1, <1>2, <2>1, <2>2, <2>3 DEF TypeOK
<1>4. ChainHolds
    BY <1>2 DEF ChainHolds, Calls
<1>5. CurrentCanBeSettled
    BY <1>1 DEF CurrentCanBeSettled, Current
<1>6. ResolvedBySnapshot /\ AnswersFollowSnapshots
    BY <1>1, <1>2 DEF Init, ResolvedBySnapshot, AnswersFollowSnapshots, Current
<1> QED BY <1>3, <1>4, <1>5, <1>6 DEF ConnectionInv

\* The connection's inductive invariant: the chain of reconnects, the gate's
\* resolver and what a resolved promise says of snapshots.
THEOREM ConnectionInvariant == Spec => []ConnectionInv
<1>1. ConnectionInv /\ [Next]_vars => ConnectionInv'
    <2> SUFFICES ASSUME ConnectionInv, [Next]_vars PROVE ConnectionInv'
        OBVIOUS
    <2>1. TypeOK /\ ChainHolds /\ CurrentCanBeSettled /\ \A c \in Calls : Trusts(c)
        BY TrustsAll DEF ConnectionInv
    <2>2. TypeOK' /\ ChainHolds' /\ CurrentCanBeSettled'
        BY <2>1, TypeStep, ChainStep, GateStep
    <2>3. (\A c \in Calls : Trusts(c))'
        BY <2>1, AnswerStep DEF Calls
    <2>4. (ResolvedBySnapshot /\ AnswersFollowSnapshots)'
        BY <2>3 DEF Trusts, ResolvedBySnapshot, AnswersFollowSnapshots, Calls
    <2> QED BY <2>2, <2>4 DEF ConnectionInv
<1> QED BY <1>1, InvInit, PTL DEF Spec

\* The connection's state stays well typed.
THEOREM TypeCorrect == Spec => []TypeOK
<1>1. ConnectionInv => TypeOK
    BY DEF ConnectionInv
<1> QED BY <1>1, ConnectionInvariant, PTL

\* The gate's promise is pending exactly while something can settle it.
THEOREM GateCanBeSettled == Spec => []CurrentCanBeSettled
<1>1. ConnectionInv => CurrentCanBeSettled
    BY DEF ConnectionInv
<1> QED BY <1>1, ConnectionInvariant, PTL

\* No reconnect returns, and nobody is told that the environment is there,
\* before a snapshot of its own has been applied.
THEOREM SnapshotsPrecedeAnswers == Spec => []AnswersFollowSnapshots
<1>1. ConnectionInv => AnswersFollowSnapshots
    BY DEF ConnectionInv
<1> QED BY <1>1, ConnectionInvariant, PTL
=============================================================================
