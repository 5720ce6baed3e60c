------------------------ MODULE EnvironmentConnection ------------------------
(***************************************************************************)
(* A web client's connection to one environment (environments/runtime/     *)
(* connection.ts, rpc/wsTransport.ts): the gate that whoever needs the     *)
(* environment's first snapshot waits at, the loop that keeps the shell    *)
(* subscription going, and reconnects, which replace the transport's       *)
(* session under both.                                                     *)
(*                                                                         *)
(* Everything runs on one thread, between awaits.  A session is its        *)
(* number.  What a snapshot says is in ShellSubscription.                  *)
(***************************************************************************)
EXTENDS Naturals, Sequences

CONSTANTS
    Reconnects,  \* calls of reconnect
    Waiters,     \* calls of ensureBootstrapped
    MayDispose,  \* the connection may be disposed of
    Faults,      \* kinds of failure
    MaxFaults    \* bound: failures in a behaviour

FaultKind == {"drop", "snapshot", "metadata"}

ASSUME ConnectionAssumption ==
    /\ Reconnects \cap Waiters = {}
    /\ MayDispose \in BOOLEAN
    /\ Faults \subseteq FaultKind
    /\ MaxFaults \in Nat

Calls == Reconnects \cup Waiters

VARIABLES
    \* the gate of connection.ts
    promises,    \* what became of each promise; the last is the gate's
    settler,     \* the promise resolve and reject act on, 0 for none
    \* the transport
    session,     \* the session in use
    chain,       \* reconnects in progress, in order
    disposed,
    \* the loop of the shell subscription
    loop,        \* where it is, and on which session
    received,    \* hasReceivedValue
    \* callers
    calls,       \* where each is, and the promise it awaits
    \* history
    applied,     \* snapshots handed to syncShellSnapshot
    faultCount

gate == <<promises, settler>>
transport == <<session, chain, disposed>>
subscription == <<loop, received>>
vars == <<gate, transport, subscription, calls, applied, faultCount>>

Outcome == {"pending", "resolved", "rejected"}

Loop == [at : {"start", "request", "stream", "live", "ended"}, session : Nat,
         hook : BOOLEAN]

\* since: snapshots applied when reconnect was called.
Call == [at : {"none", "refused", "queued", "closing", "metadata", "waiting",
               "done", "failed"},
         promise : Nat, since : Nat]

TypeOK ==
    /\ promises \in Seq(Outcome) /\ promises # <<>>
    /\ settler \in Nat
    /\ session \in Nat
    /\ chain \in Seq(Reconnects)
    /\ disposed \in BOOLEAN
    /\ loop \in Loop
    /\ received \in BOOLEAN
    /\ calls \in [Calls -> Call]
    /\ applied \in Nat
    /\ faultCount \in 0..MaxFaults

Init ==
    /\ promises = <<"pending">>
    /\ settler = 1
    /\ session = 1
    /\ chain = <<>>
    /\ disposed = FALSE
    /\ loop = [at |-> "start", session |-> 0, hook |-> FALSE]
    /\ received = FALSE
    /\ calls = [c \in Calls |-> [at |-> "none", promise |-> 0, since |-> 0]]
    /\ applied = 0
    /\ faultCount = 0

-----------------------------------------------------------------------------
(* The gate.                                                               *)

Current == Len(promises)

Settle(outcome) ==
    /\ promises' = [p \in DOMAIN promises |->
                      IF p = settler THEN outcome ELSE promises[p]]
    /\ settler' = 0

\* Bug to find: the new promise is made without its resolver.
ResetWithoutResolver ==
    /\ promises' = Append(promises, "pending")
    /\ UNCHANGED settler

\* The promise that is replaced stays as it is for whoever awaits it.
Reset ==
    /\ promises' = Append(promises, "pending")
    /\ settler' = Len(promises')

Fault(kind) ==
    /\ kind \in Faults
    /\ faultCount < MaxFaults
    /\ faultCount' = faultCount + 1

-----------------------------------------------------------------------------
(* The loop of WsTransport.subscribe.                                      *)

\* The hook for the request's start is there once a value has been received.
RunStream ==
    /\ loop.at = "start" /\ ~disposed
    /\ loop' = [at |-> "request", session |-> session, hook |-> received]
    /\ UNCHANGED <<gate, transport, received, calls, applied, faultCount>>

\* onResubscribe.
RequestStarts ==
    /\ loop.at = "request" /\ loop.session = session
    /\ loop' = [loop EXCEPT !.at = "stream"]
    /\ IF loop.hook THEN Reset ELSE UNCHANGED gate
    /\ UNCHANGED <<transport, received, calls, applied, faultCount>>

\* A stream on a session that is being closed still delivers.
Delivers ==
    \/ loop.session = session
    \/ \E c \in Reconnects : calls[c].at = "closing"

\* Bug to find: only the first snapshot opens the gate.
ReceiveFirstSnapshot ==
    /\ loop.at = "stream" /\ Delivers
    /\ loop' = [loop EXCEPT !.at = "live"]
    /\ received' = TRUE
    /\ applied' = applied + 1
    /\ IF received THEN UNCHANGED gate ELSE Settle("resolved")
    /\ UNCHANGED <<transport, calls, faultCount>>

\* The listener applies the snapshot and resolves the gate.
ReceiveSnapshot ==
    /\ loop.at = "stream" /\ Delivers
    /\ loop' = [loop EXCEPT !.at = "live"]
    /\ received' = TRUE
    /\ applied' = applied + 1
    /\ Settle("resolved")
    /\ UNCHANGED <<transport, calls, faultCount>>

Running == loop.at \in {"request", "stream", "live"}

\* Bug to find: the loop starts again on the session it had.
SessionLostKeepsSession ==
    /\ Running /\ loop.session # session
    /\ loop' = [loop EXCEPT !.at = "request"]
    /\ UNCHANGED <<gate, transport, received, calls, applied, faultCount>>

\* The stream ends with its session; the loop goes on with the new one.
SessionLost ==
    /\ Running /\ loop.session # session
    /\ loop' = [loop EXCEPT !.at = "start"]
    /\ UNCHANGED <<gate, transport, received, calls, applied, faultCount>>

\* A connection error: the loop tries again after a while.
Drop ==
    /\ Running /\ loop.session = session /\ ~disposed
    /\ Fault("drop")
    /\ loop' = [loop EXCEPT !.at = "start"]
    /\ UNCHANGED <<gate, transport, received, calls, applied>>

\* Any other error ends the subscription for good.
SnapshotFails ==
    /\ loop.at = "stream" /\ loop.session = session
    /\ Fault("snapshot")
    /\ loop' = [loop EXCEPT !.at = "ended"]
    /\ UNCHANGED <<gate, transport, received, calls, applied>>

-----------------------------------------------------------------------------
(* reconnect, and ensureBootstrapped.                                      *)

At(c, where) == calls' = [calls EXCEPT ![c].at = where]

\* The reconnects of a transport run one after another, until it is disposed.
Enter(c) ==
    /\ calls' = [calls EXCEPT ![c].at = IF disposed THEN "refused" ELSE "queued",
                              ![c].since = applied]
    /\ chain' = IF disposed THEN chain ELSE Append(chain, c)

\* Bug to find: the caller waits for the snapshot it already has.
ReconnectWithoutReset(c) ==
    /\ calls[c].at = "none"
    /\ Enter(c)
    /\ UNCHANGED <<gate, session, disposed, subscription, applied, faultCount>>

Reconnect(c) ==
    /\ calls[c].at = "none"
    /\ Reset
    /\ Enter(c)
    /\ UNCHANGED <<session, disposed, subscription, applied, faultCount>>

ReplaceSession(c) ==
    /\ calls[c].at = "queued" /\ Head(chain) = c /\ ~disposed
    /\ session' = session + 1
    /\ At(c, "closing")
    /\ UNCHANGED <<gate, chain, disposed, subscription, applied, faultCount>>

\* The previous session is closed.
CloseSession(c) ==
    /\ calls[c].at = "closing"
    /\ chain' = Tail(chain)
    /\ At(c, "metadata")
    /\ UNCHANGED <<gate, session, disposed, subscription, applied, faultCount>>

\* The gate's promise is the one there is by now.
AwaitGate(c) ==
    /\ calls[c].at = "metadata"
    /\ calls' = [calls EXCEPT ![c].at = "waiting", ![c].promise = Current]
    /\ UNCHANGED <<gate, transport, subscription, applied, faultCount>>

\* Whatever fails in reconnect also rejects the gate's latest promise.
Throw(c) ==
    /\ At(c, "failed")
    /\ Settle("rejected")

RefreshMetadataFails(c) ==
    /\ calls[c].at = "metadata"
    /\ Fault("metadata")
    /\ Throw(c)
    /\ UNCHANGED <<transport, subscription, applied>>

Refused(c) ==
    /\ calls[c].at = "refused"
    /\ Throw(c)
    /\ UNCHANGED <<transport, subscription, applied, faultCount>>

\* Its turn comes after the disposal.
TransportDisposed(c) ==
    /\ calls[c].at = "queued" /\ Head(chain) = c /\ disposed
    /\ Throw(c)
    /\ chain' = Tail(chain)
    /\ UNCHANGED <<session, disposed, subscription, applied, faultCount>>

GateRejects(c) ==
    /\ calls[c].at = "waiting" /\ promises[calls[c].promise] = "rejected"
    /\ IF c \in Reconnects THEN Throw(c) ELSE At(c, "failed") /\ UNCHANGED gate
    /\ UNCHANGED <<transport, subscription, applied, faultCount>>

GateOpens(c) ==
    /\ calls[c].at = "waiting" /\ promises[calls[c].promise] = "resolved"
    /\ At(c, "done")
    /\ UNCHANGED <<gate, transport, subscription, applied, faultCount>>

EnsureBootstrapped(w) ==
    /\ calls[w].at = "none"
    /\ calls' = [calls EXCEPT ![w].at = "waiting", ![w].promise = Current]
    /\ UNCHANGED <<gate, transport, subscription, applied, faultCount>>

\* cleanup ends the loop; nobody settles the gate.
Dispose ==
    /\ MayDispose /\ ~disposed
    /\ disposed' = TRUE
    /\ loop' = [loop EXCEPT !.at = "ended"]
    /\ UNCHANGED <<gate, session, chain, received, calls, applied, faultCount>>

-----------------------------------------------------------------------------

LoopStep == RunStream \/ RequestStarts \/ ReceiveSnapshot \/ SessionLost

CallStep(c) ==
    \/ /\ c \in Reconnects
       /\ \/ ReplaceSession(c) \/ CloseSession(c) \/ AwaitGate(c)
          \/ Refused(c) \/ TransportDisposed(c)
    \/ GateOpens(c) \/ GateRejects(c)

Next ==
    \/ LoopStep \/ Drop \/ SnapshotFails
    \/ \E c \in Calls : CallStep(c)
    \/ \E c \in Reconnects : Reconnect(c) \/ RefreshMetadataFails(c)
    \/ \E w \in Waiters : EnsureBootstrapped(w)
    \/ Dispose

Spec == Init /\ [][Next]_vars

\* The server answers, and the event loop goes on.
FairSpec ==
    Spec /\ WF_vars(LoopStep) /\ \A c \in Calls : WF_vars(CallStep(c))

-----------------------------------------------------------------------------
(* Properties.                                                             *)

\* The gate's promise is pending exactly as long as there is something to
\* settle it with, whichever of loop and callers reset it last.
CurrentCanBeSettled ==
    (promises[Current] = "pending" /\ settler = Current)
        \/ (promises[Current] # "pending" /\ settler = 0)

\* "Waits for a fresh shell snapshot after reconnect" (connection.test.ts),
\* also when several reconnects and resubscriptions overlap: a reconnect that
\* returns saw a snapshot applied after it was called, and whoever is told
\* that the environment is bootstrapped finds one.
AnswersFollowSnapshots ==
    \A c \in Calls : calls[c].at = "done" => applied > calls[c].since

Over == disposed \/ loop.at = "ended"

\* Around overlapping reconnects and dropped connections the subscription
\* ends up live on the session in use with the gate settled, so that whoever
\* asks from then on gets an answer, unless one snapshot's failure has ended
\* the loop.
ConnectionSettles ==
    <>[](\/ Over
         \/ /\ chain = <<>>
            /\ loop.at = "live" /\ loop.session = session
            /\ promises[Current] # "pending")

Answered(c) == calls[c].at \in {"done", "failed"}

\* Only a replaced promise, or a subscription that is over, keeps a caller
\* waiting.
OnlyReplacedPromisesHang ==
    \A c \in Calls :
        (calls[c].at = "waiting")
            ~> (Answered(c) \/ Over \/ calls[c].promise < Current)

\* "emitShellSnapshot(2); await reconnectPromise" (connection.test.ts): a
\* reconnect returns when the new session's snapshot has come.
EveryReconnectReturns ==
    \A c \in Reconnects : (calls[c].at = "waiting") ~> Answered(c)

\* A reconnect that is queued is in the chain; one that closes its
\* predecessor's session is at its head.
ChainHolds ==
    \A c \in Reconnects :
        /\ calls[c].at = "closing" => chain # <<>> /\ Head(chain) = c
        /\ calls[c].at = "queued" => \E i \in 1..Len(chain) : chain[i] = c

\* A promise is resolved by a snapshot, so as long as none has come since a
\* call's start, neither the gate's promise nor the one it awaits is.
ResolvedBySnapshot ==
    \A c \in Calls :
        /\ calls[c].since <= applied
        /\ calls[c].at = "waiting" => calls[c].promise \in 1..Current
        /\ calls[c].since = applied =>
             /\ promises[Current] # "resolved"
             /\ calls[c].at = "waiting" => promises[calls[c].promise] # "resolved"

\* The inductive invariant of EnvironmentConnection_proofs.
ConnectionInv ==
    /\ TypeOK
    /\ ChainHolds
    /\ CurrentCanBeSettled
    /\ ResolvedBySnapshot
    /\ AnswersFollowSnapshots
=============================================================================
