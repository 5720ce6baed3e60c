------------------------ MODULE ProviderSessions_proofs ------------------------
(***************************************************************************)
(* Theorems of ProviderSessions, for any number of requests, faults and    *)
(* sweeps: once everybody is idle a live session is listed as running, the *)
(* thread shows the session and the turn the provider has, and the session *)
(* works in the thread's mode, each unless the code left one of the        *)
(* mishaps it names to chance.                                             *)
(***************************************************************************)
EXTENDS ProviderSessions, TLAPS

USE SessionsAssumption DEF SessionsAssumption

\* TypeOK in parts.
ThreadOK == thread \in [deleted : BOOLEAN, mode : Mode, session : Session]
BindingOK == binding \in [status : {"none", "running", "stopped"}, mode : Mode]
AdapterOK == adapter \in Entry
OrphansOK == orphans \subseteq [id : 0..MaxSessions, turn : 0..MaxRequests]
RuntimeOK == runtime \in Seq(RuntimeEvent)
RequestsOK == requests \in Seq(Request)
CallsOK == calls \in [Callers -> Call]
StopsOK == stops \in [Stoppers -> Stop]
IngestionOK == ingestion \in [busy : BOOLEAN, event : RuntimeEvent, seen : Session]
AskedOK == asked \in 0..MaxRequests
FaultsOK == faults \in 0..MaxFaults
SweepsOK == sweeps \in 0..MaxSweeps
MishapsOK == mishaps \subseteq {"hidden", "raced", "evicted", "crossed", "unsent", "reverted",
                                "cleared", "overwritten", "unheard", "unstarted",
                                "restarted"}

LEMMA Parts ==
    TypeOK <=> /\ ThreadOK /\ BindingOK /\ AdapterOK /\ OrphansOK /\ RuntimeOK
               /\ RequestsOK /\ CallsOK /\ StopsOK /\ IngestionOK
               /\ AskedOK /\ FaultsOK /\ SweepsOK /\ MishapsOK
    BY DEF TypeOK, ThreadOK, BindingOK, AdapterOK, OrphansOK, RuntimeOK, RequestsOK,
           CallsOK, StopsOK, IngestionOK, AskedOK, FaultsOK, SweepsOK, MishapsOK

LEMMA PartsNext ==
    ASSUME ThreadOK', BindingOK', AdapterOK', OrphansOK', RuntimeOK',
           RequestsOK', CallsOK', StopsOK', IngestionOK',
           AskedOK', FaultsOK', SweepsOK', MishapsOK'
    PROVE  TypeOK'
    BY Zenon DEF TypeOK, ThreadOK, BindingOK, AdapterOK, OrphansOK, RuntimeOK, RequestsOK,
           CallsOK, StopsOK, IngestionOK, AskedOK, FaultsOK, SweepsOK, MishapsOK

LEMMA Kept ==
    ASSUME TypeOK
    PROVE  /\ UNCHANGED thread => ThreadOK'
           /\ UNCHANGED binding => BindingOK'
           /\ UNCHANGED adapter => AdapterOK'
           /\ UNCHANGED orphans => OrphansOK'
           /\ UNCHANGED runtime => RuntimeOK'
           /\ UNCHANGED requests => RequestsOK'
           /\ UNCHANGED calls => CallsOK'
           /\ UNCHANGED stops => StopsOK'
           /\ UNCHANGED ingestion => IngestionOK'
           /\ UNCHANGED asked => AskedOK'
           /\ UNCHANGED faults => FaultsOK'
           /\ UNCHANGED sweeps => SweepsOK'
           /\ UNCHANGED mishaps => MishapsOK'
<1>a. TypeOK
    OBVIOUS
<1>1. UNCHANGED thread => ThreadOK'
    BY <1>a DEF TypeOK, ThreadOK
<1>2. UNCHANGED binding => BindingOK'
    BY <1>a DEF TypeOK, BindingOK
<1>3. UNCHANGED adapter => AdapterOK'
    BY <1>a DEF TypeOK, AdapterOK
<1>4. UNCHANGED ingestion => IngestionOK'
    BY <1>a DEF TypeOK, IngestionOK
<1>5. UNCHANGED calls => CallsOK'
    BY <1>a DEF TypeOK, CallsOK
<1>6. UNCHANGED runtime => RuntimeOK'
    BY <1>a DEF TypeOK, RuntimeOK
<1>7. UNCHANGED requests => RequestsOK'
    BY <1>a DEF TypeOK, RequestsOK
<1>8. UNCHANGED stops => StopsOK'
    BY <1>a DEF TypeOK, StopsOK
<1>9. UNCHANGED orphans => OrphansOK'
    BY <1>a DEF TypeOK, OrphansOK
<1> QED
    BY <1>a, <1>1, <1>2, <1>3, <1>4, <1>5, <1>6, <1>7, <1>8, <1>9
    DEF TypeOK, AskedOK, FaultsOK, SweepsOK, MishapsOK

-----------------------------------------------------------------------------
(* What the operators of several actions keep typed.                       *)

LEMMA Zero == 0 \in 0..MaxRequests /\ 0 \in Callers /\ 0 \in 0..MaxSessions
    BY DEF Callers

LEMMA NoSessionTyped == NoSession \in Session
    BY DEF NoSession, Session, Mode

LEMMA SessionEnded ==
    ASSUME NEW session \in Session, NEW status \in {"none", "live", "stopped"},
           NEW active \in 0..MaxRequests
    PROVE  /\ [session EXCEPT !.status = status] \in Session
           /\ [session EXCEPT !.status = status, !.active = active] \in Session
           /\ [session EXCEPT !.active = active] \in Session
    BY DEF Session

LEMMA IdleTyped == Idle \in Call
    BY NoSessionTyped, Zero DEF Idle, Call, Mode

LEMMA NoStopTyped == NoStop \in Stop
    BY DEF NoStop, Stop, Mode

LEMMA NoEntryTyped == NoEntry \in Entry /\ Closing \in Entry
    BY Zero DEF NoEntry, Closing, Entry, Mode

LEMMA NoEntryIs ==
    /\ NoEntry.at = "none" /\ NoEntry.turn = 0 /\ NoEntry.id = 0
    /\ Closing.at = "closing" /\ Closing.turn = 0 /\ Closing.id = 0
    BY DEF NoEntry, Closing

LEMMA EventTyped ==
    ASSUME NEW type \in {"session.started", "turn.started", "turn.completed",
                         "session.exited"}, NEW turn \in 0..MaxRequests
    PROVE  Event(type, turn) \in RuntimeEvent
    BY DEF Event, RuntimeEvent

LEMMA CompletedTyped ==
    ASSUME NEW turn \in 0..MaxRequests
    PROVE  Completed(turn) \in Seq(RuntimeEvent)
<1>1. Event("turn.completed", turn) \in RuntimeEvent
    BY EventTyped
<1> QED BY <1>1 DEF Completed

LEMMA ExitedTyped == Exited \in Seq(RuntimeEvent)
<1>1. Event("session.exited", 0) \in RuntimeEvent
    BY EventTyped, Zero
<1> QED BY <1>1 DEF Exited

LEMMA SetSessionTyped ==
    ASSUME TypeOK, NEW session \in Session, NEW seen, SetSession(session, seen)
    PROVE  ThreadOK' /\ MishapsOK'
<1>1. thread' = [thread EXCEPT !.session = session]
    BY DEF SetSession
<1>2. ThreadOK'
    BY <1>1 DEF TypeOK, ThreadOK
<1>3. MishapsOK'
    BY DEF SetSession, TypeOK, MishapsOK
<1> QED BY <1>2, <1>3

LEMMA AdapterSet ==
    ASSUME TypeOK, NEW turn \in 0..MaxRequests, adapter' = [adapter EXCEPT !.turn = turn]
    PROVE  AdapterOK' /\ adapter'.at = adapter.at /\ adapter'.turn = turn
           /\ adapter'.id = adapter.id /\ adapter'.mode = adapter.mode
<1>1. adapter \in Entry
    BY DEF TypeOK
<1> QED BY <1>1 DEF AdapterOK, Entry

\* The turn in the session ends, with events behind its completion.
LEMMA TurnEnded ==
    ASSUME TypeOK, NEW more \in Seq(RuntimeEvent), NEW turn \in 0..MaxRequests,
           \/ runtime' = runtime \o Completed(turn) \o more
           \/ runtime' = runtime \o Completed(turn)
           \/ runtime' = runtime \o more
    PROVE  RuntimeOK'
<1>a. runtime \in Seq(RuntimeEvent)
    BY DEF TypeOK
<1>1. Completed(turn) \in Seq(RuntimeEvent)
    BY CompletedTyped
<1>2. /\ runtime \o Completed(turn) \in Seq(RuntimeEvent)
      /\ runtime \o more \in Seq(RuntimeEvent)
    BY <1>a, <1>1
<1>3. (runtime \o Completed(turn)) \o more \in Seq(RuntimeEvent)
    BY <1>2
<1> QED BY <1>2, <1>3 DEF RuntimeOK

LEMMA AdapterTyped ==
    ASSUME TypeOK
    PROVE  /\ adapter.turn \in 0..MaxRequests /\ adapter.id \in 0..MaxSessions
           /\ adapter.mode \in Mode /\ adapter.at \in {"none", "live", "closing"}
    BY DEF TypeOK, Entry

LEMMA CloseTyped ==
    ASSUME TypeOK, Close
    PROVE  AdapterOK' /\ RuntimeOK'
<1>1. adapter' \in Entry
    BY NoEntryTyped DEF Close
<1>2. RuntimeOK'
    BY AdapterTyped, ExitedTyped, TurnEnded DEF Close
<1> QED BY <1>1, <1>2 DEF AdapterOK

LEMMA StraysTyped ==
    ASSUME TypeOK, NEW others, others \subseteq orphans, orphans' = Strays(others)
    PROVE  OrphansOK'
<1>1. /\ orphans \subseteq [id : 0..MaxSessions, turn : 0..MaxRequests]
      /\ [id |-> adapter.id, turn |-> adapter.turn]
           \in [id : 0..MaxSessions, turn : 0..MaxRequests]
    BY AdapterTyped DEF TypeOK
<1> QED BY <1>1 DEF Strays, OrphansOK

LEMMA ClosedTyped ==
    ASSUME TypeOK, Closed
    PROVE  AdapterOK' /\ RuntimeOK' /\ OrphansOK' /\ MishapsOK'
<1>1. adapter' \in Entry
    BY NoEntryTyped DEF Closed
<1>2. RuntimeOK'
    BY Zero, ExitedTyped, TurnEnded DEF Closed
<1>3. OrphansOK'
    BY StraysTyped DEF Closed
<1>4. MishapsOK'
    BY DEF Closed, TypeOK, MishapsOK
<1> QED BY <1>1, <1>2, <1>3, <1>4 DEF AdapterOK

LEMMA FailingTyped ==
    ASSUME TypeOK, NEW c \in Call
    PROVE  Failing(c) \in Call
<1>1. thread.session \in Session /\ c.turn \in 0..MaxRequests
    BY DEF TypeOK, Call
<1> QED BY <1>1, IdleTyped DEF Failing, Call

LEMMA SendingTyped ==
    ASSUME TypeOK, NEW cs \in [Callers -> Call], NEW turn \in 0..MaxRequests
    PROVE  Sending(cs, turn) \in [Callers -> Call]
<1>a. binding.mode \in Mode
    BY DEF TypeOK
<1>1. ASSUME NEW k \in Callers, k # 0
      PROVE  [Idle EXCEPT !.at = "route", !.turn = k, !.mode = binding.mode] \in Call
    BY <1>a, IdleTyped, <1>1 DEF Call, Callers
<1> QED BY <1>1 DEF Sending

LEMMA UpsertStatusTyped ==
    ASSUME TypeOK, NEW status \in {"running", "stopped"}, NEW read \in Mode,
           UpsertStatus(status, read)
    PROVE  /\ BindingOK' /\ MishapsOK' /\ mishaps \subseteq mishaps'
           /\ status = "stopped" /\ Live => "hidden" \in mishaps'
<1>1. BindingOK'
    BY DEF UpsertStatus, TypeOK, BindingOK
<1> QED BY <1>1 DEF UpsertStatus, TypeOK, MishapsOK

\* Replacing one caller's record.
LEMMA CallSet ==
    ASSUME TypeOK, NEW c \in Callers, NEW call \in Call,
           calls' = [calls EXCEPT ![c] = call]
    PROVE  CallsOK'
    BY DEF TypeOK, CallsOK

LEMMA CallMoved ==
    ASSUME TypeOK, NEW c \in Callers,
           NEW at \in {"replacing", "registering", "binding", "send", "unbinding"},
           calls' = [calls EXCEPT ![c].at = at]
    PROVE  CallsOK'
<1>a. calls[c] \in Call
    BY DEF TypeOK
<1>1. [calls[c] EXCEPT !.at = at] \in Call
    BY <1>a DEF Call
<1>2. calls' = [calls EXCEPT ![c] = [calls[c] EXCEPT !.at = at]]
    OBVIOUS
<1> QED BY <1>1, <1>2, CallSet

LEMMA SessionUpTyped ==
    ASSUME TypeOK, NEW c \in Callers, NEW mode \in Mode, SessionUp(c, mode)
    PROVE  AdapterOK' /\ RuntimeOK' /\ OrphansOK' /\ CallsOK' /\ MishapsOK'
<1>1. PICK id \in Free : adapter' = [at |-> "live", id |-> id, mode |-> mode, turn |-> 0]
    BY DEF SessionUp
<1>2. AdapterOK'
    BY <1>1, Zero DEF Free, AdapterOK, Entry
<1>3. RuntimeOK'
    BY Zero, EventTyped DEF SessionUp, TypeOK, RuntimeOK
<1>4. OrphansOK'
    BY StraysTyped DEF SessionUp
<1>5. CallsOK'
    BY CallMoved DEF SessionUp
<1>6. MishapsOK'
    BY DEF SessionUp, TypeOK, MishapsOK
<1> QED BY <1>2, <1>3, <1>4, <1>5, <1>6

LEMMA WritingTyped == ASSUME TypeOK PROVE Writing \in Stop
    BY DEF TypeOK, Writing, Stop

LEMMA StopSet ==
    ASSUME TypeOK, NEW s \in Stoppers, NEW stop \in Stop, stops' = [stops EXCEPT ![s] = stop]
    PROVE  StopsOK'
    BY DEF TypeOK, StopsOK

LEMMA StopMoved ==
    ASSUME TypeOK, NEW s \in Stoppers, NEW at \in {"due", "closing"},
           stops' = [stops EXCEPT ![s].at = at]
    PROVE  StopsOK'
<1>a. stops[s] \in Stop
    BY DEF TypeOK
<1>1. [stops[s] EXCEPT !.at = at] \in Stop
    BY <1>a DEF Stop
<1>2. stops' = [stops EXCEPT ![s] = [stops[s] EXCEPT !.at = at]]
    OBVIOUS
<1> QED BY <1>1, <1>2, StopSet

LEMMA StopperNames == "reactor" \in Stoppers /\ "deletion" \in Stoppers /\ "reaper" \in Stoppers
    BY DEF Stoppers

-----------------------------------------------------------------------------
(* Type correctness, group by group.                                       *)

LEMMA RequestTyped ==
    ASSUME TypeOK, NEW type \in {"turn", "stop", "mode"}, NEW turn \in 0..MaxRequests,
           requests' = Append(requests, [type |-> type, turn |-> turn])
    PROVE  RequestsOK'
    BY DEF TypeOK, RequestsOK, Request

LEMMA AsksTyped ==
    ASSUME TypeOK, Asks
    PROVE  AskedOK' /\ asked' = asked + 1 /\ asked' \in 0..MaxRequests
    BY DEF Asks, TypeOK, AskedOK

LEMMA ClientTyped == ASSUME TypeOK, Client PROVE TypeOK'
<1> USE DEF database, provider, server, history
<1>a. Asks
    BY DEF Client, RequestTurn, RequestStop, SetMode, Delete
<1>b. thread \in [deleted : BOOLEAN, mode : Mode, session : Session]
    BY DEF TypeOK
<1>1. CASE RequestTurn
    <2>1. RequestsOK'
        BY <1>1, <1>a, AsksTyped, RequestTyped DEF RequestTurn
    <2> QED BY <1>1, <1>a, <2>1, AsksTyped, Kept, PartsNext DEF RequestTurn
<1>2. CASE RequestStop
    <2>1. RequestsOK'
        BY <1>2, Zero, RequestTyped DEF RequestStop
    <2> QED BY <1>2, <1>a, <2>1, AsksTyped, Kept, PartsNext DEF RequestStop
<1>3. CASE SetMode
    <2>1. RequestsOK'
        BY <1>3, Zero, RequestTyped DEF SetMode
    <2>2. ThreadOK'
        BY <1>3, <1>b DEF SetMode, ThreadOK
    <2> QED BY <1>3, <1>a, <2>1, <2>2, AsksTyped, Kept, PartsNext DEF SetMode
<1>4. CASE Delete
    <2>1. ThreadOK'
        BY <1>4, <1>b DEF Delete, ThreadOK
    <2>2. StopsOK'
        BY <1>4, StopperNames, StopMoved DEF Delete
    <2> QED BY <1>4, <1>a, <2>1, <2>2, AsksTyped, Kept, PartsNext DEF Delete
<1> QED BY <1>1, <1>2, <1>3, <1>4 DEF Client

LEMMA TakesTyped ==
    ASSUME TypeOK, NEW types, Takes(types)
    PROVE  /\ RequestsOK' /\ Head(requests).turn \in 0..MaxRequests
           /\ Len(requests) \in Nat \ {0} /\ Head(requests) = requests[1]
<1>a. requests \in Seq(Request) /\ requests # <<>> /\ requests' = Tail(requests)
    BY DEF TypeOK, Takes
<1>1. Len(requests) \in Nat \ {0} /\ Head(requests) = requests[1]
    BY <1>a
<1>2. requests[1] \in Request
    BY <1>a, <1>1
<1>3. Tail(requests) \in Seq(Request)
    BY <1>a
<1> QED BY <1>a, <1>1, <1>2, <1>3 DEF RequestsOK, Request

LEMMA ReactorTyped ==
    ASSUME TypeOK,
           DropRequest \/ UseSession \/ StartSession \/ ReplaceSession \/ HandleStop
             \/ Unbind \/ Bind
    PROVE  TypeOK'
<1> USE DEF database, provider, server, history
<1>a. /\ thread \in [deleted : BOOLEAN, mode : Mode, session : Session]
      /\ calls \in [Callers -> Call]
    BY DEF TypeOK
<1>b. thread.session \in Session /\ thread.mode \in Mode
    BY <1>a
<1>1. CASE DropRequest
    <2>1. MishapsOK'
        BY <1>1 DEF DropRequest, TypeOK, MishapsOK
    <2> QED BY <1>1, <2>1, TakesTyped, Kept, PartsNext DEF DropRequest
<1>2. CASE UseSession
    <2>1. CallsOK'
        BY <1>2, <1>a, TakesTyped, SendingTyped DEF UseSession, CallsOK
    <2> QED BY <1>2, <2>1, TakesTyped, Kept, PartsNext DEF UseSession
<1>3. CASE StartSession
    <2>1. RequestsOK' /\ Head(requests).turn \in 0..MaxRequests
        BY <1>3, TakesTyped DEF StartSession
    <2>2. [Idle EXCEPT !.at = "ensuring", !.mode = thread.mode,
                       !.turn = Head(requests).turn, !.seen = thread.session] \in Call
        BY <1>b, <2>1, IdleTyped DEF Call
    <2>3. CallsOK'
        BY <1>3, <2>2, Zero, CallSet DEF StartSession
    <2> QED BY <1>3, <2>1, <2>3, Kept, PartsNext DEF StartSession
<1>4. CASE HandleStop
    <2> DEFINE stopping == [Idle EXCEPT !.at = "stopping", !.seen = thread.session]
    <2>1. stopping \in Call /\ [stopping EXCEPT !.at = "unbinding"] \in Call
        BY <1>b, IdleTyped DEF Call
    <2>2. CallsOK' /\ StopsOK'
        <3> HIDE DEF stopping
        <3>1. \/ /\ calls' = [calls EXCEPT ![0] = stopping]
                 /\ stops' = [stops EXCEPT !["reactor"].at = "due"]
              \/ /\ calls' = [calls EXCEPT ![0] = [stopping EXCEPT !.at = "unbinding"]]
                 /\ UNCHANGED stops
            BY <1>4 DEF HandleStop, stopping
        <3> QED BY <2>1, <3>1, Zero, CallSet, StopperNames, StopMoved, Kept
    <2> QED BY <1>4, <2>2, TakesTyped, Kept, PartsNext DEF HandleStop
<1>5. CASE ReplaceSession
    <2>1. CallsOK'
        BY <1>5, Zero, CallMoved DEF ReplaceSession
    <2> QED BY <1>5, <2>1, CloseTyped, Kept, PartsNext DEF ReplaceSession
<1>6. CASE Unbind
    <2>0. calls[0] \in Call
        BY <1>a, Zero
    <2>1. calls[0].seen \in Session
        BY <2>0 DEF Call
    <2> DEFINE seen == calls[0].seen
               session == [seen EXCEPT !.status = "stopped", !.active = 0]
    <2>2. session \in Session
        <3>1. seen \in Session
            BY <2>1
        <3> HIDE DEF seen
        <3> QED BY <3>1, Zero, SessionEnded
    <2>r. thread' = [thread EXCEPT !.session = session]
        BY <1>6 DEF Unbind
    <2>3. ThreadOK'
        <3> HIDE DEF session
        <3> QED BY <1>a, <2>2, <2>r DEF ThreadOK
    <2>4. MishapsOK'
        BY <1>6 DEF Unbind, TypeOK, MishapsOK
    <2>5. CallsOK'
        BY <1>6, Zero, IdleTyped, CallSet DEF Unbind
    <2> QED BY <1>6, <2>3, <2>4, <2>5, Kept, PartsNext DEF Unbind
<1>7. CASE Bind
    <2>1. calls[0].mode \in Mode /\ calls[0].turn \in 0..MaxRequests
        BY <1>a, Zero DEF Call
    <2>2. [status |-> "live", mode |-> calls[0].mode, active |-> 0] \in Session
        BY <2>1 DEF Session
    <2>3. ThreadOK' /\ MishapsOK'
        BY <1>7, <2>2, SetSessionTyped DEF Bind
    <2>4. [calls EXCEPT ![0] = Idle] \in [Callers -> Call]
        BY <1>a, IdleTyped
    <2>5. CallsOK'
        BY <1>7, <2>1, <2>4, SendingTyped DEF Bind, CallsOK
    <2> QED BY <1>7, <2>3, <2>5, Kept, PartsNext DEF Bind
<1> QED BY <1>1, <1>2, <1>3, <1>4, <1>5, <1>6, <1>7

LEMMA FaultTyped ==
    ASSUME TypeOK, faults < MaxFaults, faults' = faults + 1
    PROVE  FaultsOK'
    BY DEF TypeOK, FaultsOK

LEMMA TurnStartedTyped ==
    ASSUME TypeOK, NEW k \in Callers, TurnStarted(k)
    PROVE  AdapterOK' /\ RuntimeOK' /\ OrphansOK'
<1>a. k \in 0..MaxRequests /\ orphans \subseteq [id : 0..MaxSessions, turn : 0..MaxRequests]
    BY DEF Callers, TypeOK
<1>1. AdapterOK'
    BY <1>a, AdapterSet, Kept DEF TurnStarted
<1>2. RuntimeOK'
    <2>1. Event("turn.started", k) \in RuntimeEvent
        BY <1>a, EventTyped
    <2> QED BY <2>1 DEF TurnStarted, TypeOK, RuntimeOK
<1>3. OrphansOK'
    BY <1>a DEF TurnStarted, OrphansOK
<1> QED BY <1>1, <1>2, <1>3

LEMMA CallerTyped ==
    ASSUME TypeOK, NEW c \in Callers,
           \/ c = 0 /\ Started
           \/ Recover(c) \/ StartFails(c) \/ Register(c) \/ Send(c) \/ SendRefused(c)
           \/ Sent(c) \/ SendFails(c) \/ Rereads(c) \/ Record(c) \/ Clear(c)
    PROVE  TypeOK'
<1> USE DEF database, provider, server, history
<1>a. /\ calls[c] \in Call /\ binding.mode \in Mode /\ c \in 0..MaxRequests
      /\ thread \in [deleted : BOOLEAN, mode : Mode, session : Session]
    BY DEF TypeOK, Callers
<1>b. calls[c].mode \in Mode /\ calls[c].seen \in Session
    BY <1>a DEF Call
<1>f. ASSUME calls' = [calls EXCEPT ![c] = Failing(@)] PROVE CallsOK'
    BY <1>a, <1>f, FailingTyped, CallSet
<1>1. CASE (c = 0 /\ Started) \/ Recover(c)
    BY <1>1, <1>b, Zero, SessionUpTyped, Kept, PartsNext DEF Started, Recover
<1>2. CASE StartFails(c)
    <2>1. MishapsOK'
        BY <1>2 DEF StartFails, TypeOK, MishapsOK
    <2>2. AdapterOK' /\ OrphansOK'
        BY <1>2, NoEntryTyped, StraysTyped, Kept DEF StartFails, AdapterOK
    <2> QED BY <1>2, <1>f, <2>1, <2>2, FaultTyped, Kept, PartsNext DEF StartFails
<1>3. CASE Register(c)
    <2>1. BindingOK'
        BY <1>3, <1>b DEF Register, UpsertRunning, BindingOK
    <2>2. PICK at \in {"binding", "send"} : calls' = [calls EXCEPT ![c].at = at]
        BY <1>3 DEF Register
    <2>3. CallsOK'
        BY <2>2, CallMoved
    <2> QED BY <1>3, <2>1, <2>3, Kept, PartsNext DEF Register
<1>4. CASE Send(c)
    <2>1. Sends(c) \in Call
        BY <1>a, AdapterTyped, IdleTyped DEF Sends, Call
    <2>2. CallsOK' /\ AdapterOK'
        BY <1>4, <2>1, Zero, CallSet, AdapterSet DEF Send
    <2>3. RuntimeOK'
        BY <1>4, AdapterTyped, ExitedTyped, TurnEnded DEF Send
    <2>4. MishapsOK'
        BY <1>4 DEF Send, Crossing, TypeOK, MishapsOK
    <2> QED BY <1>4, <2>2, <2>3, <2>4, Kept, PartsNext DEF Send
<1>5. CASE SendRefused(c)
    BY <1>5, <1>f, Kept, PartsNext DEF SendRefused
<1>6. CASE Sent(c)
    <2>1. [Idle EXCEPT !.at = "recording", !.turn = c, !.mode = binding.mode] \in Call
        BY <1>a, IdleTyped DEF Call
    <2>2. CallsOK'
        BY <1>6, <2>1, CallSet DEF Sent
    <2>3. MishapsOK'
        BY <1>6 DEF Sent, TypeOK, MishapsOK
    <2> QED BY <1>6, <2>2, <2>3, TurnStartedTyped, Kept, PartsNext DEF Sent
<1>7. CASE SendFails(c)
    <2>1. AdapterOK' /\ RuntimeOK' /\ OrphansOK' /\ MishapsOK'
        <3>1. CASE UNCHANGED <<adapter, orphans, runtime, mishaps>>
            BY <3>1, Kept
        <3>2. CASE TurnStarted(c) /\ mishaps' = mishaps \cup {"unsent"}
            BY <3>2, TurnStartedTyped DEF TypeOK, MishapsOK
        <3> QED BY <1>7, <3>1, <3>2 DEF SendFails
    <2> QED BY <1>7, <1>f, <2>1, FaultTyped, Kept, PartsNext DEF SendFails
<1>8. CASE Rereads(c)
    <2>1. [calls[c] EXCEPT !.mode = binding.mode] \in Call
        BY <1>a DEF Call
    <2>2. calls' = [calls EXCEPT ![c] = [calls[c] EXCEPT !.mode = binding.mode]]
        BY <1>8 DEF Rereads
    <2>3. CallsOK'
        BY <2>1, <2>2, CallSet
    <2> QED BY <1>8, <2>3, Kept, PartsNext DEF Rereads
<1>9. CASE Record(c)
    <2>1. CallsOK'
        BY <1>9, IdleTyped, CallSet DEF Record
    <2> QED BY <1>9, <1>b, <2>1, UpsertStatusTyped, Kept, PartsNext DEF Record
<1>10. CASE Clear(c)
    <2>1. [calls[c].seen EXCEPT !.active = 0] \in Session
        BY <1>b DEF Session
    <2>2. ThreadOK'
        BY <1>10, <1>a, <2>1 DEF Clear, ThreadOK
    <2>3. MishapsOK'
        BY <1>10 DEF Clear, TypeOK, MishapsOK
    <2>4. CallsOK'
        BY <1>10, IdleTyped, CallSet DEF Clear
    <2> QED BY <1>10, <2>2, <2>3, <2>4, Kept, PartsNext DEF Clear
<1> QED BY <1>1, <1>2, <1>3, <1>4, <1>5, <1>6, <1>7, <1>8, <1>9, <1>10

LEMMA StopperTyped ==
    ASSUME TypeOK, ReaperChecks \/ \E s \in Stoppers : StopStep(s)
    PROVE  TypeOK'
<1> USE DEF database, provider, server, history
<1>1. CASE ReaperChecks
    <2>1. StopsOK'
        BY <1>1, StopperNames, StopMoved DEF ReaperChecks
    <2>2. SweepsOK'
        BY <1>1 DEF ReaperChecks, TypeOK, SweepsOK
    <2> QED BY <1>1, <2>1, <2>2, Kept, PartsNext DEF ReaperChecks
<1>2. ASSUME NEW s \in Stoppers, StopStep(s) PROVE TypeOK'
    <2>a. stops[s] \in Stop
        BY DEF TypeOK
    <2>b. stops[s].mode \in Mode
        BY <2>a DEF Stop
    <2>c. ASSUME stops' = [stops EXCEPT ![s] = Writing] PROVE StopsOK'
        BY <2>c, WritingTyped, StopSet
    <2>1. CASE StopFails(s)
        <3>1. StopsOK' /\ CallsOK'
            BY <2>1, Zero, NoStopTyped, StopSet, IdleTyped, CallSet, Kept DEF StopFails
        <3> QED BY <2>1, <3>1, Kept, PartsNext DEF StopFails
    <2>2. CASE StopBegins(s)
        <3>1. StopsOK' /\ AdapterOK' /\ RuntimeOK'
            BY <2>2, <2>c, StopMoved, CloseTyped, Kept DEF StopBegins
        <3> QED BY <2>2, <3>1, Kept, PartsNext DEF StopBegins
    <2>3. CASE StopEnds(s)
        BY <2>3, <2>c, ClosedTyped, Kept, PartsNext DEF StopEnds
    <2>4. CASE StopRereads(s)
        BY <2>4, <2>c, Kept, PartsNext DEF StopRereads
    <2>5. CASE StopRecorded(s)
        <3>1. StopsOK' /\ CallsOK'
            BY <2>5, Zero, NoStopTyped, StopSet, CallMoved, Kept DEF StopRecorded
        <3> QED BY <2>5, <2>b, <3>1, UpsertStatusTyped, Kept, PartsNext DEF StopRecorded
    <2> QED BY <1>2, <2>1, <2>2, <2>3, <2>4, <2>5 DEF StopStep
<1> QED BY <1>1, <1>2

LEMMA AtRestTyped == AtRest \in [busy : BOOLEAN, event : RuntimeEvent, seen : Session]
    BY Zero, EventTyped, NoSessionTyped DEF AtRest

LEMMA IngestionTyped == ASSUME TypeOK, Ingestion PROVE TypeOK'
<1> USE DEF database, provider, server, history
<1>a. /\ thread.session \in Session /\ runtime \in Seq(RuntimeEvent)
      /\ ingestion.event \in RuntimeEvent /\ ingestion.seen \in Session
    BY DEF TypeOK
<1>1. CASE IngestReads
    <2>1. Head(runtime) \in RuntimeEvent /\ Tail(runtime) \in Seq(RuntimeEvent)
        BY <1>1, <1>a DEF IngestReads
    <2>2. IngestionOK'
        BY <1>1, <1>a, <2>1, Kept DEF IngestReads, IngestionOK
    <2>3. RuntimeOK'
        BY <1>1, <2>1 DEF IngestReads, RuntimeOK
    <2> QED BY <1>1, <2>2, <2>3, Kept, PartsNext DEF IngestReads
<1>2. CASE IngestWrites
    <2>1. Reported(ingestion.event, ingestion.seen) \in Session
        <3>1. /\ ingestion.event.turn \in 0..MaxRequests
              /\ ingestion.event.type \in {"session.started", "turn.started",
                                           "turn.completed", "session.exited"}
            BY <1>a DEF RuntimeEvent
        <3> QED BY <1>a, <3>1, Zero, SessionEnded DEF Reported
    <2>2. ThreadOK' /\ MishapsOK'
        BY <1>2, <2>1, SetSessionTyped, Kept DEF IngestWrites
    <2>3. IngestionOK'
        BY <1>2, AtRestTyped DEF IngestWrites, IngestionOK
    <2> QED BY <1>2, <2>2, <2>3, Kept, PartsNext DEF IngestWrites
<1> QED BY <1>1, <1>2 DEF Ingestion

LEMMA ProviderTyped ==
    ASSUME TypeOK, TurnEnds \/ OrphanTurnEnds \/ SessionExits \/ OrphanExits \/ Restart
    PROVE  TypeOK'
<1> USE DEF database, provider, server, history
<1>a. /\ adapter.turn \in 0..MaxRequests
      /\ orphans \subseteq [id : 0..MaxSessions, turn : 0..MaxRequests]
    BY AdapterTyped DEF TypeOK
<1>1. CASE TurnEnds
    <2>1. AdapterOK'
        BY <1>1, Zero, AdapterSet DEF TurnEnds
    <2>2. RuntimeOK'
        BY <1>1, <1>a, ExitedTyped, TurnEnded DEF TurnEnds
    <2> QED BY <1>1, <2>1, <2>2, Kept, PartsNext DEF TurnEnds
<1>2. CASE OrphanTurnEnds
    <2>1. PICK o \in orphans : /\ orphans' = (orphans \ {o}) \cup {[o EXCEPT !.turn = 0]}
                               /\ runtime' = runtime \o Completed(o.turn)
        BY <1>2 DEF OrphanTurnEnds
    <2>2. o.turn \in 0..MaxRequests
        BY <1>a
    <2>3. RuntimeOK'
        BY <2>1, <2>2, ExitedTyped, TurnEnded
    <2>4. OrphansOK'
        BY <1>a, <2>1, Zero DEF OrphansOK
    <2> QED BY <1>2, <2>3, <2>4, Kept, PartsNext DEF OrphanTurnEnds
<1>3. CASE SessionExits
    <2>1. RuntimeOK'
        BY <1>3, <1>a, ExitedTyped, TurnEnded DEF SessionExits
    <2>2. AdapterOK'
        BY <1>3, NoEntryTyped DEF SessionExits, AdapterOK
    <2> QED BY <1>3, <2>1, <2>2, FaultTyped, Kept, PartsNext DEF SessionExits
<1>4. CASE OrphanExits
    <2>1. PICK o \in orphans :
            /\ orphans' = Strays(orphans \ {o})
            /\ runtime' = runtime \o Completed(o.turn) \o Exited
        BY <1>4 DEF OrphanExits
    <2>2. OrphansOK'
        BY <2>1, StraysTyped
    <2>3. AdapterOK'
        BY <1>4, NoEntryTyped DEF OrphanExits, AdapterOK
    <2>4. o.turn \in 0..MaxRequests
        BY <1>a
    <2>5. RuntimeOK'
        BY <2>1, <2>4, ExitedTyped, TurnEnded
    <2> QED BY <1>4, <2>2, <2>3, <2>5, FaultTyped, Kept, PartsNext DEF OrphanExits
<1>5. CASE Restart
    <2>1. BindingOK'
        <3>1. CASE UNCHANGED binding
            BY <3>1, Kept
        <3>2. CASE binding' = [binding EXCEPT !.status = "stopped"]
            BY <3>2 DEF TypeOK, BindingOK
        <3> QED BY <1>5, <3>1, <3>2 DEF Restart
    <2>2. AdapterOK' /\ StopsOK'
        BY <1>5, NoEntryTyped, NoStopTyped DEF Restart, AdapterOK, StopsOK
    <2>3. OrphansOK' /\ RuntimeOK' /\ RequestsOK'
        BY <1>5 DEF Restart, OrphansOK, RuntimeOK, RequestsOK
    <2>4. CallsOK' /\ IngestionOK'
        BY <1>5, IdleTyped, AtRestTyped DEF Restart, CallsOK, IngestionOK
    <2>5. MishapsOK'
        BY <1>5 DEF Restart, TypeOK, MishapsOK
    <2> QED
        BY <1>5, <2>1, <2>2, <2>3, <2>4, <2>5, FaultTyped, Kept, PartsNext DEF Restart
<1> QED BY <1>1, <1>2, <1>3, <1>4, <1>5

\* Next in the groups of the lemmas above.
LEMMA NextCases ==
    ASSUME [Next]_vars
    PROVE  \/ UNCHANGED vars
           \/ Client
           \/ DropRequest \/ UseSession \/ StartSession \/ ReplaceSession \/ HandleStop
           \/ Unbind \/ Bind
           \/ \E c \in Callers :
                \/ c = 0 /\ Started
                \/ StartFails(c) \/ Register(c) \/ Clear(c)
                \/ c # 0 /\ (Recover(c) \/ Send(c) \/ SendRefused(c) \/ Sent(c)
                             \/ SendFails(c) \/ Rereads(c) \/ Record(c))
           \/ ReaperChecks \/ (\E s \in Stoppers : StopStep(s)) \/ Ingestion
           \/ TurnEnds \/ OrphanTurnEnds \/ SessionExits \/ OrphanExits \/ Restart
<1>1. \A k \in Turns : k \in Callers /\ k # 0
    BY DEF Turns, Callers
<1> QED
    BY <1>1, Zero DEF Next, Server, Fault, Reactor, SendingStep

LEMMA TypeStep == ASSUME TypeOK, [Next]_vars PROVE TypeOK'
<1>1. CASE UNCHANGED vars
    BY <1>1, Kept, PartsNext DEF vars, database, provider, server, history
<1> QED
    BY <1>1, NextCases, ClientTyped, ReactorTyped, CallerTyped, StopperTyped,
       IngestionTyped, ProviderTyped


-----------------------------------------------------------------------------
(* A turn is sent once.                                                    *)

\* The queue and the handler's turn as they are, and nobody new at work.
LEMMA SentOnceKept ==
    ASSUME TypeOK, TypeOK', TurnsAreSentOnce, UNCHANGED <<requests, asked>>,
           calls'[0].turn \in {0, calls[0].turn},
           \A k \in Turns : calls[k].at = "idle" => calls'[k].at = "idle"
    PROVE  TurnsAreSentOnce'
<1>a. /\ requests \in Seq(Request) /\ calls[0] \in Call /\ asked \in 0..MaxRequests
      /\ \A i \in 1..Len(requests) : requests[i] \in Request
    BY Zero DEF TypeOK
<1>b. /\ calls[0].turn \in 0..MaxRequests
      /\ \A i \in 1..Len(requests) : requests[i].turn \in 0..MaxRequests
    BY <1>a DEF Call, Request
<1>1. /\ \A k \in Turns : k > asked => calls[k].at = "idle"
      /\ \A i \in 1..Len(requests) : requests[i].turn # 0 => requests[i].turn \in Turns
      /\ calls[0].turn # 0 => calls[0].turn \in Turns
    BY <1>b DEF TurnsAreSentOnce, Turns
<1> QED BY <1>a, <1>b, <1>1, SMTT(30) DEF TurnsAreSentOnce

\* A request more, of a new turn or of none.
LEMMA SentOnceAsked ==
    ASSUME TypeOK, TurnsAreSentOnce, UNCHANGED calls, Asks,
           \/ UNCHANGED requests
           \/ \E type \in {"turn", "stop", "mode"}, turn \in {0, asked'} :
                requests' = Append(requests, [type |-> type, turn |-> turn])
    PROVE  TurnsAreSentOnce'
<1>a. /\ requests \in Seq(Request) /\ calls[0] \in Call /\ Len(requests) \in Nat
      /\ \A i \in 1..Len(requests) : requests[i] \in Request
    BY Zero DEF TypeOK
<1>b. /\ calls[0].turn \in 0..MaxRequests
      /\ \A i \in 1..Len(requests) : requests[i].turn \in 0..MaxRequests
    BY <1>a DEF Call, Request
<1>c. asked \in Nat /\ asked' = asked + 1 /\ asked' \in Turns
    BY DEF TypeOK, Asks, Turns
<1>d. calls[asked'].at = "idle"
    BY <1>c DEF TurnsAreSentOnce
<1>1. CASE UNCHANGED requests
    BY <1>1, <1>b, <1>c DEF TurnsAreSentOnce
<1>2. ASSUME NEW type \in {"turn", "stop", "mode"}, NEW turn \in {0, asked'},
             requests' = Append(requests, [type |-> type, turn |-> turn])
      PROVE  TurnsAreSentOnce'
    <2>1. /\ Len(requests') = Len(requests) + 1
          /\ \A i \in 1..Len(requests) : requests'[i] = requests[i]
          /\ requests'[Len(requests) + 1].turn = turn
        BY <1>2, <1>a
    <2>2. \A i \in 1..Len(requests') :
            \/ i \in 1..Len(requests) /\ requests'[i].turn = requests[i].turn
            \/ i = Len(requests) + 1 /\ requests'[i].turn = turn
        BY <1>a, <2>1
    <2>3. \A i \in 1..Len(requests) : requests[i].turn <= asked
        BY DEF TurnsAreSentOnce
    <2>4. turn = 0 \/ turn = asked + 1
        BY <1>c
    <2>5. ASSUME NEW i \in 1..Len(requests')
          PROVE  /\ requests'[i].turn <= asked'
                 /\ requests'[i].turn # 0 =>
                      /\ calls[requests'[i].turn].at = "idle"
                      /\ requests'[i].turn # calls[0].turn
                      /\ \A j \in 1..Len(requests') :
                           requests'[j].turn = requests'[i].turn => j = i
        <3>1. CASE i \in 1..Len(requests)
            <4>1. requests'[i].turn = requests[i].turn /\ requests[i].turn \in Nat
                  /\ requests[i].turn <= asked
                BY <3>1, <1>b, <2>1, <2>3
            <4>2. requests[i].turn # 0 =>
                    /\ calls[requests[i].turn].at = "idle"
                    /\ requests[i].turn # calls[0].turn
                BY <3>1 DEF TurnsAreSentOnce
            <4>3. ASSUME NEW j \in 1..Len(requests'), requests[i].turn # 0,
                         requests'[j].turn = requests[i].turn
                  PROVE  j = i
                <5>1. CASE j \in 1..Len(requests)
                    BY <3>1, <4>3, <5>1, <2>1 DEF TurnsAreSentOnce
                <5>2. CASE j = Len(requests) + 1
                    BY <4>1, <4>3, <5>2, <1>c, <2>1, <2>4
                <5> QED BY <2>2, <5>1, <5>2
            <4> QED BY <4>1, <4>2, <4>3, <1>c, SMTT(30)
        <3>2. CASE i = Len(requests) + 1
            <4>1. requests'[i].turn = turn /\ turn \in Nat /\ turn <= asked'
                BY <3>2, <1>c, <2>1, <2>4
            <4>2. turn # 0 => turn = asked' /\ turn > asked
                BY <1>c, <2>4
            <4>3. calls[0].turn <= asked /\ calls[0].turn \in Nat
                BY <1>b DEF TurnsAreSentOnce
            <4>4. ASSUME NEW j \in 1..Len(requests'), turn # 0,
                         requests'[j].turn = turn
                  PROVE  j = i
                <5>1. ~(j \in 1..Len(requests))
                    BY <1>b, <1>c, <2>1, <2>3, <4>2, <4>4
                <5> QED BY <2>2, <3>2, <5>1
            <4> QED BY <1>c, <1>d, <4>1, <4>2, <4>3, <4>4
        <3> QED BY <2>2, <3>1, <3>2
    <2>6. /\ calls[0].turn <= asked'
          /\ calls[0].turn # 0 => calls[calls[0].turn].at = "idle"
          /\ \A k \in Turns : k > asked' => calls[k].at = "idle"
        BY <1>b, <1>c DEF TurnsAreSentOnce, Turns
    <2> QED BY <2>5, <2>6 DEF TurnsAreSentOnce
<1> QED BY <1>1, <1>2

\* The handler takes a request: it holds its turn, or hands it to the fiber.
LEMMA SentOnceTaken ==
    ASSUME TypeOK, TypeOK', TurnsAreSentOnce, NEW types, Takes(types),
           UNCHANGED asked, NEW turn \in 0..MaxRequests, turn = Head(requests).turn,
           calls'[0].turn \in {0, turn, calls[0].turn},
           \/ \A k \in Turns : calls[k].at = "idle" => calls'[k].at = "idle"
           \/ /\ calls'[0].turn \in {0, calls[0].turn}
              /\ \A k \in Turns \ {turn} : calls[k].at = "idle" => calls'[k].at = "idle"
    PROVE  TurnsAreSentOnce'
<1>a. /\ requests \in Seq(Request) /\ Len(requests) \in Nat \ {0}
      /\ \A i \in 1..Len(requests) : requests[i] \in Request
      /\ turn = requests[1].turn /\ requests' = Tail(requests)
    <2>1. requests \in Seq(Request) /\ requests # <<>> /\ requests' = Tail(requests)
        BY DEF TypeOK, Takes
    <2> QED BY <2>1, TakesTyped
<1>b. /\ \A i \in 1..Len(requests) : requests[i].turn \in 0..MaxRequests
      /\ \A i \in 1..Len(requests) : requests[i].turn # 0 => requests[i].turn \in Turns
      /\ asked \in Nat /\ turn \in Nat
    <2>1. \A i \in 1..Len(requests) : requests[i].turn \in 0..MaxRequests
        BY <1>a DEF Request
    <2>2. asked \in Nat
        BY DEF TypeOK
    <2> QED BY <2>1, <2>2, SessionsAssumption DEF Turns
<1>1. /\ Len(requests') = Len(requests) - 1
      /\ \A i \in 1..Len(requests') : /\ i + 1 \in 1..Len(requests)
                                      /\ requests'[i] = requests[i + 1]
    BY <1>a
<1>2. ASSUME NEW i \in 1..Len(requests'), requests'[i].turn # 0
      PROVE  /\ calls'[requests'[i].turn].at = "idle"
             /\ requests'[i].turn # calls'[0].turn
             /\ \A j \in 1..Len(requests') :
                  requests'[j].turn = requests'[i].turn => j = i
    <2>1. /\ requests'[i].turn = requests[i + 1].turn /\ i + 1 \in 1..Len(requests)
          /\ requests[i + 1].turn \in Turns /\ i \in Nat /\ i # 0
        BY <1>1, <1>2, <1>b
    <2>2. requests[i + 1].turn # turn /\ requests[i + 1].turn # calls[0].turn
        <3>1. requests[1].turn = requests[i + 1].turn => 1 = i + 1
            BY <1>a, <2>1, <1>2 DEF TurnsAreSentOnce
        <3>2. requests[i + 1].turn # calls[0].turn
            BY <1>2, <2>1 DEF TurnsAreSentOnce
        <3> QED BY <1>a, <2>1, <3>1, <3>2
    <2>3. calls[requests[i + 1].turn].at = "idle"
        BY <1>2, <2>1 DEF TurnsAreSentOnce
    <2>4. calls'[requests[i + 1].turn].at = "idle"
        BY <2>1, <2>2, <2>3
    <2>5. ASSUME NEW j \in 1..Len(requests'), requests'[j].turn = requests'[i].turn
          PROVE  j = i
        <3>1. j + 1 = i + 1
            BY <1>1, <1>2, <2>1, <2>5 DEF TurnsAreSentOnce
        <3> QED BY <3>1
    <2> QED BY <1>2, <2>1, <2>2, <2>4, <2>5
<1>3. \A i \in 1..Len(requests') : requests'[i].turn <= asked
    BY <1>1 DEF TurnsAreSentOnce
<1>4. /\ turn <= asked
      /\ turn # 0 => /\ calls[turn].at = "idle" /\ turn \in Turns
                     /\ turn # calls[0].turn
    <2>1. 1 \in 1..Len(requests)
        BY <1>a
    <2> QED BY <1>a, <1>b, <2>1 DEF TurnsAreSentOnce
<1>5. calls'[0].turn <= asked
    BY <1>b, <1>4 DEF TurnsAreSentOnce
<1>6. calls'[0].turn # 0 => calls'[calls'[0].turn].at = "idle"
    <2>1. calls[0].turn # 0 => calls[0].turn \in Turns /\ calls[calls[0].turn].at = "idle"
        BY Zero DEF TypeOK, Call, Turns, TurnsAreSentOnce
    <2> QED BY <1>4, <2>1
<1>7. \A k \in Turns : k > asked => calls'[k].at = "idle"
    <2>1. ASSUME NEW k \in Turns, k > asked PROVE calls'[k].at = "idle"
        <3>1. k # turn
            BY <1>b, <1>4, <2>1 DEF Turns
        <3>2. calls[k].at = "idle"
            BY <2>1 DEF TurnsAreSentOnce
        <3> QED BY <3>1, <3>2
    <2> QED BY <2>1
<1> QED BY <1>2, <1>3, <1>5, <1>6, <1>7 DEF TurnsAreSentOnce

\* A caller that is at work and moves, ends or fails.
LEMMA SentOnceMoved ==
    ASSUME TypeOK, TypeOK', TurnsAreSentOnce, UNCHANGED <<requests, asked>>,
           NEW c \in Callers, NEW call, calls' = [calls EXCEPT ![c] = call],
           calls[c].at # "idle", c # 0 \/ call.turn \in {0, calls[c].turn}
    PROVE  TurnsAreSentOnce'
<1>a. /\ calls \in [Callers -> Call] /\ 0 \in Callers
      /\ \A k \in Turns : k \in Callers /\ k # 0
    BY Zero DEF TypeOK, Turns, Callers
<1>1. calls'[0].turn \in {0, calls[0].turn}
    BY <1>a
<1>2. \A k \in Turns : calls[k].at = "idle" => calls'[k].at = "idle"
    BY <1>a
<1> QED BY <1>1, <1>2, SentOnceKept

\* What an actor does to its own record: it moves on, takes up another mode,
\* or gives up.
LEMMA CallMoves ==
    ASSUME TypeOK, NEW c \in Callers
    PROVE  /\ \A at : /\ [calls EXCEPT ![c].at = at]
                           = [calls EXCEPT ![c] = [calls[c] EXCEPT !.at = at]]
                      /\ [calls[c] EXCEPT !.at = at].at = at
                      /\ [calls[c] EXCEPT !.at = at].turn = calls[c].turn
                      /\ [calls[c] EXCEPT !.at = at].mode = calls[c].mode
                      /\ [calls[c] EXCEPT !.at = at].seen = calls[c].seen
                      /\ [calls[c] EXCEPT !.at = at].id = calls[c].id
           /\ \A mode : /\ [calls EXCEPT ![c].mode = mode]
                             = [calls EXCEPT ![c] = [calls[c] EXCEPT !.mode = mode]]
                        /\ [calls[c] EXCEPT !.mode = mode].at = calls[c].at
                        /\ [calls[c] EXCEPT !.mode = mode].turn = calls[c].turn
                        /\ [calls[c] EXCEPT !.mode = mode].seen = calls[c].seen
                        /\ [calls[c] EXCEPT !.mode = mode].mode = mode
           /\ [calls EXCEPT ![c] = Failing(@)] = [calls EXCEPT ![c] = Failing(calls[c])]
           /\ Failing(calls[c]).turn \in {0, calls[c].turn}
           /\ Failing(calls[c]).at \in {"idle", "clearing"}
<1>1. calls \in [Callers -> Call] /\ calls[c] \in Call
    BY DEF TypeOK
<1>2. Idle.turn = 0 /\ Idle.at = "idle"
    BY DEF Idle
<1>3. /\ Failing(calls[c]).turn \in {0, calls[c].turn}
      /\ Failing(calls[c]).at \in {"idle", "clearing"}
    BY <1>2, IdleTyped DEF Failing, Call
<1> QED BY <1>1, <1>3 DEF Call

LEMMA SentOnceAt ==
    ASSUME TypeOK, TypeOK', TurnsAreSentOnce, UNCHANGED <<requests, asked>>,
           NEW c \in Callers, NEW at, calls' = [calls EXCEPT ![c].at = at],
           calls[c].at # "idle"
    PROVE  TurnsAreSentOnce'
<1> DEFINE call == [calls[c] EXCEPT !.at = at]
<1>1. calls' = [calls EXCEPT ![c] = call] /\ call.turn = calls[c].turn
    BY CallMoves
<1> HIDE DEF call
<1> QED BY <1>1, SentOnceMoved

\* The reactor is at its stop while the stop lasts.
LEMMA AwaitedIs ==
    ASSUME TypeOK, StopsAreAwaited, stops["reactor"].at # "idle"
    PROVE  calls[0].at = "stopping" /\ calls[0] \in Call
    BY Zero DEF StopsAreAwaited, TypeOK

LEMMA SentOnceStep ==
    ASSUME TypeOK, TypeOK', TurnsAreSentOnce, StopsAreAwaited, [Next]_vars
    PROVE  TurnsAreSentOnce'
<1> USE DEF database, provider, server, history
<1>a. /\ calls \in [Callers -> Call] /\ 0 \in Callers
      /\ \A k \in Turns : k \in Callers /\ k # 0
    BY Zero DEF TypeOK, Turns, Callers
<1>i. Idle.at = "idle" /\ Idle.turn = 0
    BY DEF Idle
\* Steps that leave queue and callers alone.
<1>1. CASE UNCHANGED <<requests, calls, asked>>
    BY <1>1, SentOnceKept
<1>2. CASE Client
    <2>1. RequestTurn => /\ Asks /\ UNCHANGED calls
                         /\ requests' = Append(requests, [type |-> "turn", turn |-> asked'])
        BY DEF RequestTurn
    <2>2. RequestStop => /\ Asks /\ UNCHANGED calls
                         /\ requests' = Append(requests, [type |-> "stop", turn |-> 0])
        BY DEF RequestStop
    <2>3. SetMode => /\ Asks /\ UNCHANGED calls
                     /\ requests' = Append(requests, [type |-> "mode", turn |-> 0])
        BY DEF SetMode
    <2>4. Delete => Asks /\ UNCHANGED <<calls, requests>>
        BY DEF Delete
    <2> QED BY <1>2, <2>1, <2>2, <2>3, <2>4, SentOnceAsked DEF Client
<1>5. CASE DropRequest
    <2>1. Takes({"turn", "stop", "mode"}) /\ UNCHANGED <<calls, asked>>
        BY <1>5 DEF DropRequest
    <2> QED BY <2>1, TakesTyped, SentOnceTaken
<1>6. CASE UseSession
    <2> DEFINE turn == Head(requests).turn
    <2>1. /\ Takes({"turn", "mode"}) /\ UNCHANGED asked
          /\ calls' = Sending(calls, turn) /\ turn \in 0..MaxRequests
        BY <1>6, TakesTyped DEF UseSession
    <2> HIDE DEF turn
    <2>2. calls'[0] = calls[0] /\ \A k \in Turns \ {turn} : calls'[k] = calls[k]
        BY <1>a, <2>1 DEF Sending
    <2> QED BY <2>1, <2>2, SentOnceTaken DEF turn
<1>7. CASE StartSession
    <2> DEFINE turn == Head(requests).turn
               starting == [Idle EXCEPT !.at = "ensuring", !.mode = thread.mode,
                                        !.turn = turn, !.seen = thread.session]
    <2>1. /\ Takes({"turn", "mode"}) /\ UNCHANGED asked
          /\ calls' = [calls EXCEPT ![0] = starting]
          /\ turn \in 0..MaxRequests
        BY <1>7, TakesTyped DEF StartSession
    <2>2. starting.turn = turn
        BY IdleTyped DEF Call
    <2> HIDE DEF turn, starting
    <2>3. calls'[0].turn = turn /\ \A k \in Turns : calls'[k] = calls[k]
        BY <1>a, <2>1, <2>2
    <2> QED BY <2>1, <2>3, SentOnceTaken DEF turn
<1>8. CASE HandleStop
    <2> DEFINE stopping == [Idle EXCEPT !.at = "stopping", !.seen = thread.session]
               unbinding == [stopping EXCEPT !.at = "unbinding"]
    <2>1. Takes({"stop"}) /\ UNCHANGED asked
        BY <1>8 DEF HandleStop
    <2>2. \E call \in {stopping, unbinding} : calls' = [calls EXCEPT ![0] = call]
        BY <1>8 DEF HandleStop
    <2>3. stopping.turn = 0 /\ unbinding.turn = 0
        BY <1>i, IdleTyped DEF Call
    <2> HIDE DEF stopping, unbinding
    <2>4. calls'[0].turn = 0 /\ \A k \in Turns : calls'[k] = calls[k]
        BY <1>a, <2>2, <2>3
    <2> QED BY <2>1, <2>4, TakesTyped, SentOnceTaken
<1>9. CASE ReplaceSession \/ Unbind
    <2>1. calls[0].at # "idle" /\ UNCHANGED <<requests, asked>>
        BY <1>9 DEF ReplaceSession, Unbind
    <2>2. ReplaceSession => calls' = [calls EXCEPT ![0].at = "replacing"]
        BY DEF ReplaceSession
    <2>3. Unbind => calls' = [calls EXCEPT ![0] = Idle]
        BY DEF Unbind
    <2> QED BY <1>9, <1>a, <1>i, <2>1, <2>2, <2>3, SentOnceAt, SentOnceMoved
<1>10. CASE Bind
    <2> DEFINE turn == calls[0].turn
               handled == [calls EXCEPT ![0] = Idle]
    <2>1. /\ calls' = Sending(handled, turn) /\ UNCHANGED <<requests, asked>>
        BY <1>10 DEF Bind
    <2>2. calls[0] \in Call
        BY <1>a
    <2>3. turn \in 0..MaxRequests
        BY <2>2 DEF Call
    <2> HIDE DEF turn, handled
    <2>4. /\ calls'[0] = handled[0]
          /\ \A k \in Turns \ {turn} : calls'[k] = handled[k]
        BY <1>a, <2>1 DEF Sending
    <2>5. /\ calls'[0].turn = 0
          /\ \A k \in Turns \ {turn} : calls'[k] = calls[k]
        BY <1>a, <1>i, <2>4 DEF handled
    <2>6. /\ requests \in Seq(Request)
          /\ \A i \in 1..Len(requests) : requests[i].turn \in 0..MaxRequests
        <3>1. requests \in Seq(Request)
            BY DEF TypeOK
        <3>2. \A i \in 1..Len(requests) : requests[i] \in Request
            BY <3>1
        <3> QED BY <3>1, <3>2 DEF Request
    <2>7. asked \in Nat
        BY DEF TypeOK
    <2>8. turn <= asked
        BY DEF TurnsAreSentOnce, turn
    <2>9. \A i \in 1..Len(requests) : requests[i].turn # 0 =>
            requests[i].turn \in Turns \ {turn}
        BY <2>6 DEF TurnsAreSentOnce, Turns, turn
    <2>10. \A k \in Turns : k > asked => calls'[k].at = "idle"
        BY <2>3, <2>5, <2>7, <2>8 DEF TurnsAreSentOnce, Turns
    <2> QED BY <2>1, <2>5, <2>7, <2>9, <2>10 DEF TurnsAreSentOnce
<1>11. ASSUME NEW c \in Callers,
              \/ c = 0 /\ Started
              \/ StartFails(c) \/ Register(c) \/ Clear(c)
              \/ c # 0 /\ (Recover(c) \/ Send(c) \/ SendRefused(c) \/ Sent(c)
                           \/ SendFails(c) \/ Rereads(c) \/ Record(c))
       PROVE  TurnsAreSentOnce'
    <2>0. UNCHANGED <<requests, asked>>
        BY <1>11 DEF Started, StartFails, Register, Clear, Recover, Send, SendRefused, Sent,
                     SendFails, Rereads, Record
    <2>1. calls[c].at # "idle"
        BY <1>11 DEF Started, StartFails, Register, Clear, Recover, Send, SendRefused, Sent,
                     SendFails, Rereads, Record, ReadyToStart, ReadyToSend
    <2>m. ASSUME NEW at, calls' = [calls EXCEPT ![c].at = at] PROVE TurnsAreSentOnce'
        BY <2>0, <2>1, <2>m, SentOnceAt
    <2>f. ASSUME calls' = [calls EXCEPT ![c] = Failing(@)] PROVE TurnsAreSentOnce'
        BY <2>0, <2>1, <2>f, CallMoves, SentOnceMoved
    <2>n. ASSUME NEW call, c # 0 \/ call = Idle, calls' = [calls EXCEPT ![c] = call]
          PROVE  TurnsAreSentOnce'
        BY <1>i, <2>0, <2>1, <2>n, SentOnceMoved
    <2>2. CASE (c = 0 /\ Started) \/ (c # 0 /\ Recover(c))
        BY <2>2, <2>m DEF Started, Recover, SessionUp
    <2>3. CASE StartFails(c) \/ SendRefused(c) \/ SendFails(c)
        BY <2>3, <2>f DEF StartFails, SendRefused, SendFails
    <2>4. CASE Register(c)
        BY <2>4, <2>m DEF Register
    <2>5. CASE Clear(c) \/ Record(c)
        BY <2>5, <2>n DEF Clear, Record
    <2>6. CASE c # 0 /\ (Send(c) \/ Sent(c))
        BY <2>6, <2>n DEF Send, Sent
    <2>7. CASE c # 0 /\ Rereads(c)
        <3>1. calls' = [calls EXCEPT ![c] = [calls[c] EXCEPT !.mode = binding.mode]]
            BY <2>7, CallMoves DEF Rereads
        <3> QED BY <2>7, <2>n, <3>1
    <2> QED BY <1>11, <2>2, <2>3, <2>4, <2>5, <2>6, <2>7
<1>12. ASSUME NEW s \in Stoppers, StopStep(s) PROVE TurnsAreSentOnce'
    <2>0. UNCHANGED <<requests, asked>>
        BY <1>12 DEF StopStep, StopFails, StopBegins, StopEnds, StopRereads, StopRecorded
    <2>1. CASE UNCHANGED calls
        BY <1>1, <2>0, <2>1
    <2>2. CASE ~UNCHANGED calls
        <3>1. /\ s = "reactor" /\ stops["reactor"].at # "idle"
              /\ \/ calls' = [calls EXCEPT ![0] = Idle]
                 \/ calls' = [calls EXCEPT ![0].at = "unbinding"]
            BY <1>12, <2>2
            DEF StopStep, StopFails, StopBegins, StopEnds, StopRereads, StopRecorded
        <3>2. calls[0].at # "idle"
            BY <3>1, AwaitedIs
        <3> QED BY <1>a, <1>i, <2>0, <3>1, <3>2, SentOnceAt, SentOnceMoved
    <2> QED BY <2>1, <2>2
<1>13. CASE UNCHANGED vars \/ ReaperChecks \/ Ingestion
              \/ TurnEnds \/ OrphanTurnEnds \/ SessionExits \/ OrphanExits
    BY <1>1, <1>13
    DEF vars, ReaperChecks, Ingestion, IngestReads, IngestWrites, TurnEnds,
        OrphanTurnEnds, SessionExits, OrphanExits
<1>14. CASE Restart
    <2>1. requests' = <<>> /\ calls' = [c \in Callers |-> Idle] /\ asked' = asked
        BY <1>14 DEF Restart
    <2>2. /\ calls'[0].turn = 0 /\ \A k \in Turns : calls'[k].at = "idle"
        BY <1>a, <1>i, <2>1
    <2>3. asked \in Nat
        BY DEF TypeOK
    <2> QED BY <2>1, <2>2, <2>3 DEF TurnsAreSentOnce
<1> QED
    BY NextCases, <1>2, <1>5, <1>6, <1>7, <1>8, <1>9, <1>10, <1>11, <1>12, <1>13, <1>14

-----------------------------------------------------------------------------
(* The reactor waits for its stop.                                         *)

LEMMA AwaitedStep ==
    ASSUME TypeOK, StopsAreAwaited, [Next]_vars
    PROVE  StopsAreAwaited'
<1> USE DEF database, provider, server, history
<1>a. /\ calls \in [Callers -> Call] /\ 0 \in Callers
      /\ stops \in [Stoppers -> Stop] /\ "reactor" \in Stoppers
      /\ \A k \in Turns : k \in Callers /\ k # 0
    BY Zero, StopperNames DEF TypeOK, Turns, Callers
\* Neither the handler nor its stop.
<1>1. ASSUME calls'[0] = calls[0], stops'["reactor"] = stops["reactor"]
      PROVE  StopsAreAwaited'
    BY <1>1 DEF StopsAreAwaited
\* The handler elsewhere.
<1>2. ASSUME calls[0].at # "stopping", UNCHANGED stops
      PROVE  StopsAreAwaited'
    BY <1>2 DEF StopsAreAwaited
<1>3. CASE Client
    <2>1. calls' = calls /\ stops'["reactor"] = stops["reactor"]
        BY <1>3, <1>a DEF Client, RequestTurn, RequestStop, SetMode, Delete
    <2> QED BY <1>1, <2>1
<1>4. CASE DropRequest \/ UseSession \/ StartSession \/ ReplaceSession \/ Unbind \/ Bind
    BY <1>2, <1>4 DEF DropRequest, UseSession, StartSession, ReplaceSession, Unbind, Bind, Takes
<1>5. CASE HandleStop
    <2> DEFINE stopping == [Idle EXCEPT !.at = "stopping", !.seen = thread.session]
    <2>1. calls[0].at = "idle" /\ stopping.at = "stopping"
        BY <1>5, IdleTyped DEF HandleStop, Takes, Call
    <2> HIDE DEF stopping
    <2>2. calls' = [calls EXCEPT ![0] = stopping] \/ UNCHANGED stops
        BY <1>5 DEF HandleStop, stopping
    <2> QED BY <1>a, <1>2, <2>1, <2>2 DEF StopsAreAwaited
<1>6. ASSUME NEW c \in Callers,
             \/ c = 0 /\ Started
             \/ StartFails(c) \/ Register(c) \/ Clear(c)
             \/ c # 0 /\ (Recover(c) \/ Send(c) \/ SendRefused(c) \/ Sent(c)
                          \/ SendFails(c) \/ Rereads(c) \/ Record(c))
      PROVE  StopsAreAwaited'
    <2>1. UNCHANGED stops
        BY <1>6 DEF Started, StartFails, Register, Clear, Recover, Send, SendRefused, Sent,
                    SendFails, Rereads, Record
    <2>2. calls[c].at # "stopping" \/ c # 0
        BY <1>6 DEF Started, ReadyToStart, StartFails, Register, Clear
    <2>3. calls'[0] = calls[0] \/ c = 0
        BY <1>6, <1>a DEF Started, StartFails, Register, Clear, Recover, Send, SendRefused,
                          Sent, SendFails, Rereads, Record, SessionUp
    <2> QED BY <1>1, <1>2, <2>1, <2>2, <2>3
<1>7. ASSUME NEW s \in Stoppers, StopStep(s) PROVE StopsAreAwaited'
    <2>1. CASE s = "reactor"
        <3>1. \/ stops' = [stops EXCEPT ![s] = NoStop]
              \/ UNCHANGED calls /\ stops[s].at # "idle"
            BY <1>7, <2>1
            DEF StopStep, StopFails, StopBegins, StopEnds, StopRereads, StopRecorded
        <3> QED BY <1>a, <2>1, <3>1 DEF StopsAreAwaited, NoStop
    <2>2. CASE s # "reactor"
        <3>1. UNCHANGED calls /\ stops'["reactor"] = stops["reactor"]
            BY <1>7, <1>a, <2>2
            DEF StopStep, StopFails, StopBegins, StopEnds, StopRereads, StopRecorded
        <3> QED BY <1>1, <3>1
    <2> QED BY <2>1, <2>2
<1>8. CASE ReaperChecks
    <2>1. calls' = calls /\ stops'["reactor"] = stops["reactor"]
        BY <1>8, <1>a DEF ReaperChecks
    <2> QED BY <1>1, <2>1
<1>9. CASE UNCHANGED vars \/ Ingestion
             \/ TurnEnds \/ OrphanTurnEnds \/ SessionExits \/ OrphanExits
    BY <1>1, <1>9
    DEF vars, Ingestion, IngestReads, IngestWrites, TurnEnds, OrphanTurnEnds, SessionExits,
        OrphanExits
<1>10. CASE Restart
    BY <1>10, <1>a DEF Restart, StopsAreAwaited, NoStop
<1> QED BY NextCases, <1>3, <1>4, <1>5, <1>6, <1>7, <1>8, <1>9, <1>10

-----------------------------------------------------------------------------
(* A live session is tracked.                                              *)

\* Nothing that tracks it goes.
LEMMA TrackedKept ==
    ASSUME LiveIsTracked, Live' => Live,
           binding.status = "running" => binding'.status = "running",
           mishaps \subseteq mishaps',
           \A c \in Callers : calls[c].at = "registering" => calls'[c].at = "registering"
    PROVE  LiveIsTracked'
    BY DEF LiveIsTracked, Callers

LEMMA TrackedStep ==
    ASSUME TypeOK, TurnsAreSentOnce, StopsAreAwaited, LiveIsTracked, [Next]_vars
    PROVE  LiveIsTracked'
<1> USE DEF database, provider, server, history
<1>a. /\ calls \in [Callers -> Call] /\ 0 \in Callers
      /\ \A k \in Turns : k \in Callers /\ k # 0
      /\ mishaps \subseteq mishaps
    BY Zero DEF TypeOK, Turns, Callers
<1>b. \A cs, k : k \in Callers /\ k # 0 =>
        \A c \in Callers : c # k => Sending(cs, k)[c] = cs[c]
    BY DEF Sending
<1>c. \A cs : \A c \in Callers : Sending(cs, 0)[c] = cs[c]
    BY DEF Sending
\* Steps that take the session's life, and that leave all but the thread.
<1>0. ASSUME ~Live' PROVE LiveIsTracked'
    BY <1>0 DEF LiveIsTracked
<1>1. ASSUME UNCHANGED <<adapter, binding, calls>>, mishaps \subseteq mishaps'
      PROVE  LiveIsTracked'
    BY <1>1, TrackedKept DEF Live
\* A caller that is not registering moves on.
<1>2. ASSUME NEW c \in Callers, NEW call, calls' = [calls EXCEPT ![c] = call],
             calls[c].at # "registering", Live' => Live,
             UNCHANGED binding, mishaps \subseteq mishaps'
      PROVE  LiveIsTracked'
    BY <1>2, <1>a, TrackedKept
\* The binding becomes running, or a live session is recorded as stopped.
<1>3. ASSUME binding'.status = "running" PROVE LiveIsTracked'
    BY <1>3 DEF LiveIsTracked
\* A session comes up.
<1>4. ASSUME NEW c \in Callers, NEW mode \in Mode, SessionUp(c, mode) PROVE LiveIsTracked'
    <2>1. calls'[c].at = "registering"
        BY <1>4, <1>a DEF SessionUp, Call
    <2> QED BY <2>1 DEF LiveIsTracked, Callers
<1>5. CASE UNCHANGED vars \/ Client
    BY <1>1, <1>5, <1>a DEF vars, Client, RequestTurn, RequestStop, SetMode, Delete
<1>6. CASE DropRequest
    <2>1. mishaps \subseteq mishaps'
        BY <1>6 DEF DropRequest
    <2> QED BY <1>1, <1>6, <2>1 DEF DropRequest
<1>7. CASE UseSession
    <2> DEFINE turn == Head(requests).turn
    <2>1. /\ calls' = Sending(calls, turn) /\ UNCHANGED <<adapter, binding, mishaps>>
          /\ Takes({"turn", "mode"})
        BY <1>7 DEF UseSession
    <2>2. /\ turn \in 0..MaxRequests /\ 1 \in 1..Len(requests)
          /\ turn = requests[1].turn
        BY <2>1, TakesTyped
    <2> HIDE DEF turn
    <2>3. turn # 0 => calls[turn].at = "idle" /\ turn \in Callers
        BY <2>2 DEF TurnsAreSentOnce, Callers
    <2>4. \A c \in Callers : calls[c].at = "registering" => calls'[c].at = "registering"
        BY <1>b, <1>c, <2>1, <2>3
    <2> QED BY <1>a, <2>1, <2>4, TrackedKept DEF Live
<1>8. CASE StartSession \/ HandleStop
    <2>1. /\ calls[0].at = "idle" /\ UNCHANGED <<adapter, binding, mishaps>>
          /\ \A c \in Callers : c # 0 => calls'[c] = calls[c]
        BY <1>8, <1>a DEF StartSession, HandleStop, Takes
    <2> QED BY <1>a, <2>1, TrackedKept DEF Live
<1>9. CASE ReplaceSession
    <2>1. adapter' = Closing
        BY <1>9 DEF ReplaceSession, Close
    <2> QED BY <1>0, <2>1, NoEntryIs DEF Live
<1>10. CASE Unbind
    <2>1. /\ calls' = [calls EXCEPT ![0] = Idle] /\ calls[0].at # "registering"
          /\ UNCHANGED <<adapter, binding>> /\ mishaps \subseteq mishaps'
        BY <1>10 DEF Unbind
    <2> QED BY <1>2, <1>a, <2>1 DEF Live
<1>11. CASE Bind
    <2> DEFINE turn == calls[0].turn
               handled == [calls EXCEPT ![0] = Idle]
    <2>1. /\ calls' = Sending(handled, turn) /\ calls[0].at = "binding"
          /\ UNCHANGED <<adapter, binding>> /\ mishaps \subseteq mishaps'
        BY <1>11 DEF Bind, SetSession
    <2>2. calls[0] \in Call
        BY <1>a
    <2>3. turn \in 0..MaxRequests
        BY <2>2 DEF Call
    <2>4. turn # 0 => calls[turn].at = "idle" /\ turn \in Callers
        BY <2>3 DEF TurnsAreSentOnce, Callers
    <2>5. \A c \in Callers : c # 0 => handled[c] = calls[c]
        BY <1>a
    <2> HIDE DEF turn, handled
    <2>6. \A c \in Callers : calls[c].at = "registering" => calls'[c].at = "registering"
        <3>1. ASSUME NEW c \in Callers, calls[c].at = "registering"
              PROVE  calls'[c] = calls[c]
            <4>1. c # 0 /\ (turn # 0 => c # turn)
                BY <2>1, <2>4, <3>1
            <4> QED BY <1>b, <1>c, <2>1, <2>4, <2>5, <4>1
        <3> QED BY <3>1
    <2> QED BY <2>1, <2>6, TrackedKept DEF Live
<1>12. ASSUME NEW c \in Callers,
              \/ c = 0 /\ Started
              \/ StartFails(c) \/ Register(c) \/ Clear(c)
              \/ c # 0 /\ (Recover(c) \/ Send(c) \/ SendRefused(c) \/ Sent(c)
                           \/ SendFails(c) \/ Rereads(c) \/ Record(c))
       PROVE  LiveIsTracked'
    <2>a. calls[c].mode \in Mode
        BY <1>a DEF Call
    <2>f. ASSUME calls' = [calls EXCEPT ![c] = Failing(@)], calls[c].at # "registering",
                 Live' => Live, UNCHANGED binding, mishaps \subseteq mishaps'
          PROVE  LiveIsTracked'
        BY <1>a, <1>2, <2>f
    <2>1. CASE (c = 0 /\ Started) \/ (c # 0 /\ Recover(c))
        BY <1>4, <2>a, <2>1 DEF Started, Recover
    <2>2. CASE StartFails(c)
        <3>1. Live' => Live
            BY <2>2, NoEntryIs DEF StartFails, Live
        <3> QED BY <2>2, <2>f, <3>1 DEF StartFails, ReadyToStart
    <2>3. CASE Register(c)
        BY <1>3, <2>3 DEF Register, UpsertRunning
    <2>4. CASE c # 0 /\ Send(c)
        <3>1. Live' => Live
            BY <2>4, Zero, AdapterSet DEF Send, Live
        <3>2. mishaps \subseteq mishaps' /\ calls[c].at # "registering"
            BY <2>4 DEF Send, Crossing, ReadyToSend
        <3> QED BY <1>2, <2>4, <3>1, <3>2 DEF Send
    <2>5. CASE c # 0 /\ SendRefused(c)
        BY <2>5, <2>f, <1>a DEF SendRefused, Live
    <2>s. ASSUME c # 0, TurnStarted(c) PROVE Live' => Live
        <3>1. c \in 0..MaxRequests
            BY DEF Callers
        <3> QED BY <2>s, <3>1, AdapterSet DEF TurnStarted, Live
    <2>6. CASE c # 0 /\ Sent(c)
        <3>1. mishaps \subseteq mishaps' /\ calls[c].at # "registering"
            BY <2>6 DEF Sent
        <3> QED BY <1>2, <2>6, <2>s, <3>1 DEF Sent
    <2>7. CASE c # 0 /\ SendFails(c)
        <3>1. mishaps \subseteq mishaps' /\ calls[c].at # "registering"
            BY <2>7 DEF SendFails
        <3>2. Live' => Live
            BY <2>7, <2>s DEF SendFails, Live
        <3> QED BY <2>7, <2>f, <3>1, <3>2 DEF SendFails
    <2>8. CASE c # 0 /\ Rereads(c)
        <3>1. calls' = [calls EXCEPT ![c] = [calls[c] EXCEPT !.mode = binding.mode]]
            BY <2>8, CallMoves DEF Rereads
        <3> QED BY <1>2, <1>a, <2>8, <3>1 DEF Rereads, Live
    <2>9. CASE c # 0 /\ Record(c)
        BY <1>3, <2>9 DEF Record, UpsertStatus
    <2>10. CASE Clear(c)
        <3>1. mishaps \subseteq mishaps' /\ calls[c].at # "registering"
            BY <2>10 DEF Clear
        <3> QED BY <1>2, <2>10, <3>1 DEF Clear, Live
    <2> QED BY <1>12, <2>1, <2>2, <2>3, <2>4, <2>5, <2>6, <2>7, <2>8, <2>9, <2>10
<1>13. ASSUME NEW s \in Stoppers, StopStep(s) PROVE LiveIsTracked'
    <2>1. CASE StopBegins(s)
        <3>1. Live' => Live
            BY <2>1, NoEntryIs DEF StopBegins, Close, Live
        <3> QED BY <1>a, <2>1, <3>1, TrackedKept DEF StopBegins
    <2>2. CASE StopEnds(s)
        <3>1. adapter' = NoEntry
            BY <2>2 DEF StopEnds, Closed
        <3> QED BY <1>0, <3>1, NoEntryIs DEF Live
    <2>3. CASE StopRereads(s)
        BY <1>1, <1>a, <2>3 DEF StopRereads
    <2>4. CASE StopFails(s)
        <3>1. calls' = calls \/ (s = "reactor" /\ calls' = [calls EXCEPT ![0] = Idle])
            BY <2>4 DEF StopFails
        <3>2. s = "reactor" => calls[0].at # "registering"
            BY <2>4, AwaitedIs DEF StopFails
        <3> QED BY <1>1, <1>2, <1>a, <2>4, <3>1, <3>2 DEF StopFails, Live
    <2>5. CASE StopRecorded(s)
        <3>1. stops[s].mode \in Mode
            BY DEF TypeOK, Stop
        <3>2. Live => "hidden" \in mishaps'
            BY <2>5, <3>1, UpsertStatusTyped DEF StopRecorded
        <3> QED BY <2>5, <3>2 DEF StopRecorded, LiveIsTracked, Live
    <2> QED BY <1>13, <2>1, <2>2, <2>3, <2>4, <2>5 DEF StopStep
<1>14. CASE ReaperChecks \/ Ingestion \/ OrphanTurnEnds
    <2>1. UNCHANGED <<adapter, binding, calls>> /\ mishaps \subseteq mishaps'
        BY <1>14 DEF ReaperChecks, Ingestion, IngestReads, IngestWrites, SetSession,
                     OrphanTurnEnds
    <2> QED BY <1>1, <2>1
<1>15. CASE TurnEnds
    <2>1. Live' => Live
        BY <1>15, Zero, AdapterSet DEF TurnEnds, Live
    <2> QED BY <1>15, <1>a, <2>1, TrackedKept DEF TurnEnds
<1>16. CASE SessionExits \/ OrphanExits \/ Restart
    <2>1. adapter' = NoEntry
        BY <1>16 DEF SessionExits, OrphanExits, Restart
    <2> QED BY <1>0, <2>1, NoEntryIs DEF Live
<1> QED
    BY NextCases, <1>5, <1>6, <1>7, <1>8, <1>9, <1>10, <1>11, <1>12, <1>13,
       <1>14, <1>15, <1>16

-----------------------------------------------------------------------------
(* The reports still to be written, as a chain of turns: each finds the    *)
(* turn the one before it leaves.                                          *)

Active == 0..MaxRequests

LEMMA LeadsNowhere ==
    ASSUME NEW a \in Active
    PROVE  Leads(a, <<>>, a)
<1> DEFINE shown == [i \in 0..0 |-> a]
<1>1. shown \in [0..0 -> 0..MaxRequests] /\ shown[0] = a
    BY DEF Active
<1>2. Len(<<>>) = 0 /\ \A i \in 1..0 : FALSE
    OBVIOUS
<1> HIDE DEF shown
<1>3. \A i \in 1..0 : Follows(shown[i - 1], <<>>[i], shown[i])
    BY <1>2
<1> QED
    BY <1>1, <1>2, <1>3 DEF Leads

LEMMA LeadsOnlyHere ==
    ASSUME NEW a, NEW b, Leads(a, <<>>, b)
    PROVE  a = b
    BY DEF Leads

\* A report more.
LEMMA LeadsOn ==
    ASSUME NEW a, NEW events \in Seq(RuntimeEvent), NEW last, Leads(a, events, last),
           NEW event \in RuntimeEvent, NEW next \in Active, Follows(last, event, next)
    PROVE  Leads(a, events \o <<event>>, next)
<1> DEFINE n == Len(events)
           more == events \o <<event>>
<1>1. n \in Nat /\ Len(more) = n + 1 /\ more[n + 1] = event
      /\ \A i \in 1..n : more[i] = events[i]
    OBVIOUS
<1>2. PICK shown \in [0..n -> 0..MaxRequests] :
        /\ shown[0] = a /\ shown[n] = last
        /\ \A i \in 1..n : Follows(shown[i - 1], events[i], shown[i])
    BY DEF Leads
<1> HIDE DEF n, more
<1> DEFINE longer == [i \in 0..(n + 1) |-> IF i = n + 1 THEN next ELSE shown[i]]
<1>3. longer \in [0..(n + 1) -> 0..MaxRequests]
    BY <1>1, <1>2 DEF Active
<1>4. /\ longer[n + 1] = next
      /\ \A i \in 0..n : longer[i] = shown[i]
    BY <1>1
<1> HIDE DEF longer
<1>5. ASSUME NEW i \in 1..(n + 1)
      PROVE  Follows(longer[i - 1], more[i], longer[i])
  <2>1. CASE i = n + 1
    <3>1. i - 1 = n /\ n \in 0..n
      BY <1>1, <2>1
    <3> QED
      BY <1>1, <1>2, <1>4, <2>1, <3>1
  <2>2. CASE i # n + 1
    <3>1. i \in 1..n /\ i \in 0..n /\ i - 1 \in 0..n
      BY <1>1, <2>2
    <3> QED
      BY <1>1, <1>2, <1>4, <3>1
  <2> QED
    BY <2>1, <2>2
<1>6. longer[0] = a
    BY <1>1, <1>2, <1>4
<1> QED
    BY <1>1, <1>3, <1>4, <1>5, <1>6 DEF Leads, more

\* The first report is written.
LEMMA LeadsFrom ==
    ASSUME NEW a, NEW events \in Seq(RuntimeEvent), events # <<>>, NEW last,
           Leads(a, events, last)
    PROVE  \E b \in Active : /\ Follows(a, Head(events), b)
                             /\ Leads(b, Tail(events), last)
<1> DEFINE n == Len(events)
           rest == Tail(events)
<1>1. /\ n \in Nat \ {0} /\ Len(rest) = n - 1
      /\ \A i \in 1..(n - 1) : rest[i] = events[i + 1]
      /\ Head(events) = events[1]
    OBVIOUS
<1>2. PICK shown \in [0..n -> 0..MaxRequests] :
        /\ shown[0] = a /\ shown[n] = last
        /\ \A i \in 1..n : Follows(shown[i - 1], events[i], shown[i])
    BY DEF Leads
<1> HIDE DEF n, rest
<1> DEFINE shorter == [i \in 0..(n - 1) |-> shown[i + 1]]
<1>3. shorter \in [0..(n - 1) -> 0..MaxRequests]
    BY <1>1, <1>2
<1>4. \A i \in 0..(n - 1) : shorter[i] = shown[i + 1]
    OBVIOUS
<1> HIDE DEF shorter
<1>5. ASSUME NEW i \in 1..(n - 1)
      PROVE  Follows(shorter[i - 1], rest[i], shorter[i])
  <2>1. /\ i + 1 \in 1..n /\ i - 1 \in 0..(n - 1) /\ i \in 0..(n - 1)
        /\ (i - 1) + 1 = i /\ (i + 1) - 1 = i
    BY <1>1
  <2>2. Follows(shown[i], events[i + 1], shown[i + 1])
    BY <1>2, <2>1
  <2> QED
    BY <1>1, <1>4, <2>1, <2>2
<1>6. shorter[0] = shown[1] /\ shorter[n - 1] = last
  <2>1. 0 \in 0..(n - 1) /\ n - 1 \in 0..(n - 1) /\ (n - 1) + 1 = n
    BY <1>1
  <2> QED
    BY <1>2, <1>4, <2>1
<1>7. Leads(shown[1], rest, last)
    BY <1>1, <1>3, <1>5, <1>6 DEF Leads
<1>8. 1 \in 1..n /\ 1 - 1 = 0 /\ shown[1] \in 0..MaxRequests
    BY <1>1, <1>2
<1>9. Follows(a, Head(events), shown[1])
    BY <1>1, <1>2, <1>8
<1> QED
    BY <1>7, <1>8, <1>9 DEF rest, Active

\* Who forgets a turn that is over changes nothing about where it leads.
LEMMA LeadsForgotten ==
    ASSUME NEW a, NEW events \in Seq(RuntimeEvent), NEW last,
           Leads(a, events, last), a = 0 \/ a # last
    PROVE  Leads(0, events, last)
<1> DEFINE n == Len(events)
<1>1. n \in Nat
    OBVIOUS
<1>2. PICK shown \in [0..n -> 0..MaxRequests] :
        /\ shown[0] = a /\ shown[n] = last
        /\ \A i \in 1..n : Follows(shown[i - 1], events[i], shown[i])
    BY DEF Leads
<1> HIDE DEF n
<1> DEFINE Still(i) == \A j \in 0..i : shown[j] = a
           cleared == [i \in 0..n |-> IF Still(i) THEN 0 ELSE shown[i]]
<1>3. cleared \in [0..n -> 0..MaxRequests]
  <2>1. 0 \in 0..MaxRequests
    OBVIOUS
  <2> HIDE DEF Still
  <2> QED
    BY <1>2, <2>1
<1>4. \A i \in 0..n : cleared[i] = IF Still(i) THEN 0 ELSE shown[i]
    OBVIOUS
<1>5. ASSUME NEW i \in 1..n
      PROVE  /\ Still(i) => Still(i - 1)
             /\ Still(i) => shown[i - 1] = a /\ shown[i] = a
             /\ Still(i - 1) => shown[i - 1] = a
             /\ Still(i - 1) /\ ~Still(i) => shown[i] # a
             /\ i \in 0..n /\ i - 1 \in 0..n
  <2>1. /\ i \in 0..i /\ i - 1 \in 0..i /\ i - 1 \in 0..(i - 1)
        /\ \A j \in 0..(i - 1) : j \in 0..i
        /\ \A j \in 0..i : j = i \/ j \in 0..(i - 1)
        /\ i \in 0..n /\ i - 1 \in 0..n
    BY <1>1
  <2> QED
    BY <2>1
<1>6. Still(0) /\ (Still(n) => last = a) /\ 0 \in 0..n /\ n \in 0..n
    BY <1>1, <1>2
<1> HIDE DEF Still, cleared
<1>7. ASSUME NEW i \in 1..n
      PROVE  Follows(cleared[i - 1], events[i], cleared[i])
  <2>1. Follows(shown[i - 1], events[i], shown[i])
    BY <1>2
  <2>2. CASE Still(i)
    <3>1. cleared[i - 1] = 0 /\ cleared[i] = 0 /\ shown[i - 1] = shown[i]
      BY <1>4, <1>5, <2>2
    <3> QED
      BY <2>1, <3>1 DEF Follows
  <2>3. CASE Still(i - 1) /\ ~Still(i)
    <3>1. cleared[i - 1] = 0 /\ cleared[i] = shown[i] /\ shown[i] # shown[i - 1]
      BY <1>4, <1>5, <2>3
    <3> QED
      BY <2>1, <3>1 DEF Follows
  <2>4. CASE ~Still(i - 1) /\ ~Still(i)
    <3>1. cleared[i - 1] = shown[i - 1] /\ cleared[i] = shown[i]
      BY <1>4, <1>5, <2>4
    <3> QED
      BY <2>1, <3>1
  <2> QED
    BY <1>5, <2>2, <2>3, <2>4
<1>8. cleared[0] = 0 /\ cleared[n] = last
    BY <1>2, <1>4, <1>6
<1> QED
    BY <1>3, <1>7, <1>8 DEF Leads, n

\* The turn there is completes.
LEMMA LeadsToNone ==
    ASSUME NEW a, NEW events \in Seq(RuntimeEvent), NEW last \in Active,
           Leads(a, events, last)
    PROVE  /\ Leads(a, events \o Completed(last), 0)
           /\ events \o Completed(last) \in Seq(RuntimeEvent)
<1>1. CASE last = 0
  <2>1. events \o Completed(last) = events
    BY <1>1 DEF Completed
  <2> QED
    BY <1>1, <2>1
<1>2. CASE last # 0
  <2>1. Event("turn.completed", last) \in RuntimeEvent
    BY EventTyped DEF Active
  <2>2. Follows(last, Event("turn.completed", last), 0)
    BY DEF Follows, Event
  <2>3. Completed(last) = <<Event("turn.completed", last)>>
    BY <1>2 DEF Completed
  <2>4. 0 \in Active
    BY Zero DEF Active
  <2>5. Leads(a, events \o <<Event("turn.completed", last)>>, 0)
    BY <2>1, <2>2, <2>4, LeadsOn
  <2> QED
    BY <2>1, <2>3, <2>5
<1> QED
    BY <1>1, <1>2

LEMMA LeadsPast ==
    ASSUME NEW a, NEW events \in Seq(RuntimeEvent), NEW last \in Active,
           Leads(a, events, last), NEW event \in RuntimeEvent, NEW next \in Active,
           Follows(0, event, next)
    PROVE  Leads(a, events \o Completed(last) \o <<event>>, next)
    BY LeadsToNone, LeadsOn

-----------------------------------------------------------------------------
(* What the steps do to each record.                                       *)

LEMMA CallEdited ==
    ASSUME TypeOK, NEW c \in Callers, NEW at, calls' = [calls EXCEPT ![c].at = at]
    PROVE  /\ calls'[c].at = at /\ calls'[c].turn = calls[c].turn
           /\ calls'[c].seen = calls[c].seen /\ calls'[c].mode = calls[c].mode
           /\ calls'[c].id = calls[c].id
           /\ \A d \in Callers \ {c} : calls'[d] = calls[d]
<1>1. calls \in [Callers -> Call] /\ calls[c] \in Call
    BY DEF TypeOK
<1> QED BY <1>1 DEF Call

LEMMA CallReplaced ==
    ASSUME TypeOK, NEW c \in Callers, NEW call, calls' = [calls EXCEPT ![c] = call]
    PROVE  calls'[c] = call /\ \A d \in Callers \ {c} : calls'[d] = calls[d]
    BY DEF TypeOK

LEMMA CallSent ==
    ASSUME NEW cs, NEW turn \in 0..MaxRequests, calls' = Sending(cs, turn)
    PROVE  /\ \A c \in Callers : c = 0 \/ c # turn => calls'[c] = cs[c]
           /\ turn # 0 => /\ calls'[turn].at = "route" /\ calls'[turn].turn = turn
                          /\ calls'[turn].seen = NoSession /\ calls'[turn].id = 0
                          /\ calls'[turn].mode = binding.mode
    BY DEF Sending, Idle, Callers

LEMMA IdleIs ==
    /\ Idle.at = "idle" /\ Idle.turn = 0 /\ Idle.seen = NoSession /\ Idle.id = 0
    /\ NoSession.active = 0 /\ NoSession.status = "none"
    /\ AtRest.busy = FALSE /\ AtRest.seen.active = 0
    /\ AtRest.event.type = "session.exited" /\ AtRest.event.turn = 0
    BY DEF Idle, NoSession, AtRest, Event

LEMMA CallersAre ==
    /\ 0 \in Callers /\ \A k \in Turns : k \in Callers /\ k # 0
    /\ \A c \in Callers : c = 0 \/ c \in Turns
    BY DEF Callers, Turns

LEMMA FailingIs ==
    ASSUME TypeOK, NEW c \in Callers
    PROVE  /\ Failing(calls[c]).at \in {"idle", "clearing"}
           /\ Failing(calls[c]).turn \in {0, calls[c].turn}
           /\ Failing(calls[c]).seen \in {NoSession, thread.session}
           /\ Failing(calls[c]).id = 0
<1>1. calls[c] \in Call
    BY DEF TypeOK
<1> QED BY <1>1 DEF Failing, Idle, Call

SameData(c) ==
    /\ calls'[c].turn = calls[c].turn /\ calls'[c].seen = calls[c].seen
    /\ calls'[c].mode = calls[c].mode /\ calls'[c].id = calls[c].id

Others(c) == \A d \in Callers \ {c} : calls'[d] = calls[d]

\* A session comes up, for the handler or for a turn.
Comes(c) ==
    /\ ReadyToStart(c)
    /\ SessionUp(c, calls[c].mode)
    /\ UNCHANGED <<database, requests, stops, ingestion, asked>>

LEMMA ComesIs ==
    ASSUME TypeOK, NEW c \in Callers, Comes(c)
    PROVE  /\ adapter'.at = "live" /\ adapter'.id \in Free /\ adapter'.id # 0
           /\ adapter'.mode = calls[c].mode /\ adapter'.turn = 0
           /\ runtime' = runtime \o <<Event("session.started", 0)>>
           /\ Event("session.started", 0) \in RuntimeEvent
           /\ orphans' = Strays(orphans)
           /\ calls'[c].at = "registering" /\ SameData(c) /\ Others(c)
           /\ calls[c].at \in {"replacing", "ensuring", "route"}
           /\ mishaps \subseteq mishaps'
           /\ (\E d \in Callers \ {c} : calls[d].at \in Starts) => "raced" \in mishaps'
           /\ c # 0 /\ calls[c].mode # binding.mode => "reverted" \in mishaps'
           /\ UNCHANGED <<thread, binding, requests, stops, ingestion, asked>>
<1>1. PICK id \in Free :
        adapter' = [at |-> "live", id |-> id, mode |-> calls[c].mode, turn |-> 0]
    BY DEF Comes, SessionUp
<1>2. id # 0
    BY DEF Free
<1>3. Event("session.started", 0) \in RuntimeEvent /\ runtime \in Seq(RuntimeEvent)
    BY Zero, EventTyped DEF TypeOK
<1>4. runtime' = runtime \o <<Event("session.started", 0)>>
    BY <1>3 DEF Comes, SessionUp
<1>5. calls' = [calls EXCEPT ![c].at = "registering"]
    BY DEF Comes, SessionUp
<1>6. calls'[c].at = "registering" /\ SameData(c) /\ Others(c)
    BY <1>5, CallEdited DEF SameData, Others
<1>7. /\ orphans' = Strays(orphans) /\ mishaps \subseteq mishaps'
      /\ (\E d \in Callers \ {c} : calls[d].at \in Starts) => "raced" \in mishaps'
      /\ c # 0 /\ calls[c].mode # binding.mode => "reverted" \in mishaps'
    BY DEF Comes, SessionUp
<1>8. /\ calls[c].at \in {"replacing", "ensuring", "route"}
      /\ UNCHANGED <<thread, binding, requests, stops, ingestion, asked>>
    BY DEF Comes, ReadyToStart, database
<1> QED BY <1>1, <1>2, <1>3, <1>4, <1>6, <1>7, <1>8

\* A step of the handler on its call, or of a turn's fiber.
CallerStep(c) ==
    \/ Comes(c) \/ StartFails(c) \/ Register(c) \/ Clear(c)
    \/ c # 0 /\ (Send(c) \/ SendRefused(c) \/ Sent(c) \/ SendFails(c) \/ Rereads(c)
                 \/ Record(c))

LEMMA StepCases ==
    ASSUME [Next]_vars
    PROVE  \/ UNCHANGED vars
           \/ RequestTurn \/ RequestStop \/ SetMode \/ Delete
           \/ DropRequest \/ UseSession \/ StartSession \/ ReplaceSession \/ HandleStop
           \/ Unbind \/ Bind
           \/ \E c \in Callers : CallerStep(c)
           \/ ReaperChecks
           \/ \E s \in Stoppers : \/ StopFails(s) \/ StopBegins(s) \/ StopEnds(s)
                                  \/ StopRereads(s) \/ StopRecorded(s)
           \/ IngestReads \/ IngestWrites
           \/ TurnEnds \/ OrphanTurnEnds \/ SessionExits \/ OrphanExits \/ Restart
<1>1. Started => Comes(0)
    BY DEF Started, Comes
<1>2. \A c \in Callers : Recover(c) => Comes(c)
    BY DEF Recover, Comes
<1> QED BY NextCases, <1>1, <1>2 DEF Client, StopStep, Ingestion, CallerStep

\* What each step leaves alone.
LEMMA ClientFrames ==
    ASSUME TypeOK
    PROVE  /\ RequestTurn \/ RequestStop \/ SetMode \/ Delete =>
                /\ UNCHANGED <<binding, adapter, orphans, runtime, calls, ingestion, mishaps>>
                /\ UNCHANGED thread.session
           /\ RequestTurn \/ RequestStop => UNCHANGED thread
           /\ RequestTurn \/ RequestStop \/ SetMode => UNCHANGED stops
           /\ SetMode => thread'.deleted = thread.deleted
           /\ Delete => /\ thread'.deleted /\ UNCHANGED <<requests, thread.mode>>
                        /\ stops' = [stops EXCEPT !["deletion"].at = "due"]
           /\ RequestTurn \/ RequestStop \/ SetMode \/ Delete => asked' = asked + 1
<1> USE DEF database, provider, server, history, Asks
<1>a. thread \in [deleted : BOOLEAN, mode : Mode, session : Session]
    BY DEF TypeOK
<1>1. /\ RequestTurn => UNCHANGED <<thread, binding, adapter, orphans, runtime, calls, stops,
                                    ingestion, mishaps>> /\ asked' = asked + 1
      /\ RequestStop => UNCHANGED <<thread, binding, adapter, orphans, runtime, calls, stops,
                                    ingestion, mishaps>> /\ asked' = asked + 1
    BY DEF RequestTurn, RequestStop
<1>2. SetMode => /\ UNCHANGED <<binding, adapter, orphans, runtime, calls, stops,
                                ingestion, mishaps, thread.session, thread.deleted>>
                 /\ asked' = asked + 1
    BY <1>a DEF SetMode
<1>3. Delete => /\ UNCHANGED <<binding, adapter, orphans, runtime, requests, calls,
                               ingestion, mishaps, thread.session, thread.mode>>
                /\ thread'.deleted /\ asked' = asked + 1
                /\ stops' = [stops EXCEPT !["deletion"].at = "due"]
    BY <1>a DEF Delete
<1> QED BY <1>1, <1>2, <1>3

LEMMA ReactorFrames ==
    /\ UNCHANGED vars =>
         UNCHANGED <<thread, binding, adapter, orphans, runtime, requests, calls, stops,
                     ingestion, asked, mishaps>>
    /\ DropRequest =>
         /\ UNCHANGED <<thread, binding, adapter, orphans, runtime, calls, stops, ingestion,
                        asked>>
         /\ mishaps \subseteq mishaps'
    /\ UseSession \/ StartSession =>
         UNCHANGED <<thread, binding, adapter, orphans, runtime, stops, ingestion, asked,
                     mishaps>>
    /\ ReplaceSession =>
         UNCHANGED <<thread, binding, orphans, requests, stops, ingestion, asked, mishaps>>
    /\ HandleStop =>
         UNCHANGED <<thread, binding, adapter, orphans, runtime, ingestion, asked, mishaps>>
    /\ Unbind \/ Bind =>
         /\ UNCHANGED <<binding, adapter, orphans, runtime, requests, stops, ingestion, asked>>
         /\ mishaps \subseteq mishaps'
<1> USE DEF database, provider, server, history
<1>1. UNCHANGED vars =>
         UNCHANGED <<thread, binding, adapter, orphans, runtime, requests, calls, stops,
                     ingestion, asked, mishaps>>
    BY DEF vars
<1>2. DropRequest =>
         /\ UNCHANGED <<thread, binding, adapter, orphans, runtime, calls, stops, ingestion,
                        asked>>
         /\ mishaps \subseteq mishaps'
    BY DEF DropRequest
<1>3. UseSession \/ StartSession =>
         UNCHANGED <<thread, binding, adapter, orphans, runtime, stops, ingestion, asked,
                     mishaps>>
    BY DEF UseSession, StartSession
<1>4. /\ ReplaceSession =>
           UNCHANGED <<thread, binding, orphans, requests, stops, ingestion, asked, mishaps>>
      /\ HandleStop =>
           UNCHANGED <<thread, binding, adapter, orphans, runtime, ingestion, asked, mishaps>>
    BY DEF ReplaceSession, HandleStop
<1>5. Unbind \/ Bind =>
         /\ UNCHANGED <<binding, adapter, orphans, runtime, requests, stops, ingestion, asked>>
         /\ mishaps \subseteq mishaps'
    BY DEF Unbind, Bind, SetSession
<1> QED BY <1>1, <1>2, <1>3, <1>4, <1>5

LEMMA CallerFrames ==
    ASSUME NEW c \in Callers
    PROVE  /\ CallerStep(c) => UNCHANGED <<requests, stops, ingestion, asked>>
           /\ CallerStep(c) => mishaps \subseteq mishaps'
           /\ StartFails(c) => UNCHANGED <<thread, binding, runtime>>
           /\ Register(c) => UNCHANGED <<thread, adapter, orphans, runtime, mishaps>>
           /\ Clear(c) => UNCHANGED <<binding, adapter, orphans, runtime>>
           /\ Send(c) => UNCHANGED <<thread, binding, orphans>>
           /\ SendRefused(c) \/ Rereads(c) =>
                UNCHANGED <<thread, binding, adapter, orphans, runtime, mishaps>>
           /\ Sent(c) \/ SendFails(c) => UNCHANGED <<thread, binding>>
           /\ Record(c) => UNCHANGED <<thread, adapter, orphans, runtime>>
<1> USE DEF database, provider, server, history
<1>1. Comes(c) => UNCHANGED <<requests, stops, ingestion, asked>> /\ mishaps \subseteq mishaps'
    BY DEF Comes, SessionUp
<1>2. StartFails(c) => /\ UNCHANGED <<thread, binding, runtime, requests, stops, ingestion,
                                      asked>>
                       /\ mishaps \subseteq mishaps'
    BY DEF StartFails
<1>3. Register(c) => UNCHANGED <<thread, adapter, orphans, runtime, requests, stops, ingestion,
                                 asked, mishaps>>
    BY DEF Register
<1>4. Clear(c) => /\ UNCHANGED <<binding, adapter, orphans, runtime, requests, stops, ingestion,
                                 asked>>
                  /\ mishaps \subseteq mishaps'
    BY DEF Clear
<1>5. Send(c) => /\ UNCHANGED <<thread, binding, orphans, requests, stops, ingestion, asked>>
                 /\ mishaps \subseteq mishaps'
    BY DEF Send, Crossing
<1>6. SendRefused(c) \/ Rereads(c) =>
        UNCHANGED <<thread, binding, adapter, orphans, runtime, requests, stops, ingestion,
                    asked, mishaps>>
    BY DEF SendRefused, Rereads
<1>7. Sent(c) => /\ UNCHANGED <<thread, binding, requests, stops, ingestion, asked>>
                 /\ mishaps \subseteq mishaps'
    BY DEF Sent
<1>8. SendFails(c) => /\ UNCHANGED <<thread, binding, requests, stops, ingestion, asked>>
                      /\ mishaps \subseteq mishaps'
    BY DEF SendFails
<1>9. Record(c) => /\ UNCHANGED <<thread, adapter, orphans, runtime, requests, stops, ingestion,
                                  asked>>
                   /\ mishaps \subseteq mishaps'
    BY DEF Record, UpsertStatus
<1> QED BY <1>1, <1>2, <1>3, <1>4, <1>5, <1>6, <1>7, <1>8, <1>9 DEF CallerStep

LEMMA StopFrames ==
    ASSUME NEW s \in Stoppers
    PROVE  /\ StopFails(s) => UNCHANGED <<thread, binding, adapter, orphans, runtime, requests,
                                          ingestion, asked, mishaps>>
           /\ StopBegins(s) => UNCHANGED <<thread, binding, orphans, requests, calls, ingestion,
                                           asked, mishaps>>
           /\ StopEnds(s) => /\ UNCHANGED <<thread, binding, requests, calls, ingestion, asked>>
                             /\ mishaps \subseteq mishaps'
           /\ StopRereads(s) => UNCHANGED <<thread, binding, adapter, orphans, runtime, requests,
                                            calls, ingestion, asked, mishaps>>
           /\ StopRecorded(s) => /\ UNCHANGED <<thread, adapter, orphans, runtime, requests,
                                                ingestion, asked>>
                                 /\ mishaps \subseteq mishaps'
<1> USE DEF database, provider, server, history
<1>1. StopFails(s) => UNCHANGED <<thread, binding, adapter, orphans, runtime, requests,
                                  ingestion, asked, mishaps>>
    BY DEF StopFails
<1>2. StopBegins(s) => UNCHANGED <<thread, binding, orphans, requests, calls, ingestion,
                                   asked, mishaps>>
    BY DEF StopBegins
<1>3. StopEnds(s) => /\ UNCHANGED <<thread, binding, requests, calls, ingestion, asked>>
                     /\ mishaps \subseteq mishaps'
    BY DEF StopEnds, Closed
<1>4. StopRereads(s) => UNCHANGED <<thread, binding, adapter, orphans, runtime, requests,
                                    calls, ingestion, asked, mishaps>>
    BY DEF StopRereads
<1>5. StopRecorded(s) => /\ UNCHANGED <<thread, adapter, orphans, runtime, requests,
                                        ingestion, asked>>
                         /\ mishaps \subseteq mishaps'
    BY DEF StopRecorded, UpsertStatus
<1> QED BY <1>1, <1>2, <1>3, <1>4, <1>5

LEMMA OtherFrames ==
    /\ ReaperChecks =>
         /\ UNCHANGED <<thread, binding, adapter, orphans, runtime, requests, calls, ingestion,
                        asked, mishaps>>
         /\ stops' = [stops EXCEPT !["reaper"].at = "due"]
    /\ IngestReads =>
         UNCHANGED <<thread, binding, adapter, orphans, requests, calls, stops, asked, mishaps>>
    /\ IngestWrites =>
         /\ UNCHANGED <<binding, adapter, orphans, runtime, requests, calls, stops, asked>>
         /\ mishaps \subseteq mishaps' /\ ingestion.busy /\ ~ingestion'.busy
         /\ ingestion' = AtRest
    /\ TurnEnds =>
         UNCHANGED <<thread, binding, orphans, requests, calls, stops, ingestion, asked, mishaps>>
    /\ OrphanTurnEnds =>
         UNCHANGED <<thread, binding, adapter, requests, calls, stops, ingestion, asked, mishaps>>
    /\ SessionExits =>
         UNCHANGED <<thread, binding, orphans, requests, calls, stops, ingestion, asked, mishaps>>
    /\ OrphanExits =>
         UNCHANGED <<thread, binding, requests, calls, stops, ingestion, asked, mishaps>>
    /\ Restart =>
         /\ UNCHANGED <<thread, asked>> /\ adapter' = NoEntry /\ orphans' = {}
         /\ runtime' = <<>> /\ requests' = <<>> /\ ingestion' = AtRest
         /\ \A c \in Callers : calls'[c] = Idle
         /\ \A s \in Stoppers : stops'[s] = NoStop
         /\ mishaps \subseteq mishaps' /\ "restarted" \in mishaps'
<1> USE DEF database, provider, server, history
<1>1. ReaperChecks =>
         /\ UNCHANGED <<thread, binding, adapter, orphans, runtime, requests, calls, ingestion,
                        asked, mishaps>>
         /\ stops' = [stops EXCEPT !["reaper"].at = "due"]
    BY DEF ReaperChecks
<1>2. IngestReads =>
         UNCHANGED <<thread, binding, adapter, orphans, requests, calls, stops, asked, mishaps>>
    BY DEF IngestReads
<1>3. IngestWrites =>
         /\ UNCHANGED <<binding, adapter, orphans, runtime, requests, calls, stops, asked>>
         /\ mishaps \subseteq mishaps' /\ ingestion.busy /\ ~ingestion'.busy
         /\ ingestion' = AtRest
    BY DEF IngestWrites, SetSession, AtRest
<1>4. /\ TurnEnds =>
           UNCHANGED <<thread, binding, orphans, requests, calls, stops, ingestion, asked, mishaps>>
      /\ OrphanTurnEnds =>
           UNCHANGED <<thread, binding, adapter, requests, calls, stops, ingestion, asked, mishaps>>
    BY DEF TurnEnds, OrphanTurnEnds
<1>5. /\ SessionExits =>
           UNCHANGED <<thread, binding, orphans, requests, calls, stops, ingestion, asked, mishaps>>
      /\ OrphanExits =>
           UNCHANGED <<thread, binding, requests, calls, stops, ingestion, asked, mishaps>>
    BY DEF SessionExits, OrphanExits
<1>6. Restart =>
         /\ UNCHANGED <<thread, asked>> /\ adapter' = NoEntry /\ orphans' = {}
         /\ runtime' = <<>> /\ requests' = <<>> /\ ingestion' = AtRest
         /\ \A c \in Callers : calls'[c] = Idle
         /\ \A s \in Stoppers : stops'[s] = NoStop
         /\ mishaps \subseteq mishaps' /\ "restarted" \in mishaps'
    BY DEF Restart
<1> QED BY <1>1, <1>2, <1>3, <1>4, <1>5, <1>6

\* Nothing is forgotten of what the actors did to each other, nor a deletion.
LEMMA OnlyMore ==
    ASSUME TypeOK, [Next]_vars
    PROVE  mishaps \subseteq mishaps' /\ (thread.deleted => thread'.deleted)
<1>s. ASSUME NEW session, thread' = [thread EXCEPT !.session = session]
      PROVE  thread'.deleted = thread.deleted
    BY <1>s DEF TypeOK
<1>1. mishaps \subseteq mishaps'
    BY StepCases, ClientFrames, ReactorFrames, CallerFrames, StopFrames, OtherFrames
<1>2. \/ thread'.deleted = thread.deleted
      \/ Delete
    <2>1. Bind \/ Unbind \/ (\E c \in Callers : Clear(c)) \/ IngestWrites
            => thread'.deleted = thread.deleted
        BY <1>s DEF Bind, Unbind, Clear, IngestWrites, SetSession
    <2>2. ASSUME NEW c \in Callers, CallerStep(c) PROVE thread'.deleted = thread.deleted
        <3>1. CASE Comes(c)
            BY <3>1, ComesIs
        <3> QED BY <2>1, <2>2, <3>1, CallerFrames DEF CallerStep
    <2> QED BY StepCases, <2>1, <2>2, ClientFrames, ReactorFrames, StopFrames, OtherFrames
<1> QED BY <1>1, <1>2, ClientFrames

\* A step's move in its own call.
Fails(c) ==
    /\ calls'[c].at \in {"idle", "clearing"}
    /\ calls'[c].turn \in {0, calls[c].turn}
    /\ calls'[c].seen \in {NoSession, thread.session} /\ calls'[c].id = 0

MoveCase(c) ==
    \/ Comes(c) /\ calls'[c].at = "registering" /\ SameData(c)
    \/ StartFails(c) /\ ReadyToStart(c) /\ Fails(c)
    \/ /\ Register(c) /\ calls[c].at = "registering" /\ SameData(c)
       /\ calls'[c].at = IF c = 0 THEN "binding" ELSE "send"
    \/ Clear(c) /\ calls[c].at = "clearing" /\ calls'[c] = Idle
    \/ /\ c # 0 /\ Send(c) /\ calls[c].at \in {"send", "route"} /\ Live
       /\ calls'[c].at = "sending" /\ calls'[c].turn = c /\ calls'[c].seen = NoSession
       /\ calls'[c].id = adapter.id
    \/ /\ c # 0 /\ SendRefused(c) /\ Fails(c)
       /\ \/ calls[c].at = "route" /\ binding.status = "none"
          \/ calls[c].at = "send" /\ ~Live
    \/ /\ c # 0 /\ Sent(c) /\ calls[c].at = "sending" /\ calls'[c].at = "recording"
       /\ calls'[c].turn = c /\ calls'[c].seen = NoSession /\ calls'[c].id = 0
    \/ c # 0 /\ SendFails(c) /\ calls[c].at = "sending" /\ Fails(c)
    \/ /\ c # 0 /\ Rereads(c) /\ calls[c].at \in {"route", "recording"}
       /\ calls'[c].at = calls[c].at /\ calls'[c].turn = calls[c].turn
       /\ calls'[c].seen = calls[c].seen /\ calls'[c].id = calls[c].id
       /\ calls'[c].mode = binding.mode
    \/ c # 0 /\ Record(c) /\ calls[c].at = "recording" /\ calls'[c] = Idle

LEMMA CallerMoves ==
    ASSUME TypeOK, NEW c \in Callers, CallerStep(c)
    PROVE  MoveCase(c) /\ Others(c)
<1>f. ASSUME calls' = [calls EXCEPT ![c] = Failing(@)]
      PROVE  Fails(c) /\ Others(c)
    <2>1. calls' = [calls EXCEPT ![c] = Failing(calls[c])]
        BY <1>f
    <2> QED BY <2>1, FailingIs, CallReplaced DEF Fails, Others
<1>e. ASSUME calls' = [calls EXCEPT ![c] = Idle] PROVE calls'[c] = Idle /\ Others(c)
    BY <1>e, CallReplaced DEF Others
<1>1. CASE Comes(c)
    BY <1>1, ComesIs DEF MoveCase
<1>2. CASE StartFails(c)
    BY <1>2, <1>f DEF StartFails, MoveCase
<1>3. CASE Register(c)
    <2>1. /\ calls[c].at = "registering"
          /\ calls' = [calls EXCEPT ![c].at = IF c = 0 THEN "binding" ELSE "send"]
        BY <1>3 DEF Register
    <2> DEFINE at == IF c = 0 THEN "binding" ELSE "send"
    <2>2. calls' = [calls EXCEPT ![c].at = at]
        BY <2>1
    <2> HIDE DEF at
    <2>3. calls'[c].at = at /\ SameData(c) /\ Others(c)
        BY <2>2, CallEdited DEF SameData, Others
    <2> QED BY <1>3, <2>1, <2>3 DEF MoveCase, at
<1>4. CASE Clear(c)
    BY <1>4, <1>e DEF Clear, MoveCase
<1>5. CASE c # 0 /\ Send(c)
    <2>1. calls' = [calls EXCEPT ![c] = Sends(c)] /\ ReadyToSend(c)
        BY <1>5 DEF Send
    <2>2. /\ Sends(c).at = "sending" /\ Sends(c).turn = c /\ Sends(c).seen = NoSession
          /\ Sends(c).id = adapter.id
        BY DEF Sends, Idle
    <2>3. calls'[c] = Sends(c) /\ Others(c)
        BY <2>1, CallReplaced DEF Others
    <2> QED BY <1>5, <2>1, <2>2, <2>3 DEF MoveCase, ReadyToSend
<1>6. CASE c # 0 /\ SendRefused(c)
    BY <1>6, <1>f DEF SendRefused, MoveCase
<1>7. CASE c # 0 /\ Sent(c)
    <2> DEFINE sent == [Idle EXCEPT !.at = "recording", !.turn = c, !.mode = binding.mode]
    <2>1. /\ sent.at = "recording" /\ sent.turn = c /\ sent.seen = NoSession /\ sent.id = 0
        BY DEF Idle
    <2>2. calls' = [calls EXCEPT ![c] = sent] /\ calls[c].at = "sending"
        BY <1>7 DEF Sent
    <2> HIDE DEF sent
    <2>3. calls'[c] = sent /\ Others(c)
        BY <2>2, CallReplaced DEF Others
    <2> QED BY <1>7, <2>1, <2>2, <2>3 DEF MoveCase
<1>8. CASE c # 0 /\ SendFails(c)
    BY <1>8, <1>f DEF SendFails, MoveCase
<1>9. CASE c # 0 /\ Rereads(c)
    <2> DEFINE again == [calls[c] EXCEPT !.mode = binding.mode]
    <2>1. calls' = [calls EXCEPT ![c] = again] /\ calls[c].at \in {"route", "recording"}
        BY <1>9, CallMoves DEF Rereads
    <2>2. /\ again.at = calls[c].at /\ again.turn = calls[c].turn
          /\ again.seen = calls[c].seen /\ again.id = calls[c].id
          /\ again.mode = binding.mode
        <3>1. calls[c] \in Call
            BY DEF TypeOK
        <3> QED BY <3>1 DEF Call
    <2> HIDE DEF again
    <2>3. calls'[c] = again /\ Others(c)
        BY <2>1, CallReplaced DEF Others
    <2> QED BY <1>9, <2>1, <2>2, <2>3 DEF MoveCase
<1>10. CASE c # 0 /\ Record(c)
    BY <1>10, <1>e DEF Record, MoveCase
<1> QED BY <1>1, <1>2, <1>3, <1>4, <1>5, <1>6, <1>7, <1>8, <1>9, <1>10 DEF CallerStep

HandlerCase ==
    \/ calls'[0] = calls[0]
    \/ /\ StartSession /\ calls[0].at = "idle" /\ calls'[0].at = "ensuring"
       /\ calls'[0].turn = Head(requests).turn
       /\ calls'[0].seen = thread.session /\ calls'[0].mode = thread.mode
    \/ /\ HandleStop /\ calls[0].at = "idle" /\ calls'[0].turn = 0
       /\ calls'[0].seen = thread.session
       /\ \/ calls'[0].at = "stopping"
          \/ calls'[0].at = "unbinding" /\ thread.session.status # "live"
    \/ /\ ReplaceSession /\ calls[0].at = "ensuring" /\ calls'[0].at = "replacing"
       /\ SameData(0)
    \/ /\ stops["reactor"].at = "due" /\ StopFails("reactor") /\ calls'[0] = Idle
    \/ /\ StopRecorded("reactor") /\ stops["reactor"].at = "writing"
       /\ calls[0].at = "stopping" /\ calls'[0].at = "unbinding" /\ SameData(0)
    \/ Unbind /\ calls[0].at = "unbinding" /\ calls'[0] = Idle
    \/ Bind /\ calls[0].at = "binding" /\ calls'[0] = Idle
    \/ CallerStep(0) /\ MoveCase(0)
    \/ Restart /\ calls'[0] = Idle

FiberCase(k) ==
    \/ calls'[k] = calls[k]
    \/ /\ \/ UseSession /\ k = Head(requests).turn
          \/ Bind /\ k = calls[0].turn
       /\ calls[k].at = "idle" /\ calls'[k].at = "route" /\ calls'[k].seen = NoSession
       /\ calls'[k].id = 0 /\ calls'[k].mode = binding.mode
    \/ CallerStep(k) /\ MoveCase(k)
    \/ Restart /\ calls'[k] = Idle

\* A turn the handler hands over is at rest until then.
LEMMA TakenRest ==
    ASSUME TypeOK, NEW types, Takes(types)
    PROVE  /\ \A i \in 1..Len(requests') :
                i + 1 \in 1..Len(requests) /\ requests'[i] = requests[i + 1]
           /\ \A i \in 1..Len(requests) :
                \/ i = 1
                \/ i - 1 \in 1..Len(requests') /\ requests'[i - 1] = requests[i]
           /\ 1 \in 1..Len(requests) /\ Head(requests) = requests[1]
           /\ requests[1].type \in types
<1>1. requests \in Seq(Request) /\ requests # <<>> /\ requests' = Tail(requests)
    BY DEF TypeOK, Takes
<1>2. Len(requests) \in Nat \ {0} /\ Head(requests) = requests[1]
      /\ Len(requests') = Len(requests) - 1
      /\ \A i \in 1..(Len(requests) - 1) : requests'[i] = requests[i + 1]
    BY <1>1
<1>3. \A i \in 1..Len(requests) : i = 1 \/ i - 1 \in 1..(Len(requests) - 1)
    BY <1>2
<1>4. \A i \in 1..(Len(requests) - 1) : i + 1 \in 1..Len(requests)
    BY <1>2
<1>5. \A i \in 1..Len(requests) : (i - 1) + 1 = i
    BY <1>2
<1> QED BY <1>2, <1>3, <1>4, <1>5 DEF Takes

LEMMA HandedOver ==
    ASSUME TypeOK, TurnsAreSentOnce, NEW turn \in 0..MaxRequests, turn # 0,
           \/ turn = calls[0].turn
           \/ \E types : Takes(types) /\ turn = Head(requests).turn
    PROVE  turn \in Turns /\ turn \in Callers /\ calls[turn].at = "idle"
<1>1. turn \in Turns /\ turn \in Callers
    BY DEF Turns, Callers
<1>2. CASE turn = calls[0].turn
    BY <1>1, <1>2 DEF TurnsAreSentOnce
<1>3. ASSUME NEW types, Takes(types), turn = Head(requests).turn
      PROVE  calls[turn].at = "idle"
    <2>1. 1 \in 1..Len(requests) /\ turn = requests[1].turn
        BY <1>3, TakenRest
    <2> QED BY <2>1 DEF TurnsAreSentOnce
<1> QED BY <1>1, <1>2, <1>3

LEMMA CallsCases ==
    ASSUME TypeOK, TurnsAreSentOnce, StopsAreAwaited, [Next]_vars
    PROVE  HandlerCase /\ \A k \in Turns : FiberCase(k)
<1>a. calls \in [Callers -> Call] /\ calls[0] \in Call
    BY CallersAre DEF TypeOK
<1>1. ASSUME UNCHANGED calls PROVE HandlerCase /\ \A k \in Turns : FiberCase(k)
    BY <1>1 DEF HandlerCase, FiberCase
\* The handler hands a turn over to its fiber.
<1>h. ASSUME NEW cs, NEW turn \in 0..MaxRequests, calls' = Sending(cs, turn),
             \A k \in Turns : cs[k] = calls[k],
             \/ UseSession /\ turn = Head(requests).turn
             \/ Bind /\ turn = calls[0].turn,
             turn # 0 => calls[turn].at = "idle"
      PROVE  calls'[0] = cs[0] /\ \A k \in Turns : FiberCase(k)
    <2>1. calls'[0] = cs[0]
        BY <1>h, CallersAre, CallSent
    <2>2. ASSUME NEW k \in Turns PROVE FiberCase(k)
        <3>1. CASE k # turn
            BY <1>h, <3>1, CallersAre, CallSent DEF FiberCase
        <3>2. CASE k = turn
            <4>1. /\ calls'[k].at = "route" /\ calls'[k].seen = NoSession
                  /\ calls'[k].id = 0 /\ calls'[k].mode = binding.mode
                BY <1>h, <3>2, CallersAre, CallSent
            <4> QED BY <1>h, <3>2, <4>1, CallersAre DEF FiberCase
        <3> QED BY <3>1, <3>2
    <2> QED BY <2>1, <2>2
<1>2. CASE UseSession
    <2>1. PICK turn \in 0..MaxRequests :
            /\ turn = Head(requests).turn /\ Takes({"turn", "mode"})
            /\ calls' = Sending(calls, turn)
        BY <1>2, TakesTyped DEF UseSession
    <2>2. turn # 0 => calls[turn].at = "idle"
        BY <2>1, HandedOver
    <2> QED BY <1>2, <1>h, <2>1, <2>2 DEF HandlerCase
<1>3. CASE Bind
    <2>0. calls[0].turn \in 0..MaxRequests
        BY <1>a DEF Call
    <2>1. PICK turn \in 0..MaxRequests :
            /\ turn = calls[0].turn /\ calls[0].at = "binding"
            /\ calls' = Sending([calls EXCEPT ![0] = Idle], turn)
        BY <1>3, <2>0 DEF Bind
    <2>2. PICK handled : /\ calls' = Sending(handled, turn) /\ handled[0] = Idle
                         /\ \A k \in Turns : handled[k] = calls[k]
        <3> DEFINE handled == [calls EXCEPT ![0] = Idle]
        <3>1. handled[0] = Idle /\ \A k \in Turns : handled[k] = calls[k]
            BY <1>a, CallersAre
        <3> HIDE DEF handled
        <3> QED BY <2>1, <3>1 DEF handled
    <2>3. turn # 0 => calls[turn].at = "idle"
        BY <2>1, HandedOver
    <2>4. calls'[0] = Idle /\ \A k \in Turns : FiberCase(k)
        BY <1>3, <1>h, <2>1, <2>2, <2>3
    <2> QED BY <1>3, <2>1, <2>4 DEF HandlerCase
\* The handler goes on alone.
<1>4. ASSUME \A k \in Turns : calls'[k] = calls[k], HandlerCase
      PROVE  HandlerCase /\ \A k \in Turns : FiberCase(k)
    BY <1>4 DEF FiberCase
<1>o. ASSUME NEW call, calls' = [calls EXCEPT ![0] = call]
      PROVE  calls'[0] = call /\ \A k \in Turns : calls'[k] = calls[k]
    BY <1>a, <1>o, CallersAre
<1>5. CASE StartSession
    <2>1. PICK call : /\ calls' = [calls EXCEPT ![0] = call]
                      /\ call.at = "ensuring" /\ call.turn = Head(requests).turn
                      /\ call.seen = thread.session /\ call.mode = thread.mode
        <3> DEFINE call == [Idle EXCEPT !.at = "ensuring", !.mode = thread.mode,
                                        !.turn = Head(requests).turn, !.seen = thread.session]
        <3>1. /\ call.at = "ensuring" /\ call.turn = Head(requests).turn
              /\ call.seen = thread.session /\ call.mode = thread.mode
            BY DEF Idle
        <3>2. calls' = [calls EXCEPT ![0] = call]
            BY <1>5 DEF StartSession
        <3> HIDE DEF call
        <3> QED BY <3>1, <3>2
    <2>2. calls[0].at = "idle"
        BY <1>5 DEF StartSession, Takes
    <2>3. calls'[0] = call /\ \A k \in Turns : calls'[k] = calls[k]
        BY <1>o, <2>1
    <2> QED BY <1>4, <1>5, <2>1, <2>2, <2>3 DEF HandlerCase
<1>6. CASE HandleStop
    <2>1. PICK call : /\ calls' = [calls EXCEPT ![0] = call]
                      /\ call.seen = thread.session /\ call.turn = 0
                      /\ \/ call.at = "stopping"
                         \/ call.at = "unbinding" /\ thread.session.status # "live"
        <3> DEFINE stopping == [Idle EXCEPT !.at = "stopping", !.seen = thread.session]
                   unbinding == [stopping EXCEPT !.at = "unbinding"]
        <3>1. /\ stopping.seen = thread.session /\ stopping.at = "stopping"
              /\ unbinding.seen = thread.session /\ unbinding.at = "unbinding"
              /\ stopping.turn = 0 /\ unbinding.turn = 0
            BY DEF Idle
        <3>2. \/ calls' = [calls EXCEPT ![0] = stopping]
              \/ /\ calls' = [calls EXCEPT ![0] = unbinding]
                 /\ thread.session.status # "live"
            BY <1>6 DEF HandleStop
        <3> HIDE DEF stopping, unbinding
        <3> QED BY <3>1, <3>2
    <2>2. calls[0].at = "idle"
        BY <1>6 DEF HandleStop, Takes
    <2>3. calls'[0] = call /\ \A k \in Turns : calls'[k] = calls[k]
        BY <1>o, <2>1
    <2> QED BY <1>4, <1>6, <2>1, <2>2, <2>3 DEF HandlerCase
<1>7. CASE ReplaceSession
    <2>1. calls[0].at = "ensuring" /\ calls' = [calls EXCEPT ![0].at = "replacing"]
        BY <1>7 DEF ReplaceSession
    <2>2. /\ calls'[0].at = "replacing" /\ SameData(0)
          /\ \A k \in Turns : calls'[k] = calls[k]
        BY <2>1, CallersAre, CallEdited DEF SameData
    <2> QED BY <1>4, <1>7, <2>1, <2>2 DEF HandlerCase
<1>8. CASE Unbind
    <2>1. calls[0].at = "unbinding" /\ calls' = [calls EXCEPT ![0] = Idle]
        BY <1>8 DEF Unbind
    <2>2. calls'[0] = Idle /\ \A k \in Turns : calls'[k] = calls[k]
        BY <1>o, <2>1
    <2> QED BY <1>4, <1>8, <2>1, <2>2 DEF HandlerCase
<1>9. ASSUME NEW c \in Callers, CallerStep(c)
      PROVE  HandlerCase /\ \A k \in Turns : FiberCase(k)
    <2>1. MoveCase(c) /\ Others(c)
        BY <1>9, CallerMoves
    <2>2. HandlerCase
        BY <1>9, <2>1, CallersAre DEF HandlerCase, Others
    <2>3. ASSUME NEW k \in Turns PROVE FiberCase(k)
        BY <1>9, <2>1, CallersAre DEF FiberCase, Others
    <2> QED BY <2>2, <2>3
<1>10. ASSUME NEW s \in Stoppers, StopFails(s)
       PROVE  HandlerCase /\ \A k \in Turns : FiberCase(k)
    <2>1. stops[s].at = "due"
        BY <1>10 DEF StopFails
    <2>2. CASE s = "reactor"
        <3>1. calls' = [calls EXCEPT ![0] = Idle]
            BY <1>10, <2>2 DEF StopFails
        <3>2. calls'[0] = Idle /\ \A k \in Turns : calls'[k] = calls[k]
            BY <1>o, <3>1
        <3> QED BY <1>4, <1>10, <2>1, <2>2, <3>2 DEF HandlerCase
    <2>3. CASE s # "reactor"
        BY <1>1, <1>10, <2>3 DEF StopFails
    <2> QED BY <2>2, <2>3
<1>11. ASSUME NEW s \in Stoppers, StopRecorded(s)
       PROVE  HandlerCase /\ \A k \in Turns : FiberCase(k)
    <2>1. stops[s].at = "writing"
        BY <1>11 DEF StopRecorded
    <2>2. CASE s = "reactor"
        <3>1. calls' = [calls EXCEPT ![0].at = "unbinding"]
            BY <1>11, <2>2 DEF StopRecorded
        <3>2. calls[0].at = "stopping"
            BY <2>1, <2>2, AwaitedIs
        <3>3. /\ calls'[0].at = "unbinding" /\ SameData(0)
              /\ \A k \in Turns : calls'[k] = calls[k]
            BY <3>1, CallersAre, CallEdited DEF SameData
        <3> QED BY <1>4, <1>11, <2>1, <2>2, <3>2, <3>3 DEF HandlerCase
    <2>3. CASE s # "reactor"
        BY <1>1, <1>11, <2>3 DEF StopRecorded
    <2> QED BY <2>2, <2>3
<1>12. CASE Restart
    BY <1>12, CallersAre, OtherFrames DEF HandlerCase, FiberCase
<1>13. ASSUME NEW s \in Stoppers, StopBegins(s) \/ StopEnds(s) \/ StopRereads(s)
       PROVE  UNCHANGED calls
    BY <1>13, StopFrames
<1>14. RequestTurn \/ RequestStop \/ SetMode \/ Delete => UNCHANGED calls
    BY ClientFrames
<1>15. UNCHANGED vars \/ DropRequest => UNCHANGED calls
    BY ReactorFrames
<1>16. ReaperChecks \/ IngestReads \/ IngestWrites \/ TurnEnds \/ OrphanTurnEnds
         \/ SessionExits \/ OrphanExits => UNCHANGED calls
    BY OtherFrames
<1> QED
    BY StepCases, <1>1, <1>2, <1>3, <1>5, <1>6, <1>7, <1>8, <1>9, <1>10, <1>11,
       <1>12, <1>13, <1>14, <1>15, <1>16

\* The provider's sessions and what they report.
Quiet == UNCHANGED <<adapter, orphans, runtime>>

Closes ==
    /\ Live /\ adapter'.at = "closing" /\ adapter'.turn = 0
    /\ runtime' = runtime \o Completed(adapter.turn)
    /\ UNCHANGED <<thread, binding, orphans, ingestion, mishaps>>
    /\ \/ ReplaceSession
       \/ \E s \in Stoppers : StopBegins(s) /\ stops'[s].at = "closing"

Ends ==
    /\ adapter'.at = adapter.at /\ adapter'.id = adapter.id /\ adapter'.mode = adapter.mode
    /\ adapter'.turn = 0 /\ runtime' = runtime \o Completed(adapter.turn)
    /\ UNCHANGED <<thread, binding, orphans, ingestion>>
    /\ adapter.turn # 0 \/ Live

Stops(s) ==
    /\ StopEnds(s) /\ stops[s].at = "closing"
    /\ adapter' = NoEntry /\ orphans' = Strays(orphans)
    /\ runtime' = runtime \o Exited
    /\ Live => "evicted" \in mishaps'
    /\ UNCHANGED <<thread, binding, calls, ingestion>>

GivesUp ==
    /\ calls[0].at = "replacing" \/ \E k \in Turns : calls[k].at = "replacing"
    /\ adapter' = NoEntry /\ orphans' = Strays(orphans) /\ UNCHANGED runtime
    /\ "unstarted" \in mishaps'
    /\ UNCHANGED <<thread, binding, ingestion>>

Reports(k) ==
    /\ calls[k].at = "sending" /\ TurnStarted(k)
    /\ Sent(k) \/ SendFails(k)
    /\ "unsent" \in mishaps' \/ (Sent(k) /\ Holds(k))
    /\ UNCHANGED <<thread, binding, ingestion>>

Lone == SessionExits \/ OrphanTurnEnds \/ OrphanExits \/ Restart

AdapterCase ==
    \/ Quiet
    \/ IngestReads
    \/ Closes
    \/ Ends /\ (TurnEnds \/ \E k \in Turns : Send(k))
    \/ \E s \in Stoppers : Stops(s)
    \/ \E c \in Callers : Comes(c)
    \/ GivesUp
    \/ \E k \in Turns : Reports(k)
    \/ Lone

LEMMA AdapterCases ==
    ASSUME TypeOK, [Next]_vars
    PROVE  AdapterCase
<1>a. adapter \in Entry /\ stops \in [Stoppers -> Stop]
    BY DEF TypeOK
<1>c. ASSUME Live, Close
      PROVE  /\ adapter'.at = "closing" /\ adapter'.turn = 0
             /\ runtime' = runtime \o Completed(adapter.turn)
    BY <1>c, NoEntryIs DEF Close
<1>e. ASSUME adapter' = [adapter EXCEPT !.turn = 0]
      PROVE  /\ adapter'.at = adapter.at /\ adapter'.id = adapter.id
             /\ adapter'.mode = adapter.mode /\ adapter'.turn = 0
    BY <1>a, <1>e DEF Entry
<1>1. CASE ReplaceSession
    <2>1. Live /\ Close
        BY <1>1 DEF ReplaceSession
    <2> QED BY <1>1, <1>c, <2>1, ReactorFrames DEF AdapterCase, Closes
<1>2. ASSUME NEW s \in Stoppers, StopBegins(s) PROVE AdapterCase
    <2>1. CASE Live
        <3>1. Close /\ stops' = [stops EXCEPT ![s].at = "closing"]
            BY <1>2, <2>1 DEF StopBegins
        <3>2. stops'[s].at = "closing"
            BY <1>a, <3>1 DEF Stop
        <3> QED BY <1>2, <1>c, <2>1, <3>1, <3>2, StopFrames DEF AdapterCase, Closes
    <2>2. CASE ~Live
        <3>1. UNCHANGED <<adapter, runtime>>
            BY <1>2, <2>2 DEF StopBegins
        <3> QED BY <1>2, <3>1, StopFrames DEF AdapterCase, Quiet
    <2> QED BY <2>1, <2>2
<1>3. ASSUME NEW s \in Stoppers, StopEnds(s) PROVE AdapterCase
    <2>1. Stops(s)
        BY <1>3, StopFrames DEF Stops, StopEnds, Closed
    <2> QED BY <2>1 DEF AdapterCase
<1>4. ASSUME NEW s \in Stoppers, StopFails(s) \/ StopRereads(s) \/ StopRecorded(s)
      PROVE  AdapterCase
    BY <1>4, StopFrames DEF AdapterCase, Quiet
<1>5. ASSUME NEW c \in Callers, CallerStep(c) PROVE AdapterCase
    <2>1. CASE Comes(c)
        BY <2>1 DEF AdapterCase
    <2>2. CASE StartFails(c)
        <3>1. CASE calls[c].at = "replacing"
            <4>1. /\ adapter' = NoEntry /\ orphans' = Strays(orphans)
                  /\ "unstarted" \in mishaps'
                BY <2>2, <3>1 DEF StartFails
            <4>2. UNCHANGED <<thread, binding, ingestion, runtime>>
                BY <1>5, <2>2, CallerFrames
            <4>3. GivesUp
                BY <3>1, <4>1, <4>2, CallersAre DEF GivesUp
            <4> QED BY <4>3 DEF AdapterCase
        <3>2. CASE calls[c].at # "replacing"
            <4>1. UNCHANGED <<adapter, orphans>>
                BY <2>2, <3>2 DEF StartFails
            <4>2. UNCHANGED runtime
                BY <1>5, <2>2, CallerFrames
            <4> QED BY <4>1, <4>2 DEF AdapterCase, Quiet
        <3> QED BY <3>1, <3>2
    <2>3. CASE c # 0 /\ Send(c)
        <3>1. /\ Live /\ adapter' = [adapter EXCEPT !.turn = 0]
              /\ runtime' = runtime \o Completed(adapter.turn)
            BY <2>3 DEF Send, ReadyToSend
        <3>2. UNCHANGED <<thread, binding, orphans, ingestion>>
            BY <1>5, <2>3, CallerFrames
        <3>3. Ends /\ c \in Turns
            BY <1>e, <2>3, <3>1, <3>2, CallersAre DEF Ends
        <3> QED BY <2>3, <3>3 DEF AdapterCase
    <2>4. CASE c # 0 /\ Sent(c)
        <3>1. /\ calls[c].at = "sending" /\ TurnStarted(c)
              /\ "unsent" \in mishaps' \/ Holds(c)
            BY <2>4 DEF Sent
        <3>2. UNCHANGED <<thread, binding, ingestion>>
            BY <1>5, <2>4, CallerFrames
        <3>3. Reports(c) /\ c \in Turns
            BY <2>4, <3>1, <3>2, CallersAre DEF Reports
        <3> QED BY <3>3 DEF AdapterCase
    <2>5. CASE c # 0 /\ SendFails(c)
        <3>0. UNCHANGED <<thread, binding, ingestion>>
            BY <1>5, <2>5, CallerFrames
        <3>1. CASE TurnStarted(c) /\ "unsent" \in mishaps'
            <4>1. Reports(c) /\ c \in Turns
                BY <2>5, <3>0, <3>1, CallersAre DEF Reports, SendFails
            <4> QED BY <4>1 DEF AdapterCase
        <3>2. CASE ~(TurnStarted(c) /\ "unsent" \in mishaps')
            <4>1. UNCHANGED provider
                BY <2>5, <3>2 DEF SendFails
            <4> QED BY <4>1 DEF AdapterCase, Quiet, provider
        <3> QED BY <3>1, <3>2
    <2>6. CASE Register(c) \/ Clear(c) \/ SendRefused(c) \/ Rereads(c) \/ Record(c)
        BY <2>6, CallerFrames DEF AdapterCase, Quiet
    <2> QED BY <1>5, <2>1, <2>2, <2>3, <2>4, <2>5, <2>6 DEF CallerStep
<1>6. CASE TurnEnds
    <2>1. /\ adapter.turn # 0 /\ adapter' = [adapter EXCEPT !.turn = 0]
          /\ runtime' = runtime \o Completed(adapter.turn)
        BY <1>6 DEF TurnEnds
    <2> QED BY <1>6, <1>e, <2>1, OtherFrames DEF AdapterCase, Ends
<1>7. CASE Lone \/ IngestReads
    BY <1>7 DEF AdapterCase
<1>8. RequestTurn \/ RequestStop \/ SetMode \/ Delete => Quiet
    BY ClientFrames DEF Quiet
<1>9. UNCHANGED vars \/ DropRequest \/ UseSession \/ StartSession \/ HandleStop
        \/ Unbind \/ Bind => Quiet
    BY ReactorFrames DEF Quiet
<1>10. ReaperChecks \/ IngestWrites => Quiet
    BY OtherFrames DEF Quiet
<1> QED
    BY StepCases, <1>1, <1>2, <1>3, <1>4, <1>5, <1>6, <1>7, <1>8, <1>9, <1>10
    DEF AdapterCase, Lone

\* The session the thread shows.
ThreadCase ==
    \/ UNCHANGED thread.session
    \/ Bind /\ thread'.session = [status |-> "live", mode |-> calls[0].mode, active |-> 0]
    \/ Unbind /\ thread'.session = [calls[0].seen EXCEPT !.status = "stopped", !.active = 0]
    \/ \E c \in Callers : Clear(c) /\ thread'.session = [calls[c].seen EXCEPT !.active = 0]
    \/ /\ IngestWrites /\ Applies(ingestion.event, ingestion.seen)
       /\ thread'.session = Reported(ingestion.event, ingestion.seen)

LEMMA ThreadCases ==
    ASSUME TypeOK, [Next]_vars
    PROVE  ThreadCase /\ (thread'.mode = thread.mode \/ SetMode)
<1>s. ASSUME NEW session, thread' = [thread EXCEPT !.session = session]
      PROVE  thread'.session = session /\ thread'.mode = thread.mode
    BY <1>s DEF TypeOK
<1>1. CASE Bind
    BY <1>1, <1>s DEF Bind, SetSession, ThreadCase
<1>2. CASE Unbind
    BY <1>2, <1>s DEF Unbind, ThreadCase
<1>3. ASSUME NEW c \in Callers, Clear(c)
      PROVE  ThreadCase /\ thread'.mode = thread.mode
    BY <1>3, <1>s DEF Clear, ThreadCase
<1>4. CASE IngestWrites
    BY <1>4, <1>s DEF IngestWrites, SetSession, ThreadCase
<1>5. ASSUME NEW c \in Callers, CallerStep(c), ~Clear(c) PROVE UNCHANGED thread
    <2>1. CASE Comes(c)
        BY <2>1, ComesIs
    <2> QED BY <1>5, <2>1, CallerFrames DEF CallerStep
<1>6. ASSUME NEW s \in Stoppers,
             StopFails(s) \/ StopBegins(s) \/ StopEnds(s) \/ StopRereads(s) \/ StopRecorded(s)
      PROVE  UNCHANGED thread
    BY <1>6, StopFrames
<1>7. RequestTurn \/ RequestStop \/ Delete =>
        thread'.session = thread.session /\ thread'.mode = thread.mode
    BY ClientFrames
<1>8. SetMode => UNCHANGED thread.session
    BY ClientFrames
<1>9. UNCHANGED vars \/ DropRequest \/ UseSession \/ StartSession \/ ReplaceSession
        \/ HandleStop => UNCHANGED thread
    BY ReactorFrames
<1>10. ReaperChecks \/ IngestReads \/ TurnEnds \/ OrphanTurnEnds \/ SessionExits
         \/ OrphanExits \/ Restart => UNCHANGED thread
    BY OtherFrames
<1> QED
    BY StepCases, <1>1, <1>2, <1>3, <1>4, <1>5, <1>6, <1>7, <1>8, <1>9, <1>10 DEF ThreadCase

\* Who overwrites nothing had read what it writes over.
LEMMA WriterSaw ==
    ASSUME "overwritten" \notin mishaps'
    PROVE  /\ Bind => thread.session = calls[0].seen
           /\ Unbind => thread.session = calls[0].seen
           /\ \A c \in Callers : Clear(c) => thread.session = calls[c].seen
           /\ IngestWrites /\ Applies(ingestion.event, ingestion.seen) =>
                thread.session = ingestion.seen
<1>1. Bind => thread.session = calls[0].seen
    BY DEF Bind, SetSession
<1>2. Unbind => thread.session = calls[0].seen
    BY DEF Unbind
<1>3. ASSUME NEW c \in Callers, Clear(c) PROVE thread.session = calls[c].seen
    BY <1>3 DEF Clear
<1>4. IngestWrites /\ Applies(ingestion.event, ingestion.seen) =>
        thread.session = ingestion.seen
    BY DEF IngestWrites, SetSession
<1> QED BY <1>1, <1>2, <1>3, <1>4

\* What is written then: a session, one without its turn, or a report.
SessionCase ==
    \/ UNCHANGED thread.session
    \/ /\ Bind /\ thread'.session.status = "live" /\ thread'.session.active = 0
       /\ thread'.session.mode = calls[0].mode /\ thread.session = calls[0].seen
    \/ /\ Unbind /\ thread'.session.status = "stopped" /\ thread'.session.active = 0
       /\ thread'.session.mode = thread.session.mode
       /\ thread.session = calls[0].seen
    \/ \E c \in Callers :
         /\ Clear(c) /\ thread'.session.status = thread.session.status
         /\ thread'.session.active = 0
         /\ thread'.session.mode = thread.session.mode
         /\ thread.session = calls[c].seen
    \/ /\ IngestWrites /\ Applies(ingestion.event, ingestion.seen)
       /\ thread.session = ingestion.seen
       /\ thread'.session = Reported(ingestion.event, thread.session)

LEMMA SessionCases ==
    ASSUME TypeOK, "overwritten" \notin mishaps', [Next]_vars
    PROVE  SessionCase
<1>a. thread.session \in Session
    BY DEF TypeOK
<1>1. ASSUME NEW session \in Session
      PROVE  LET unbound == [session EXCEPT !.status = "stopped", !.active = 0]
                 cleared == [session EXCEPT !.active = 0]
             IN  /\ unbound.status = "stopped" /\ unbound.active = 0
                 /\ unbound.mode = session.mode
                 /\ cleared.status = session.status /\ cleared.active = 0
                 /\ cleared.mode = session.mode
    BY DEF Session
<1>2. ASSUME Bind, thread'.session = [status |-> "live", mode |-> calls[0].mode,
                                      active |-> 0]
      PROVE  SessionCase
    BY <1>2, WriterSaw DEF SessionCase
<1>3. ASSUME Unbind, thread'.session = [calls[0].seen EXCEPT !.status = "stopped",
                                                             !.active = 0]
      PROVE  SessionCase
    <2>1. thread.session = calls[0].seen
        BY <1>3, WriterSaw
    <2>2. thread'.session = [thread.session EXCEPT !.status = "stopped", !.active = 0]
        BY <1>3, <2>1
    <2> QED BY <1>a, <1>1, <1>3, <2>1, <2>2 DEF SessionCase
<1>4. ASSUME NEW c \in Callers, Clear(c),
             thread'.session = [calls[c].seen EXCEPT !.active = 0]
      PROVE  SessionCase
    <2>1. thread.session = calls[c].seen
        BY <1>4, WriterSaw
    <2>2. thread'.session = [thread.session EXCEPT !.active = 0]
        BY <1>4, <2>1
    <2> QED BY <1>a, <1>1, <1>4, <2>1, <2>2 DEF SessionCase
<1>5. IngestWrites /\ Applies(ingestion.event, ingestion.seen) =>
        thread.session = ingestion.seen
    BY WriterSaw
<1> QED BY ThreadCases, <1>2, <1>3, <1>4, <1>5 DEF ThreadCase, SessionCase

\* The binding is never forgotten; its mode is that of the session registered,
\* or what an upsert of its status had read.
LEMMA BindingCases ==
    ASSUME TypeOK, [Next]_vars
    PROVE  /\ binding.status # "none" => binding'.status # "none"
           /\ \/ binding'.mode = binding.mode
              \/ \E c \in Callers : Register(c) /\ binding'.mode = calls[c].mode
              \/ "reverted" \in mishaps'
           /\ \A c \in Callers : Register(c) => binding'.status # "none"
<1>a. binding \in [status : {"none", "running", "stopped"}, mode : Mode]
    BY DEF TypeOK
<1>r. \A c \in Callers : Register(c) =>
        binding'.status # "none" /\ binding'.mode = calls[c].mode
    BY DEF Register, UpsertRunning
<1>u. ASSUME NEW status \in {"running", "stopped"}, NEW read, UpsertStatus(status, read)
      PROVE  /\ binding'.status # "none"
             /\ binding'.mode = binding.mode \/ "reverted" \in mishaps'
    BY <1>u DEF UpsertStatus
<1>1. ASSUME NEW c \in Callers, CallerStep(c)
      PROVE  \/ UNCHANGED binding \/ Register(c)
             \/ /\ binding'.status # "none"
                /\ binding'.mode = binding.mode \/ "reverted" \in mishaps'
    <2>1. CASE Comes(c)
        BY <2>1, ComesIs
    <2>2. CASE Record(c)
        BY <1>u, <2>2 DEF Record
    <2> QED BY <1>1, <2>1, <2>2, CallerFrames DEF CallerStep
<1>2. ASSUME NEW s \in Stoppers, StopRecorded(s)
      PROVE  /\ binding'.status # "none"
             /\ binding'.mode = binding.mode \/ "reverted" \in mishaps'
    BY <1>2, <1>u DEF StopRecorded
<1>3. ASSUME NEW s \in Stoppers,
             StopFails(s) \/ StopBegins(s) \/ StopEnds(s) \/ StopRereads(s)
      PROVE  UNCHANGED binding
    BY <1>3, StopFrames
<1>4. RequestTurn \/ RequestStop \/ SetMode \/ Delete => UNCHANGED binding
    BY ClientFrames
<1>5. UNCHANGED vars \/ DropRequest \/ UseSession \/ StartSession \/ ReplaceSession
        \/ HandleStop \/ Unbind \/ Bind => UNCHANGED binding
    BY ReactorFrames
<1>6. ReaperChecks \/ IngestReads \/ IngestWrites \/ TurnEnds \/ OrphanTurnEnds
        \/ SessionExits \/ OrphanExits => UNCHANGED binding
    BY OtherFrames
<1>7. Restart => /\ binding.status # "none" => binding'.status # "none"
                 /\ binding'.mode = binding.mode
    BY <1>a DEF Restart
<1> QED
    BY StepCases, <1>r, <1>1, <1>2, <1>3, <1>4, <1>5, <1>6, <1>7

LEMMA RequestsCases ==
    ASSUME TypeOK, [Next]_vars
    PROVE  \/ UNCHANGED requests
           \/ DropRequest \/ UseSession \/ StartSession \/ HandleStop
           \/ \E type \in {"turn", "stop", "mode"}, turn \in {0, asked'} :
                /\ requests' = Append(requests, [type |-> type, turn |-> turn])
                /\ type = "turn" => turn # 0
                /\ Asks /\ UNCHANGED calls
           \/ Restart /\ requests' = <<>>
<1>1. CASE RequestTurn
    <2>1. /\ requests' = Append(requests, [type |-> "turn", turn |-> asked']) /\ Asks
        BY <1>1 DEF RequestTurn
    <2>2. asked' # 0
        BY <2>1 DEF Asks, TypeOK
    <2> QED BY <1>1, <2>1, <2>2, ClientFrames
<1>2. CASE RequestStop \/ SetMode
    <2>1. \E type \in {"stop", "mode"} :
            requests' = Append(requests, [type |-> type, turn |-> 0]) /\ Asks
        BY <1>2 DEF RequestStop, SetMode
    <2> QED BY <1>2, <2>1, ClientFrames
<1>3. ASSUME NEW c \in Callers, CallerStep(c) PROVE UNCHANGED requests
    BY <1>3, CallerFrames
<1>4. ASSUME NEW s \in Stoppers,
             StopFails(s) \/ StopBegins(s) \/ StopEnds(s) \/ StopRereads(s) \/ StopRecorded(s)
      PROVE  UNCHANGED requests
    BY <1>4, StopFrames
<1>5. UNCHANGED vars \/ ReplaceSession \/ Unbind \/ Bind => UNCHANGED requests
    BY ReactorFrames
<1>6. ReaperChecks \/ IngestReads \/ IngestWrites \/ TurnEnds \/ OrphanTurnEnds
        \/ SessionExits \/ OrphanExits => UNCHANGED requests
    BY OtherFrames
<1>7. Delete => UNCHANGED requests
    BY ClientFrames
<1>8. Restart => requests' = <<>>
    BY OtherFrames
<1> QED BY StepCases, <1>1, <1>2, <1>3, <1>4, <1>5, <1>6, <1>7, <1>8

\* Who takes, asks nothing else.
LEMMA Taken ==
    ASSUME DropRequest \/ UseSession \/ StartSession \/ HandleStop
    PROVE  /\ calls[0].at = "idle" /\ Takes({"turn", "stop", "mode"})
           /\ UNCHANGED <<thread, binding, asked>>
           /\ UseSession \/ StartSession => Takes({"turn", "mode"})
           /\ HandleStop => Takes({"stop"})
    BY DEF DropRequest, UseSession, StartSession, HandleStop, Takes, database, history

LEMMA IngestionCases ==
    ASSUME TypeOK, [Next]_vars
    PROVE  UNCHANGED ingestion \/ IngestReads \/ IngestWrites \/ Restart
<1>1. ASSUME NEW c \in Callers, CallerStep(c) PROVE UNCHANGED ingestion
    BY <1>1, CallerFrames
<1>2. ASSUME NEW s \in Stoppers,
             StopFails(s) \/ StopBegins(s) \/ StopEnds(s) \/ StopRereads(s) \/ StopRecorded(s)
      PROVE  UNCHANGED ingestion
    BY <1>2, StopFrames
<1>3. RequestTurn \/ RequestStop \/ SetMode \/ Delete => UNCHANGED ingestion
    BY ClientFrames
<1>4. UNCHANGED vars \/ DropRequest \/ UseSession \/ StartSession \/ ReplaceSession
        \/ HandleStop \/ Unbind \/ Bind => UNCHANGED ingestion
    BY ReactorFrames
<1>5. ReaperChecks \/ TurnEnds \/ OrphanTurnEnds \/ SessionExits \/ OrphanExits
        => UNCHANGED ingestion
    BY OtherFrames
<1> QED BY StepCases, <1>1, <1>2, <1>3, <1>4, <1>5

\* The stop the reactor asked for.
LEMMA StopsCases ==
    ASSUME TypeOK, [Next]_vars
    PROVE  \/ stops'["reactor"] = stops["reactor"]
           \/ HandleStop /\ stops'["reactor"].at = "due"
           \/ StopFails("reactor") /\ stops'["reactor"].at = "idle"
           \/ /\ StopBegins("reactor") /\ Live
              /\ stops'["reactor"].at = "closing" /\ adapter'.turn = 0
           \/ /\ StopBegins("reactor") /\ ~Live
              /\ stops'["reactor"].at = "writing" /\ UNCHANGED adapter
           \/ StopEnds("reactor") /\ stops["reactor"].at = "closing"
           \/ StopRereads("reactor") /\ stops["reactor"].at = "writing"
           \/ StopRecorded("reactor") /\ stops'["reactor"].at = "idle"
           \/ Restart /\ stops'["reactor"].at = "idle"
<1>a. /\ stops \in [Stoppers -> Stop] /\ "reactor" \in Stoppers
      /\ "deletion" # "reactor" /\ "reaper" # "reactor"
      /\ NoStop.at = "idle" /\ Writing.at = "writing"
    BY StopperNames DEF TypeOK, NoStop, Writing
<1>b. stops["reactor"] \in Stop
    BY <1>a
<1>1. ASSUME NEW s \in Stoppers, NEW stop, s # "reactor",
             \/ stops' = [stops EXCEPT ![s] = stop]
             \/ stops' = [stops EXCEPT ![s].at = stop]
      PROVE  stops'["reactor"] = stops["reactor"]
    BY <1>1, <1>a
<1>2. ASSUME NEW s \in Stoppers, s # "reactor",
             StopFails(s) \/ StopBegins(s) \/ StopEnds(s) \/ StopRereads(s) \/ StopRecorded(s)
      PROVE  stops'["reactor"] = stops["reactor"]
    BY <1>1, <1>2 DEF StopFails, StopBegins, StopEnds, StopRereads, StopRecorded
<1>3. CASE StopFails("reactor") \/ StopRecorded("reactor")
    <2>1. stops'["reactor"] = NoStop
        BY <1>3, <1>a DEF StopFails, StopRecorded
    <2> QED BY <1>3, <1>a, <2>1
<1>4. CASE StopBegins("reactor")
    <2>1. CASE Live
        <3>1. stops' = [stops EXCEPT !["reactor"].at = "closing"] /\ Close
            BY <1>4, <2>1 DEF StopBegins
        <3>2. stops'["reactor"].at = "closing"
            BY <1>a, <1>b, <3>1 DEF Stop
        <3>3. adapter'.turn = 0
            BY <3>1, NoEntryIs DEF Close
        <3> QED BY <1>4, <2>1, <3>2, <3>3
    <2>2. CASE ~Live
        <3>1. stops'["reactor"] = Writing /\ UNCHANGED adapter
            BY <1>4, <1>a, <2>2 DEF StopBegins
        <3> QED BY <1>4, <1>a, <2>2, <3>1
    <2> QED BY <2>1, <2>2
<1>5. StopEnds("reactor") => stops["reactor"].at = "closing"
    BY DEF StopEnds
<1>6. StopRereads("reactor") => stops["reactor"].at = "writing"
    BY DEF StopRereads
<1>7. HandleStop => \/ stops'["reactor"] = stops["reactor"]
                    \/ stops'["reactor"].at = "due"
    <2>1. ASSUME stops' = [stops EXCEPT !["reactor"].at = "due"]
          PROVE  stops'["reactor"].at = "due"
        BY <1>a, <1>b, <2>1 DEF Stop
    <2> QED BY <2>1 DEF HandleStop
<1>8. Delete \/ ReaperChecks => stops'["reactor"] = stops["reactor"]
    BY <1>1, <1>a, StopperNames, ClientFrames, OtherFrames
<1>9. RequestTurn \/ RequestStop \/ SetMode => UNCHANGED stops
    BY ClientFrames
<1>10. UNCHANGED vars \/ DropRequest \/ UseSession \/ StartSession \/ ReplaceSession
        \/ Unbind \/ Bind => UNCHANGED stops
    BY ReactorFrames DEF DropRequest
<1>11. ASSUME NEW c \in Callers, CallerStep(c) PROVE UNCHANGED stops
    BY <1>11, CallerFrames
<1>12. IngestReads \/ IngestWrites \/ TurnEnds \/ OrphanTurnEnds \/ SessionExits
        \/ OrphanExits => UNCHANGED stops
    BY OtherFrames
<1>13. Restart => stops'["reactor"] = NoStop
    BY <1>a, OtherFrames
<1> QED
    BY StepCases, <1>a, <1>2, <1>3, <1>4, <1>5, <1>6, <1>7, <1>8, <1>9, <1>10, <1>11, <1>12,
       <1>13

-----------------------------------------------------------------------------
(* A turn that is not sent is not heard of.                                *)

LEMMA RequestsTyped ==
    ASSUME TypeOK
    PROVE  /\ requests \in Seq(Request) /\ Len(requests) \in Nat
           /\ \A i \in 1..Len(requests) :
                requests[i] \in Request /\ requests[i].turn \in 0..MaxRequests
           /\ asked \in Nat
<1>1. requests \in Seq(Request) /\ Len(requests) \in Nat /\ asked \in Nat
    BY DEF TypeOK
<1>2. \A i \in 1..Len(requests) : requests[i] \in Request
    BY <1>1
<1> QED BY <1>1, <1>2 DEF Request

LEMMA AskedCases ==
    ASSUME TypeOK, [Next]_vars
    PROVE  asked' = asked \/ asked' = asked + 1
    BY StepCases, ClientFrames, ReactorFrames, CallerFrames, StopFrames, OtherFrames

\* Before a turn is sent, who holds it now held it before the step.
LEMMA UnsentStep ==
    ASSUME TypeOK, TurnsAreSentOnce, StopsAreAwaited, StartsAreAsked, [Next]_vars,
           NEW k \in Turns, Unsent(k)'
    PROVE  Unsent(k)
<1>a. k \in Callers /\ k # 0 /\ k \in Nat /\ 0 \in Callers
    BY CallersAre DEF Turns
<1>1. ASSUME calls'[k].at \in {"route", "registering", "send", "sending"} PROVE Unsent(k)
    <2>1. CASE UseSession /\ k = Head(requests).turn
        <3>1. 1 \in 1..Len(requests) /\ requests[1].turn = k
            BY <2>1, Taken, TakenRest
        <3> QED BY <3>1 DEF Unsent
    <2>2. CASE Bind /\ k = calls[0].turn
        BY <2>2 DEF Unsent
    <2>3. CASE MoveCase(k) /\ CallerStep(k)
        BY <1>1, <1>a, <2>3, ComesIs, IdleIs DEF MoveCase, Fails, Unsent, StartsAreAsked
    <2> QED BY <1>1, <2>1, <2>2, <2>3, CallsCases, IdleIs DEF FiberCase, Unsent
<1>2. ASSUME calls'[0].turn = k PROVE Unsent(k)
    <2>1. CASE StartSession /\ k = Head(requests).turn
        <3>1. 1 \in 1..Len(requests) /\ requests[1].turn = k
            BY <2>1, Taken, TakenRest
        <3> QED BY <3>1 DEF Unsent
    <2>2. CASE calls[0].turn = k
        BY <2>2 DEF Unsent
    <2>3. CASE MoveCase(0) /\ CallerStep(0)
        BY <1>2, <1>a, <2>2, <2>3, IdleIs DEF MoveCase, Fails, SameData
    <2> QED BY <1>2, <1>a, <2>1, <2>2, <2>3, CallsCases, IdleIs DEF HandlerCase, SameData
<1>3. ASSUME NEW i \in 1..Len(requests'), requests'[i].turn = k PROVE Unsent(k)
    <2>1. CASE UNCHANGED requests
        BY <1>3, <2>1 DEF Unsent
    <2>2. CASE DropRequest \/ UseSession \/ StartSession \/ HandleStop
        <3>1. i + 1 \in 1..Len(requests) /\ requests[i + 1].turn = k
            BY <1>3, <2>2, Taken, TakenRest
        <3> QED BY <3>1 DEF Unsent
    <2>3. ASSUME NEW type, NEW turn \in {0, asked'}, Asks,
                 requests' = Append(requests, [type |-> type, turn |-> turn])
          PROVE  Unsent(k)
        <3>1. \/ i \in 1..Len(requests) /\ requests'[i] = requests[i]
              \/ requests'[i].turn = turn
            BY <2>3, RequestsTyped
        <3>2. asked \in Nat /\ asked' = asked + 1
            BY <2>3, RequestsTyped DEF Asks
        <3>3. requests'[i].turn = turn => k > asked
            BY <1>a, <1>3, <2>3, <3>2
        <3> QED BY <1>3, <3>1, <3>3 DEF Unsent
    <2>4. requests' # <<>>
        BY <1>3
    <2> QED BY <2>1, <2>2, <2>3, <2>4, RequestsCases
<1>4. ASSUME k > asked' PROVE Unsent(k)
    <2>1. k > asked
        BY <1>a, <1>4, RequestsTyped, AskedCases
    <2> QED BY <2>1 DEF Unsent
<1> QED BY <1>1, <1>2, <1>3, <1>4 DEF Unsent

\* A turn on its way is not sent, and is once it is reported.
LEMMA ReportedIsSent ==
    ASSUME TypeOK, TurnsAreSentOnce, StopsAreAwaited, NEW k \in Turns, Reports(k), [Next]_vars
    PROVE  Unsent(k) /\ ~Unsent(k)'
<1>a. k \in Callers /\ k # 0 /\ 0 \in Callers /\ calls[k].at = "sending"
    BY CallersAre DEF Reports
<1>1. Unsent(k)
    BY <1>a DEF Unsent
<1>2. /\ UNCHANGED <<requests, asked>> /\ MoveCase(k) /\ Others(k)
    BY <1>a, CallerFrames, CallerMoves DEF Reports, CallerStep
<1>3. calls'[k].at \in {"recording", "idle", "clearing"}
    BY <1>a, <1>2, ComesIs DEF MoveCase, Fails
<1>4. calls'[0] = calls[0]
    BY <1>a, <1>2 DEF Others
<1>5. /\ calls[0].turn # k /\ \A i \in 1..Len(requests) : requests[i].turn # k
      /\ ~(k > asked)
    BY <1>a DEF TurnsAreSentOnce
<1> QED BY <1>1, <1>2, <1>3, <1>4, <1>5 DEF Unsent

\* Who has heard of a turn.
HeardByThread(k) == thread.session.active = k
HeardByIngestion(k) ==
    ingestion.seen.active = k \/ ingestion.event = Event("turn.started", k)
HeardByCallers(k) == \E c \in Callers : calls[c].seen.active = k
HeardByReports(k) == \E i \in 1..Len(runtime) : runtime[i] = Event("turn.started", k)
HeardByProvider(k) == adapter.turn = k \/ \E o \in orphans : o.turn = k

Heard(k) ==
    \/ HeardByThread(k) \/ HeardByIngestion(k) \/ HeardByCallers(k)
    \/ HeardByReports(k) \/ HeardByProvider(k)

LEMMA UnseenIs ==
    /\ UnsentIsUnseen <=> \A k \in Turns : Unsent(k) => ~Heard(k)
    /\ UnsentIsUnseen' <=> \A k \in Turns : Unsent(k)' => ~Heard(k)'
    BY Zenon DEF UnsentIsUnseen, Heard, HeardByThread, HeardByIngestion, HeardByCallers,
                 HeardByReports, HeardByProvider

LEMMA ThreadHears ==
    ASSUME TypeOK, [Next]_vars, NEW k \in Turns, HeardByThread(k)'
    PROVE  Heard(k)
<1>a. /\ calls \in [Callers -> Call] /\ k # 0 /\ 0 \in Callers
      /\ ingestion.event \in RuntimeEvent /\ ingestion.seen \in Session
    BY CallersAre DEF TypeOK
<1>b. \A c \in Callers : calls[c].seen \in Session
    BY <1>a DEF Call
<1>h. thread'.session.active = k
    BY DEF HeardByThread
<1>1. CASE UNCHANGED thread.session
    BY <1>h, <1>1 DEF Heard, HeardByThread
<1>2. ASSUME NEW session \in Session,
             \/ thread'.session = [session EXCEPT !.status = "stopped", !.active = 0]
             \/ thread'.session = [session EXCEPT !.active = 0]
      PROVE  FALSE
    BY <1>a, <1>h, <1>2 DEF Session
<1>3. thread'.session # [status |-> "live", mode |-> calls[0].mode, active |-> 0]
    BY <1>a, <1>h
<1>4. CASE thread'.session = Reported(ingestion.event, ingestion.seen)
    <2>1. \/ ingestion.seen.active = k
          \/ ingestion.event.type = "turn.started" /\ ingestion.event.turn = k
        BY <1>4, <1>a, <1>h DEF Reported, RuntimeEvent, Session
    <2>2. ingestion.event.type = "turn.started" /\ ingestion.event.turn = k
            => ingestion.event = Event("turn.started", k)
        BY <1>a DEF RuntimeEvent, Event
    <2> QED BY <2>1, <2>2 DEF Heard, HeardByIngestion
<1> QED BY ThreadCases, <1>a, <1>b, <1>1, <1>2, <1>3, <1>4 DEF ThreadCase

LEMMA IngestionHears ==
    ASSUME TypeOK, [Next]_vars, NEW k \in Turns, HeardByIngestion(k)'
    PROVE  Heard(k)
<1>a. k # 0 /\ runtime \in Seq(RuntimeEvent)
    BY DEF TypeOK, Turns
<1>h. ingestion'.seen.active = k \/ ingestion'.event = Event("turn.started", k)
    BY DEF HeardByIngestion
<1>1. CASE UNCHANGED ingestion
    BY <1>h, <1>1 DEF Heard, HeardByIngestion
<1>2. ingestion' # AtRest
    BY <1>a, <1>h, IdleIs DEF Event
<1>3. CASE IngestReads
    <2>1. runtime # <<>> => Head(runtime) = runtime[1] /\ 1 \in 1..Len(runtime)
        BY <1>a
    <2>2. \/ ingestion' = ingestion
          \/ ingestion' = [busy |-> TRUE, event |-> runtime[1], seen |-> thread.session]
        BY <1>3, <2>1 DEF IngestReads
    <2> QED BY <1>1, <1>3, <1>h, <2>1, <2>2
            DEF Heard, HeardByThread, HeardByReports, IngestReads
<1> QED BY <1>1, <1>2, <1>3, IngestionCases, OtherFrames

LEMMA CallersHear ==
    ASSUME TypeOK, TurnsAreSentOnce, StopsAreAwaited, [Next]_vars, NEW k \in Turns,
           HeardByCallers(k)'
    PROVE  Heard(k)
<1>a. k # 0 /\ 0 \in Callers /\ \A c \in Callers : c = 0 \/ c \in Turns
    BY CallersAre
<1>1. PICK c \in Callers : calls'[c].seen.active = k
    BY DEF HeardByCallers
<1>2. \/ calls'[c].seen = calls[c].seen
      \/ calls'[c].seen \in {NoSession, thread.session}
    <2>1. MoveCase(c) => \/ calls'[c].seen = calls[c].seen
                         \/ calls'[c].seen \in {NoSession, thread.session}
        BY IdleIs DEF MoveCase, Fails, SameData
    <2>2. CASE c = 0
        BY <2>1, <2>2, CallsCases, IdleIs DEF HandlerCase, SameData
    <2>3. CASE c \in Turns
        BY <2>1, <2>3, CallsCases, IdleIs DEF FiberCase
    <2> QED BY <1>a, <2>2, <2>3
<1>3. CASE calls'[c].seen = calls[c].seen
    BY <1>1, <1>3 DEF Heard, HeardByCallers
<1>4. CASE calls'[c].seen = thread.session
    BY <1>1, <1>4 DEF Heard, HeardByThread
<1> QED BY <1>a, <1>1, <1>2, <1>3, <1>4, IdleIs

\* What a report brings is new only for the turn that is reported as started.
LEMMA ReportsOf ==
    ASSUME NEW events \in Seq(RuntimeEvent), NEW turn \in 0..MaxRequests,
           NEW event \in RuntimeEvent, NEW k
    PROVE  /\ \A i \in 1..Len(events \o Completed(turn)) :
                (events \o Completed(turn))[i] = Event("turn.started", k) =>
                    \E j \in 1..Len(events) : events[j] = Event("turn.started", k)
           /\ \A i \in 1..Len(events \o <<event>>) :
                (events \o <<event>>)[i] = Event("turn.started", k) =>
                    \/ event = Event("turn.started", k)
                    \/ \E j \in 1..Len(events) : events[j] = Event("turn.started", k)
<1>1. ASSUME NEW one \in RuntimeEvent, NEW i \in 1..Len(events \o <<one>>)
      PROVE  \/ (events \o <<one>>)[i] = one
             \/ i \in 1..Len(events) /\ (events \o <<one>>)[i] = events[i]
    OBVIOUS
<1>2. Event("turn.completed", turn) \in RuntimeEvent
      /\ Event("turn.completed", turn) # Event("turn.started", k)
    BY EventTyped DEF Event
<1>3. Completed(turn) = <<>> \/ Completed(turn) = <<Event("turn.completed", turn)>>
    BY DEF Completed
<1>4. events \o <<>> = events
    OBVIOUS
<1> QED BY <1>1, <1>2, <1>3, <1>4

\* What each report appends.
LEMMA ReportCases ==
    ASSUME TypeOK, [Next]_vars
    PROVE  \/ UNCHANGED runtime
           \/ IngestReads
           \/ \E turn \in 0..MaxRequests : runtime' = runtime \o Completed(turn)
           \/ \E turn \in 0..MaxRequests : runtime' = runtime \o Completed(turn) \o Exited
           \/ runtime' = runtime \o Exited
           \/ runtime' = runtime \o <<Event("session.started", 0)>>
           \/ \E k \in Turns : Reports(k) /\ runtime' = runtime \o <<Event("turn.started", k)>>
           \/ runtime' = <<>>
<1>a. /\ adapter.turn \in 0..MaxRequests /\ \A o \in orphans : o.turn \in 0..MaxRequests
      /\ runtime \in Seq(RuntimeEvent)
    BY AdapterTyped DEF TypeOK
<1>1. Closes \/ Ends => runtime' = runtime \o Completed(adapter.turn)
    BY DEF Closes, Ends
<1>2. \A s \in Stoppers : Stops(s) => runtime' = runtime \o Exited
    BY DEF Stops
<1>3. \A c \in Callers : Comes(c) => runtime' = runtime \o <<Event("session.started", 0)>>
    BY ComesIs
<1>4. \A k \in Turns : Reports(k) => runtime' = runtime \o <<Event("turn.started", k)>>
    <2>1. ASSUME NEW k \in Turns, Reports(k)
          PROVE  runtime' = runtime \o <<Event("turn.started", k)>>
        <3>1. Event("turn.started", k) \in RuntimeEvent
            BY EventTyped DEF Turns
        <3> QED BY <1>a, <2>1, <3>1 DEF Reports, TurnStarted
    <2> QED BY <2>1
<1>5. SessionExits => runtime' = runtime \o Completed(adapter.turn) \o Exited
    BY DEF SessionExits
<1>6. OrphanTurnEnds => \E turn \in 0..MaxRequests : runtime' = runtime \o Completed(turn)
    BY <1>a DEF OrphanTurnEnds
<1>7. OrphanExits =>
        \E turn \in 0..MaxRequests : runtime' = runtime \o Completed(turn) \o Exited
    BY <1>a DEF OrphanExits
<1>8. Restart => runtime' = <<>>
    BY OtherFrames
<1>9. Quiet \/ GivesUp => UNCHANGED runtime
    BY DEF Quiet, GivesUp
<1> QED BY AdapterCases, <1>a, <1>1, <1>2, <1>3, <1>4, <1>5, <1>6, <1>7, <1>8, <1>9
        DEF AdapterCase, Lone

LEMMA ReportsHear ==
    ASSUME TypeOK, [Next]_vars, NEW k \in Turns, HeardByReports(k)'
    PROVE  HeardByReports(k) \/ Reports(k)
<1>a. runtime \in Seq(RuntimeEvent)
    BY DEF TypeOK
<1>b. /\ Event("session.exited", 0) \in RuntimeEvent
      /\ Event("session.started", 0) \in RuntimeEvent
      /\ Event("session.exited", 0) # Event("turn.started", k)
      /\ Event("session.started", 0) # Event("turn.started", k)
      /\ Exited = <<Event("session.exited", 0)>>
    BY Zero, EventTyped DEF Event, Exited
<1>h. PICK i \in 1..Len(runtime') : runtime'[i] = Event("turn.started", k)
    BY DEF HeardByReports
<1>1. CASE UNCHANGED runtime
    BY <1>h, <1>1 DEF HeardByReports
<1>2. CASE IngestReads
    <2>1. runtime # <<>> /\ runtime' = Tail(runtime)
        BY <1>2 DEF IngestReads
    <2>2. i + 1 \in 1..Len(runtime) /\ runtime'[i] = runtime[i + 1]
        BY <1>a, <1>h, <2>1
    <2> QED BY <1>h, <2>2 DEF HeardByReports
<1>3. ASSUME NEW turn \in 0..MaxRequests, runtime' = runtime \o Completed(turn)
      PROVE  HeardByReports(k)
    BY <1>3, <1>a, <1>b, <1>h, ReportsOf DEF HeardByReports
<1>4. ASSUME NEW turn \in 0..MaxRequests, NEW event \in RuntimeEvent,
             runtime' = runtime \o <<event>>
      PROVE  event = Event("turn.started", k) \/ HeardByReports(k)
    BY <1>4, <1>a, <1>h, ReportsOf DEF HeardByReports
<1>5. ASSUME NEW turn \in 0..MaxRequests, runtime' = runtime \o Completed(turn) \o Exited
      PROVE  HeardByReports(k)
    <2> DEFINE ended == runtime \o Completed(turn)
    <2>1. ended \in Seq(RuntimeEvent) /\ runtime' = ended \o <<Event("session.exited", 0)>>
        BY <1>5, <1>a, <1>b, CompletedTyped
    <2>2. (\E j \in 1..Len(ended) : ended[j] = Event("turn.started", k))
            => HeardByReports(k)
        BY <1>a, <1>b, ReportsOf DEF HeardByReports
    <2> HIDE DEF ended
    <2>3. \E j \in 1..Len(ended) : ended[j] = Event("turn.started", k)
        BY <1>b, <1>h, <2>1, Zero, ReportsOf
    <2> QED BY <2>2, <2>3
<1>6. ASSUME NEW j \in Turns, runtime' = runtime \o <<Event("turn.started", j)>>
      PROVE  j = k \/ HeardByReports(k)
    <2>1. Event("turn.started", j) \in RuntimeEvent
        BY EventTyped DEF Turns
    <2>2. Event("turn.started", j) = Event("turn.started", k) => j = k
        BY DEF Event
    <2> QED BY <1>4, <1>6, <2>1, <2>2, Zero
<1>7. runtime' # <<>>
    BY <1>h
<1> QED BY ReportCases, <1>b, <1>1, <1>2, <1>3, <1>4, <1>5, <1>6, <1>7, Zero


\* The session in the map after a step.
EntryCase ==
    \/ UNCHANGED adapter
    \/ Closes
    \/ Ends
    \/ /\ adapter' = NoEntry
       /\ GivesUp \/ SessionExits \/ OrphanExits \/ Restart \/ \E s \in Stoppers : Stops(s)
    \/ \E c \in Callers : Comes(c)
    \/ \E k \in Turns :
         /\ Reports(k) /\ Holds(k)
         /\ adapter'.at = adapter.at /\ adapter'.id = adapter.id
         /\ adapter'.mode = adapter.mode /\ adapter'.turn = k

LEMMA EntryCases ==
    ASSUME TypeOK, [Next]_vars
    PROVE  EntryCase
<1>1. ASSUME NEW k \in Turns, Reports(k) PROVE EntryCase
    <2>1. CASE Holds(k)
        <3>1. adapter' = [adapter EXCEPT !.turn = k] /\ adapter \in Entry
            BY <1>1, <2>1 DEF Reports, TurnStarted, TypeOK
        <3>2. /\ adapter'.at = adapter.at /\ adapter'.id = adapter.id
              /\ adapter'.mode = adapter.mode /\ adapter'.turn = k
            BY <3>1 DEF Entry
        <3> QED BY <1>1, <2>1, <3>2 DEF EntryCase
    <2>2. CASE ~Holds(k)
        BY <1>1, <2>2 DEF Reports, TurnStarted, EntryCase
    <2> QED BY <2>1, <2>2
<1>2. SessionExits \/ OrphanExits \/ Restart => adapter' = NoEntry
    BY DEF SessionExits, OrphanExits, Restart
<1>3. GivesUp \/ (\E s \in Stoppers : Stops(s)) => adapter' = NoEntry
    BY DEF GivesUp, Stops
<1>4. OrphanTurnEnds \/ IngestReads \/ Quiet => UNCHANGED adapter
    BY OtherFrames DEF Quiet
<1> QED BY AdapterCases, <1>1, <1>2, <1>3, <1>4 DEF AdapterCase, Lone, EntryCase

\* The sessions in no map after a step.
OrphanCase(o) ==
    \/ o \in orphans
    \/ /\ Live /\ o.id = adapter.id /\ o.turn = adapter.turn
       /\ (adapter' = NoEntry \/ \E c \in Callers : Comes(c))
    \/ \E p \in orphans : o.id = p.id /\ o.turn = 0
    \/ \E k \in Turns : /\ Reports(k) /\ o.turn = k /\ o.id = calls[k].id
                        /\ \E p \in orphans : o.id = p.id

LEMMA OrphanCases ==
    ASSUME TypeOK, [Next]_vars, NEW o \in orphans'
    PROVE  OrphanCase(o)
<1>a. \A p \in orphans : p \in [id : 0..MaxSessions, turn : 0..MaxRequests]
    BY DEF TypeOK
<1>b. ASSUME NEW p \in orphans, NEW turn
      PROVE  [p EXCEPT !.turn = turn].id = p.id /\ [p EXCEPT !.turn = turn].turn = turn
    BY <1>a
<1>1. ASSUME NEW others, others \subseteq orphans, orphans' = Strays(others),
             adapter' = NoEntry \/ \E c \in Callers : Comes(c)
      PROVE  OrphanCase(o)
    BY <1>1 DEF Strays, OrphanCase
<1>2. CASE UNCHANGED orphans
    BY <1>2 DEF OrphanCase
<1>3. ASSUME NEW c \in Callers, Comes(c) PROVE OrphanCase(o)
    BY <1>1, <1>3, ComesIs
<1>4. CASE GivesUp \/ \E s \in Stoppers : Stops(s)
    BY <1>1, <1>4 DEF GivesUp, Stops
<1>5. CASE OrphanTurnEnds
    <2>1. PICK p \in orphans : orphans' = (orphans \ {p}) \cup {[p EXCEPT !.turn = 0]}
        BY <1>5 DEF OrphanTurnEnds
    <2>2. o \in orphans \/ o = [p EXCEPT !.turn = 0]
        BY <2>1
    <2>3. [p EXCEPT !.turn = 0].id = p.id /\ [p EXCEPT !.turn = 0].turn = 0
        BY <1>b
    <2> QED BY <2>2, <2>3 DEF OrphanCase
<1>6. CASE OrphanExits
    <2>1. PICK p \in orphans : orphans' = Strays(orphans \ {p}) /\ adapter' = NoEntry
        BY <1>6 DEF OrphanExits
    <2> QED BY <1>1, <2>1
<1>7. ASSUME NEW k \in Turns, Reports(k) PROVE OrphanCase(o)
    <2>1. PICK p \in orphans : o = IF p.id = calls[k].id THEN [p EXCEPT !.turn = k] ELSE p
        BY <1>7 DEF Reports, TurnStarted
    <2> QED BY <1>7, <1>b, <2>1 DEF OrphanCase
<1>8. Restart => orphans' = {}
    BY OtherFrames
<1>9. IngestReads \/ Closes \/ Ends \/ SessionExits \/ Quiet => UNCHANGED orphans
    BY OtherFrames DEF Closes, Ends, Quiet
<1> QED BY AdapterCases, <1>2, <1>3, <1>4, <1>5, <1>6, <1>7, <1>8, <1>9
        DEF AdapterCase, Lone

LEMMA EntryTurns ==
    ASSUME TypeOK, [Next]_vars
    PROVE  \/ adapter'.turn = adapter.turn \/ adapter'.turn = 0
           \/ \E k \in Turns : Reports(k) /\ Holds(k) /\ adapter'.turn = k
    BY EntryCases, ComesIs, NoEntryIs DEF EntryCase, Closes, Ends

LEMMA ProviderHears ==
    ASSUME TypeOK, [Next]_vars, NEW k \in Turns, HeardByProvider(k)'
    PROVE  HeardByProvider(k) \/ Reports(k)
<1>a. k # 0
    BY CallersAre
<1>1. CASE adapter'.turn = k
    BY <1>1, <1>a, EntryTurns DEF HeardByProvider
<1>2. ASSUME NEW o \in orphans', o.turn = k PROVE HeardByProvider(k) \/ Reports(k)
    BY <1>2, <1>a, OrphanCases DEF OrphanCase, HeardByProvider
<1> QED BY <1>1, <1>2 DEF HeardByProvider

LEMMA UnseenStep ==
    ASSUME TypeOK, TurnsAreSentOnce, StopsAreAwaited, StartsAreAsked, UnsentIsUnseen,
           [Next]_vars
    PROVE  UnsentIsUnseen'
<1>1. ASSUME NEW k \in Turns, Unsent(k)', Heard(k)' PROVE FALSE
    <2>1. Unsent(k) /\ ~Heard(k)
        BY <1>1, UnsentStep, UnseenIs
    <2>2. ~Reports(k)
        BY <1>1, ReportedIsSent
    <2>3. /\ ~HeardByThread(k)' /\ ~HeardByIngestion(k)' /\ ~HeardByCallers(k)'
          /\ ~HeardByReports(k)' /\ ~HeardByProvider(k)'
        BY <2>1, <2>2, ThreadHears, IngestionHears, CallersHear, ReportsHear, ProviderHears
        DEF Heard
    <2> QED BY <1>1, <2>3 DEF Heard
<1> QED BY <1>1, UnseenIs

-----------------------------------------------------------------------------
(* Sessions, bindings and starts.                                          *)

\* A new session is nobody's.
LEMMA NewIsFree ==
    ASSUME TypeOK, NEW c \in Callers, Comes(c)
    PROVE  /\ adapter'.id # adapter.id
           /\ \A o \in orphans : adapter'.id # o.id
           /\ \A d \in Callers : adapter'.id # calls[d].id
    BY ComesIs DEF Free, InUse

\* The session a turn is reported on is no orphan, and nobody else runs it.
LEMMA ReportsOn ==
    ASSUME TypeOK, UnsentIsUnseen, TurnsNeedSessions, NEW k \in Turns, Reports(k)
    PROVE  /\ adapter.turn # k /\ \A o \in orphans : o.turn # k
           /\ Holds(k) => \A o \in orphans : o.id # calls[k].id
           /\ ~Holds(k) => UNCHANGED adapter
<1>1. Unsent(k)
    BY DEF Reports, Unsent
<1> QED BY <1>1 DEF UnsentIsUnseen, TurnsNeedSessions, Holds, Reports, TurnStarted

LEMMA NeedStep ==
    ASSUME TypeOK, UnsentIsUnseen, TurnsNeedSessions, [Next]_vars
    PROVE  TurnsNeedSessions'
<1>a. /\ calls \in [Callers -> Call] /\ 0 \in Callers
      /\ \A c \in Callers : calls[c].seen \in Session
    BY Zero DEF TypeOK, Call
<1>n. TurnsNeedSessions
    OBVIOUS
<1>1. Live' \/ adapter'.turn = 0
    BY EntryCases, ComesIs, NoEntryIs
    DEF EntryCase, Closes, Ends, Holds, Live, TurnsNeedSessions
<1>2. Live' => adapter'.id # 0
    BY EntryCases, ComesIs, NoEntryIs
    DEF EntryCase, Closes, Ends, Holds, Live, TurnsNeedSessions
<1>3. thread'.session.status # "live" => thread'.session.active = 0
    <2>1. ASSUME NEW session \in Session
          PROVE  /\ [session EXCEPT !.status = "stopped", !.active = 0].active = 0
                 /\ [session EXCEPT !.active = 0].active = 0
        BY DEF Session
    <2>2. CASE UNCHANGED thread.session
        BY <2>2 DEF TurnsNeedSessions
    <2>3. CASE thread'.session = [status |-> "live", mode |-> calls[0].mode, active |-> 0]
        BY <2>3
    <2>4. CASE thread'.session = [calls[0].seen EXCEPT !.status = "stopped", !.active = 0]
        BY <2>1, <2>4, <1>a
    <2>5. ASSUME NEW c \in Callers, thread'.session = [calls[c].seen EXCEPT !.active = 0]
          PROVE  thread'.session.active = 0
        BY <2>1, <2>5, <1>a
    <2>6. CASE thread'.session = Reported(ingestion.event, ingestion.seen)
        <3>1. ingestion.event \in RuntimeEvent /\ ingestion.seen \in Session
            BY DEF TypeOK
        <3> QED BY <2>6, <3>1 DEF Reported, RuntimeEvent, Session
    <2> QED BY ThreadCases, <2>2, <2>3, <2>4, <2>5, <2>6 DEF ThreadCase
<1>4. ASSUME NEW p \in orphans, Live' PROVE p.id # adapter'.id
    <2>1. (Live /\ adapter'.id = adapter.id) \/ \E c \in Callers : Comes(c)
        BY <1>4, EntryCases, NoEntryIs DEF EntryCase, Closes, Ends, Holds, Live
    <2> QED BY <1>n, <2>1, NewIsFree DEF TurnsNeedSessions
<1>5. ASSUME NEW o \in orphans'
      PROVE  (Live' => o.id # adapter'.id) /\ (o.turn # 0 => o.turn # adapter'.turn)
    <2>1. CASE o \in orphans
        BY <1>4, <1>n, <2>1, EntryTurns, ReportsOn DEF TurnsNeedSessions
    <2>2. CASE /\ Live /\ o.id = adapter.id /\ o.turn = adapter.turn
               /\ (adapter' = NoEntry \/ \E c \in Callers : Comes(c))
        BY <2>2, ComesIs, NewIsFree, NoEntryIs DEF Live
    <2>3. CASE \E p \in orphans : o.id = p.id /\ o.turn = 0
        BY <1>4, <2>3
    <2>4. ASSUME NEW k \in Turns, Reports(k), o.turn = k, o.id = calls[k].id,
                 NEW p \in orphans, o.id = p.id
          PROVE  (Live' => o.id # adapter'.id) /\ o.turn # adapter'.turn
        BY <1>4, <2>4, ReportsOn
    <2> QED BY <2>1, <2>2, <2>3, <2>4, OrphanCases DEF OrphanCase
<1> QED BY <1>1, <1>2, <1>3, <1>5 DEF TurnsNeedSessions

LEMMA BindingStep ==
    ASSUME TypeOK, TurnsAreSentOnce, StopsAreAwaited, BindingIsKnown, StartsAreAsked,
           [Next]_vars
    PROVE  BindingIsKnown'
<1>a. 0 \in Callers /\ \A k \in Turns : k \in Callers /\ k # 0
    BY CallersAre
<1>b. /\ binding.status # "none" => binding'.status # "none"
      /\ \A c \in Callers : Register(c) => binding'.status # "none"
    BY BindingCases
<1>1. calls'[0].at = "binding" => binding'.status # "none"
    BY <1>a, <1>b, CallsCases, IdleIs DEF HandlerCase, MoveCase, Fails, BindingIsKnown
<1>2. ASSUME NEW k \in Turns, calls'[k].at \in {"route", "registering"}
      PROVE  binding'.status # "none"
    <2>1. CASE UseSession
        <3>1. adapter.at # "none" /\ calls[0].at = "idle"
            BY <2>1, Taken DEF UseSession, SessionFits
        <3> QED BY <1>b, <3>1 DEF BindingIsKnown
    <2>2. CASE Bind
        <3>1. calls[0].at = "binding"
            BY <2>2 DEF Bind
        <3> QED BY <1>b, <3>1 DEF BindingIsKnown
    <2>3. CASE CallerStep(k) /\ MoveCase(k)
        <3>1. calls[k].at \in {"route", "registering"}
            <4>1. Comes(k) => calls[k].at = "route"
                BY <1>a, ComesIs DEF StartsAreAsked
            <4> QED BY <1>a, <1>2, <2>3, <4>1, IdleIs DEF MoveCase, Fails
        <3> QED BY <1>b, <3>1 DEF BindingIsKnown
    <2> QED BY <1>b, <1>2, <2>1, <2>2, <2>3, CallsCases, IdleIs DEF FiberCase, BindingIsKnown
<1>3. adapter'.at # "none" => binding'.status # "none" \/ calls'[0].at = "registering"
    <2>1. ASSUME NEW c \in Callers, Comes(c)
          PROVE  binding'.status # "none" \/ calls'[0].at = "registering"
        <3>1. CASE c # 0
            <4>1. c \in Turns
                BY <3>1, CallersAre
            <4>2. calls[c].at = "route"
                BY <2>1, <4>1, ComesIs DEF StartsAreAsked
            <4> QED BY <1>b, <4>1, <4>2 DEF BindingIsKnown
        <3> QED BY <2>1, <3>1, ComesIs
    <2>2. ASSUME calls[0].at = "registering", adapter'.at # "none"
          PROVE  binding'.status # "none" \/ calls'[0].at = "registering"
        <3>1. ~Restart
            BY <2>2, OtherFrames, NoEntryIs
        <3>2. ~StopFails("reactor")
            BY <2>2, AwaitedIs DEF StopFails
        <3> QED BY <1>a, <1>b, <2>1, <2>2, <3>1, <3>2, CallsCases
                DEF HandlerCase, MoveCase, ReadyToStart
    <2>3. adapter'.at # "none" => adapter.at # "none" \/ \E c \in Callers : Comes(c)
        BY EntryCases, NoEntryIs DEF EntryCase, Closes, Ends, Live
    <2> QED BY <1>b, <2>1, <2>2, <2>3 DEF BindingIsKnown
<1> QED BY <1>1, <1>2, <1>3 DEF BindingIsKnown

LEMMA AskedStep ==
    ASSUME TypeOK, TurnsAreSentOnce, StopsAreAwaited, StartsAreAsked, [Next]_vars
    PROVE  StartsAreAsked'
<1>a. 0 \in Callers /\ requests \in Seq(Request) /\ Len(requests) \in Nat
    BY Zero DEF TypeOK
<1>1. ASSUME NEW i \in 1..Len(requests'), requests'[i].type = "turn"
      PROVE  requests'[i].turn # 0
    <2>1. CASE UNCHANGED requests
        BY <1>1, <2>1 DEF StartsAreAsked
    <2>2. CASE DropRequest \/ UseSession \/ StartSession \/ HandleStop
        <3>1. i + 1 \in 1..Len(requests) /\ requests'[i] = requests[i + 1]
            BY <2>2, Taken, TakenRest
        <3> QED BY <1>1, <3>1 DEF StartsAreAsked
    <2>3. ASSUME NEW type, NEW turn, type = "turn" => turn # 0,
                 requests' = Append(requests, [type |-> type, turn |-> turn])
          PROVE  requests'[i].turn # 0
        <3>1. \/ i \in 1..Len(requests) /\ requests'[i] = requests[i]
              \/ requests'[i] = [type |-> type, turn |-> turn]
            BY <1>a, <2>3
        <3> QED BY <1>1, <2>3, <3>1 DEF StartsAreAsked
    <2>4. requests' # <<>>
        BY <1>1
    <2> QED BY <2>1, <2>2, <2>3, <2>4, RequestsCases
<1>2. ASSUME calls'[0].at \in Starts \cup {"binding"}
      PROVE  calls'[0].turn # 0 \/ calls'[0].seen.status = "live"
    <2>1. CASE /\ StartSession /\ calls'[0].turn = Head(requests).turn
               /\ calls'[0].seen = thread.session
        <3>1. /\ Takes({"turn", "mode"})
              /\ Head(requests).type = "mode" => thread.session.status = "live"
            BY <2>1 DEF StartSession
        <3>2. /\ 1 \in 1..Len(requests) /\ Head(requests) = requests[1]
              /\ requests[1].type \in {"turn", "mode"}
            BY <3>1, TakenRest
        <3> QED BY <2>1, <3>1, <3>2 DEF StartsAreAsked
    <2>2. CASE CallerStep(0) /\ MoveCase(0)
        BY <1>a, <1>2, <2>2, ComesIs, IdleIs
        DEF MoveCase, Fails, SameData, StartsAreAsked, Starts
    <2> QED BY <1>2, <2>1, <2>2, CallsCases, IdleIs
            DEF HandlerCase, SameData, StartsAreAsked, Starts
<1>3. calls'[0].at # "route"
    BY <1>a, CallsCases, IdleIs DEF HandlerCase, MoveCase, Fails, StartsAreAsked
<1>4. ASSUME NEW k \in Turns PROVE calls'[k].at \notin {"ensuring", "replacing"}
    <2>1. k \in Callers /\ k # 0
        BY CallersAre
    <2> QED BY <2>1, CallsCases, IdleIs DEF FiberCase, MoveCase, Fails, StartsAreAsked
<1> QED BY <1>1, <1>2, <1>3, <1>4 DEF StartsAreAsked

\* A session comes only with the start that is under way.
LEMMA LiveCases ==
    ASSUME TypeOK, [Next]_vars, Live'
    PROVE  \/ Live /\ adapter'.id = adapter.id /\ adapter'.mode = adapter.mode
           \/ \E c \in Callers : Comes(c)
    BY EntryCases, NoEntryIs DEF EntryCase, Closes, Ends, Live

\* Without a race a session comes up where there is none.
LEMMA ComesToNone ==
    ASSUME TypeOK, StartsAreAsked, StartsInTurn, "raced" \notin mishaps,
           NEW c \in Callers, Comes(c)
    PROVE  ~Live
    BY CallersAre DEF Comes, ReadyToStart, StartsAreAsked, StartsInTurn

\* Who is about to register a session has started it.
LEMMA Registering ==
    ASSUME TypeOK, TurnsAreSentOnce, StopsAreAwaited, [Next]_vars, NEW c \in Callers,
           calls'[c].at = "registering"
    PROVE  calls'[c] = calls[c] \/ Comes(c)
<1>1. MoveCase(c) => Comes(c)
    BY IdleIs DEF MoveCase, Fails
<1>2. CASE c = 0
    BY <1>1, <1>2, CallsCases, IdleIs DEF HandlerCase
<1>3. CASE c \in Turns
    BY <1>1, <1>3, CallsCases, IdleIs DEF FiberCase
<1> QED BY <1>2, <1>3, CallersAre

LEMMA InTurnStep ==
    ASSUME TypeOK, TurnsAreSentOnce, StopsAreAwaited, StartsAreAsked, StartsInTurn,
           [Next]_vars
    PROVE  StartsInTurn'
<1> SUFFICES ASSUME "raced" \notin mishaps'
             PROVE  /\ orphans' # {} => "evicted" \in mishaps'
                    /\ calls'[0].at = "replacing" => ~Live'
                    /\ \A c, d \in Callers :
                         c # d => ~(calls'[c].at = "registering" /\ calls'[d].at = "registering")
    BY DEF StartsInTurn
<1>a. "raced" \notin mishaps
    BY OnlyMore
<1>b. /\ orphans # {} => "evicted" \in mishaps
      /\ calls[0].at = "replacing" => ~Live
      /\ \A c, d \in Callers :
           c # d => ~(calls[c].at = "registering" /\ calls[d].at = "registering")
    BY <1>a DEF StartsInTurn
<1>1. ASSUME orphans' # {} PROVE "evicted" \in mishaps'
    <2>1. CASE orphans # {}
        BY <1>b, <2>1, OnlyMore
    <2>2. CASE orphans = {}
        <3>1. ASSUME ~Live PROVE orphans' # Strays(orphans)
            BY <1>1, <2>2, <3>1 DEF Strays
        <3>2. ~\E c \in Callers : Comes(c)
            BY <1>a, <3>1, ComesIs, ComesToNone
        <3>3. ~GivesUp
            BY <1>b, <3>1 DEF GivesUp, StartsAreAsked
        <3>4. \A s \in Stoppers : Stops(s) => "evicted" \in mishaps'
            BY <3>1 DEF Stops
        <3>5. ~OrphanTurnEnds /\ ~OrphanExits /\ ~Restart
            BY <1>1, <2>2 DEF OrphanTurnEnds, OrphanExits, Restart
        <3>6. \A k \in Turns : ~Reports(k)
            BY <1>1, <2>2 DEF Reports, TurnStarted
        <3>7. ~IngestReads /\ ~SessionExits /\ ~Closes /\ ~Ends /\ ~Quiet
            BY <1>1, <2>2, OtherFrames DEF Closes, Ends, Quiet
        <3> QED BY <3>2, <3>3, <3>4, <3>5, <3>6, <3>7, AdapterCases DEF AdapterCase, Lone
    <2> QED BY <2>1, <2>2
<1>2. ASSUME calls'[0].at = "replacing" PROVE ~Live'
    <2>1. CASE ReplaceSession
        BY <2>1, NoEntryIs DEF ReplaceSession, Close, Live
    <2>2. CASE calls'[0] = calls[0]
        <3>1. ASSUME NEW c \in Callers, Comes(c) PROVE FALSE
            <4>1. c # 0
                BY <1>2, <3>1, ComesIs
            <4> QED BY <1>2, <2>2, <3>1, <4>1, ComesIs, CallersAre DEF Starts
        <3> QED BY <1>2, <1>b, <2>2, <3>1, LiveCases
    <2>3. ~MoveCase(0)
        BY <1>2, IdleIs DEF MoveCase, Fails
    <2> QED BY <1>2, <2>1, <2>2, <2>3, CallsCases, IdleIs DEF HandlerCase
<1>3. ASSUME NEW c \in Callers, NEW d \in Callers, c # d,
             calls'[c].at = "registering", calls'[d].at = "registering"
      PROVE  FALSE
    <2>1. ASSUME NEW e \in Callers, NEW f \in Callers, e # f, Comes(e),
                 calls'[f].at = "registering"
          PROVE  FALSE
        BY <2>1, ComesIs DEF Others, Starts
    <2> QED BY <1>3, <1>b, <2>1, Registering
<1> QED BY <1>1, <1>2, <1>3

-----------------------------------------------------------------------------
(* Turns on their way.                                                     *)

LEMMA OnItsWay ==
    ASSUME TypeOK, TurnsAreSentOnce, StopsAreAwaited, [Next]_vars, NEW k \in Turns,
           calls'[k].at = "sending"
    PROVE  calls'[k] = calls[k] \/ Send(k)
    BY CallsCases, IdleIs DEF FiberCase, MoveCase, Fails

LEMMA SendsStep ==
    ASSUME TypeOK, TurnsAreSentOnce, StopsAreAwaited, SendsInTurn, [Next]_vars
    PROVE  SendsInTurn'
<1> SUFFICES ASSUME "crossed" \notin mishaps', NEW k \in Turns, calls'[k].at = "sending",
                    Holds(k)'
             PROVE  /\ adapter'.turn = 0
                    /\ \A j \in Turns \ {k} : calls'[j].at = "sending" => ~Holds(j)'
    BY DEF SendsInTurn
<1>a. "crossed" \notin mishaps
    BY OnlyMore
<1>b. ASSUME NEW j \in Turns, Send(j)
      PROVE  /\ Live /\ adapter'.turn = 0 /\ adapter'.id = adapter.id
             /\ \A i \in Turns \ {j} : /\ calls'[i] = calls[i]
                                       /\ calls[i].at = "sending" => calls[i].id # adapter.id
    <2>1. Live /\ adapter' = [adapter EXCEPT !.turn = 0] /\ Crossing(j)
          /\ calls' = [calls EXCEPT ![j] = Sends(j)]
        BY <1>b DEF Send, ReadyToSend
    <2>2. adapter'.turn = 0 /\ adapter'.id = adapter.id
        BY <2>1 DEF TypeOK, Entry
    <2>3. \A i \in Turns \ {j} : calls'[i] = calls[i]
        BY <2>1, CallersAre DEF TypeOK
    <2>4. \A i \in Turns \ {j} : calls[i].at = "sending" => calls[i].id # adapter.id
        BY <2>1 DEF Crossing
    <2> QED BY <2>1, <2>2, <2>3, <2>4
<1>1. CASE Send(k)
    <2>1. \A j \in Turns \ {k} : calls'[j].at = "sending" => ~Holds(j)'
        BY <1>1, <1>b DEF Holds
    <2> QED BY <1>1, <1>b, <2>1
<1>2. CASE calls'[k] = calls[k] /\ ~Send(k)
    <2>1. ASSUME NEW j \in Turns, calls'[j] = calls[j], Holds(j)'
          PROVE  Holds(j) /\ adapter'.id = adapter.id
        <3>1. k \in Callers /\ j \in Callers
            BY CallersAre
        <3>2. ~\E c \in Callers : Comes(c)
            BY <2>1, <3>1, NewIsFree DEF Holds
        <3> QED BY <2>1, <3>2, LiveCases DEF Holds
    <2>2. /\ calls[k].at = "sending" /\ adapter.turn = 0 /\ Holds(k)
          /\ \A j \in Turns \ {k} : calls[j].at = "sending" => ~Holds(j)
        BY <1>2, <1>a, <2>1 DEF SendsInTurn
    <2>3. ASSUME NEW j \in Turns, Reports(j), Holds(j) PROVE FALSE
        <3>1. calls[j].at = "sending"
            BY <2>3 DEF Reports
        <3>2. j # k
            <4>1. calls'[k].at # "sending" \/ j # k
                BY <2>3, ReportedIsSent DEF Unsent
            <4> QED BY <4>1
        <3> QED BY <2>2, <2>3, <3>1, <3>2
    <2>4. adapter'.turn = 0
        BY <2>2, <2>3, EntryTurns
    <2>5. ASSUME NEW j \in Turns \ {k}, calls'[j].at = "sending", Holds(j)' PROVE FALSE
        <3>1. CASE Send(j)
            BY <1>b, <2>2, <3>1 DEF Holds
        <3>2. CASE calls'[j] = calls[j]
            BY <2>1, <2>2, <2>5, <3>2
        <3> QED BY <2>5, <3>1, <3>2, OnItsWay
    <2> QED BY <2>4, <2>5
<1> QED BY <1>1, <1>2, OnItsWay

LEMMA SeenStep ==
    ASSUME TypeOK, TurnsAreSentOnce, StopsAreAwaited, StopsAreAwaited', UnsentIsUnseen,
           TurnsNeedSessions, SeenIsOver, [Next]_vars
    PROVE  SeenIsOver'
<1> DEFINE Over(at, stop) == \/ at \in {"replacing", "registering", "binding", "unbinding"}
                             \/ stop \in {"closing", "writing"}
<1> SUFFICES ASSUME Over(calls'[0].at, stops'["reactor"].at), calls'[0].seen.active # 0
             PROVE  calls'[0].seen.active # adapter'.turn
    BY DEF SeenIsOver
<1>a. 0 \in Callers /\ NoSession.active = 0
    BY CallersAre, IdleIs
<1>s. stops'["reactor"].at \in {"closing", "writing"} => calls'[0].at = "stopping"
    BY DEF StopsAreAwaited
\* What it saw was over, and stays so.
<1>1. ASSUME Over(calls[0].at, stops["reactor"].at), calls'[0].seen = calls[0].seen
      PROVE  calls'[0].seen.active # adapter'.turn
    <2>1. calls[0].seen.active # adapter.turn
        BY <1>1 DEF SeenIsOver
    <2>2. ASSUME NEW k \in Turns, Reports(k) PROVE calls[0].seen.active # k
        <3>1. Unsent(k)
            BY <2>2 DEF Reports, Unsent
        <3> QED BY <1>a, <3>1 DEF UnsentIsUnseen
    <2> QED BY <1>1, <2>1, <2>2, EntryTurns
<1>2. CASE calls'[0] = calls[0]
    <2>1. ASSUME stops'["reactor"].at \in {"closing", "writing"},
                 stops["reactor"].at \notin {"closing", "writing"}
          PROVE  adapter'.turn = 0
        BY <2>1, StopsCases DEF TurnsNeedSessions
    <2> QED BY <1>1, <1>2, <2>1
<1>3. CASE HandleStop /\ calls[0].at = "idle" /\ calls'[0].at = "stopping"
    <2>1. stops["reactor"].at = "idle"
        BY <1>3, AwaitedIs
    <2> QED BY <1>3, <2>1, StopsCases DEF StopBegins
<1>4. CASE calls'[0].at = "unbinding" /\ calls'[0].seen = thread.session
           /\ thread.session.status # "live"
    BY <1>4 DEF TurnsNeedSessions
<1>5. CASE ReplaceSession \/ Comes(0)
    <2>1. adapter'.turn = 0
        BY <1>5, <1>a, ComesIs, NoEntryIs DEF ReplaceSession, Close
    <2> QED BY <2>1
<1>6. CASE /\ StopRecorded("reactor") /\ stops["reactor"].at = "writing"
           /\ SameData(0)
    BY <1>1, <1>6 DEF SameData
<1>7. CASE Register(0) /\ calls[0].at = "registering" /\ SameData(0)
    BY <1>1, <1>7 DEF SameData
<1>8. calls'[0].at \notin {"idle", "ensuring", "clearing"}
    BY <1>s
<1>9. MoveCase(0) => \/ Comes(0)
                     \/ Register(0) /\ calls[0].at = "registering" /\ SameData(0)
    BY <1>8, IdleIs DEF MoveCase, Fails
<1> QED BY <1>2, <1>3, <1>4, <1>5, <1>6, <1>7, <1>8, <1>9, CallsCases, IdleIs DEF HandlerCase

-----------------------------------------------------------------------------
(* The turn the thread shows.                                              *)

\* The report at hand was read of the session there is, or its turn has been
\* forgotten since.
Reading ==
    ingestion.busy =>
        /\ ingestion.event.type = "turn.started" => ingestion.seen.active = 0
        /\ thread.session.active \in {0, ingestion.seen.active}

\* The turn the thread shows once the report at hand is written.
ShownAfter(turn) ==
    IF ingestion.busy
    THEN Follows(thread.session.active, ingestion.event, turn)
    ELSE turn = thread.session.active

InOrder == Reading /\ \E turn \in Active : ShownAfter(turn) /\ Leads(turn, runtime, adapter.turn)

Disorder == {"overwritten", "raced", "crossed", "unsent", "cleared", "restarted"}

LEMMA InOrderIs ==
    ASSUME TypeOK
    PROVE  TurnsInOrder <=> thread.deleted \/ mishaps \cap Disorder # {} \/ InOrder
<1>1. thread.session.active \in Active /\ ingestion.busy \in BOOLEAN
    BY DEF TypeOK, Session, Active
<1>2. CASE ingestion.busy
    BY <1>2, Zenon DEF TurnsInOrder, InOrder, Reading, ShownAfter, Active, Disorder
<1>3. CASE ~ingestion.busy
    BY <1>1, <1>3, Zenon DEF TurnsInOrder, InOrder, Reading, ShownAfter, Disorder
<1> QED BY <1>2, <1>3

\* The provider goes on, and says so.
LEMMA ReportsInOrder ==
    ASSUME TypeOK, TurnsNeedSessions, StartsAreAsked, StartsInTurn, SendsInTurn, [Next]_vars,
           mishaps' \cap Disorder = {}, ~IngestReads,
           NEW turn \in Active, Leads(turn, runtime, adapter.turn)
    PROVE  Leads(turn, runtime', adapter'.turn)
<1>a. /\ "raced" \notin mishaps /\ "crossed" \notin mishaps
      /\ "unsent" \notin mishaps' /\ ~Restart
    BY OnlyMore, OtherFrames DEF Disorder
<1>t. /\ adapter.turn \in Active /\ runtime \in Seq(RuntimeEvent) /\ 0 \in Active
      /\ \A o \in orphans : o.turn \in Active
    BY AdapterTyped, Zero DEF TypeOK, Active
<1>e. /\ Event("session.exited", 0) \in RuntimeEvent
      /\ \A a \in Active : Follows(a, Event("session.exited", 0), 0)
      /\ Event("session.started", 0) \in RuntimeEvent
      /\ Follows(0, Event("session.started", 0), 0)
      /\ Exited = <<Event("session.exited", 0)>>
    BY Zero, EventTyped DEF Follows, Event, Exited
<1>n. ~Live => adapter.turn = 0
    BY DEF TurnsNeedSessions
<1>0. NoEntry.turn = 0
    BY NoEntryIs
\* A turn of a session in no map ends.
<1>o. ASSUME NEW o \in orphans
      PROVE  /\ Leads(turn, runtime \o Completed(o.turn), adapter.turn)
             /\ runtime \o Completed(o.turn) \in Seq(RuntimeEvent)
    <2>1. CASE o.turn = 0
        <3>1. runtime \o Completed(o.turn) = runtime
            BY <1>t, <2>1 DEF Completed
        <3> QED BY <1>t, <3>1
    <2>2. CASE o.turn # 0
        <3>1. Event("turn.completed", o.turn) \in RuntimeEvent
            BY <1>t, EventTyped DEF Active
        <3>2. Follows(adapter.turn, Event("turn.completed", o.turn), adapter.turn)
            BY <2>2 DEF Follows, Event, TurnsNeedSessions
        <3>3. Completed(o.turn) = <<Event("turn.completed", o.turn)>>
            BY <2>2 DEF Completed
        <3>4. Leads(turn, runtime \o <<Event("turn.completed", o.turn)>>, adapter.turn)
            BY <1>t, <3>1, <3>2, LeadsOn
        <3>5. runtime \o <<Event("turn.completed", o.turn)>> \in Seq(RuntimeEvent)
            BY <1>t, <3>1
        <3> QED BY <3>3, <3>4, <3>5
    <2> QED BY <2>1, <2>2
<1>1. CASE Quiet
    BY <1>1 DEF Quiet
<1>2. CASE Closes \/ Ends
    BY <1>2, <1>t, LeadsToNone DEF Closes, Ends
<1>3. ASSUME NEW s \in Stoppers, Stops(s) PROVE Leads(turn, runtime', adapter'.turn)
    BY <1>0, <1>3, <1>e, <1>t, LeadsOn DEF Stops
<1>4. ASSUME NEW c \in Callers, Comes(c) PROVE Leads(turn, runtime', adapter'.turn)
    <2>1. adapter.turn = 0
        BY <1>4, <1>a, <1>n, ComesToNone
    <2> QED BY <1>4, <1>e, <1>t, <2>1, ComesIs, LeadsOn
<1>5. CASE GivesUp
    <2>1. ~Live
        BY <1>5, <1>a DEF GivesUp, StartsAreAsked, StartsInTurn
    <2> QED BY <1>0, <1>5, <1>n, <2>1 DEF GivesUp
<1>6. ASSUME NEW k \in Turns, Reports(k) PROVE Leads(turn, runtime', adapter'.turn)
    <2>1. /\ calls[k].at = "sending" /\ Holds(k)
          /\ adapter' = [adapter EXCEPT !.turn = k]
          /\ runtime' = Append(runtime, Event("turn.started", k))
        BY <1>6, <1>a DEF Reports, TurnStarted
    <2>2. adapter.turn = 0
        BY <1>a, <2>1 DEF SendsInTurn
    <2>3. /\ Follows(0, Event("turn.started", k), k) /\ k \in Active
          /\ Event("turn.started", k) \in RuntimeEvent
        BY EventTyped DEF Follows, Event, Turns, Active
    <2>4. adapter'.turn = k
        BY <2>1 DEF TypeOK, Entry
    <2>5. runtime' = runtime \o <<Event("turn.started", k)>>
        BY <1>t, <2>1, <2>3
    <2> QED BY <1>t, <2>2, <2>3, <2>4, <2>5, LeadsOn
<1>7. CASE SessionExits
    <2>1. adapter' = NoEntry /\ runtime' = runtime \o Completed(adapter.turn) \o Exited
        BY <1>7 DEF SessionExits
    <2> QED BY <1>0, <1>e, <1>t, <2>1, LeadsPast
<1>8. CASE OrphanTurnEnds
    <2>1. \E o \in orphans : runtime' = runtime \o Completed(o.turn) /\ UNCHANGED adapter
        BY <1>8 DEF OrphanTurnEnds
    <2> QED BY <1>o, <2>1
<1>9. CASE OrphanExits
    <2>1. PICK o \in orphans : /\ runtime' = runtime \o Completed(o.turn) \o Exited
                               /\ adapter' = NoEntry
        BY <1>9 DEF OrphanExits
    <2> QED BY <1>0, <1>e, <1>o, <1>t, <2>1, LeadsOn
<1> QED BY <1>a, <1>1, <1>2, <1>3, <1>4, <1>5, <1>6, <1>7, <1>8, <1>9, AdapterCases
        DEF AdapterCase, Lone

\* Who writes the thread leaves the provider alone.
LEMMA WritersAreQuiet ==
    /\ Bind \/ Unbind \/ (\E c \in Callers : Clear(c)) =>
         UNCHANGED <<adapter, orphans, runtime, ingestion>>
    /\ IngestWrites => UNCHANGED <<adapter, orphans, runtime>>
    /\ IngestReads => UNCHANGED <<thread, adapter, calls>>
<1>1. \A c \in Callers : Clear(c) => UNCHANGED ingestion
    BY CallerFrames DEF CallerStep
<1> QED BY <1>1, ReactorFrames, CallerFrames, OtherFrames

\* Whoever forgets the turn knows that it is over.
LEMMA ForgottenInOrder ==
    ASSUME TypeOK, InOrder, UNCHANGED <<adapter, runtime, ingestion>>,
           thread'.session.active = 0,
           thread.session.active = 0 \/ thread.session.active # adapter.turn
    PROVE  InOrder'
<1>t. /\ thread.session.active \in Active /\ runtime \in Seq(RuntimeEvent) /\ 0 \in Active
    BY Zero DEF TypeOK, Session, Active
<1>b. PICK turn \in Active : ShownAfter(turn) /\ Leads(turn, runtime, adapter.turn)
    BY DEF InOrder
<1>1. Reading'
    BY DEF InOrder, Reading
<1>2. ASSUME NEW next \in Active, ShownAfter(next)', Leads(next, runtime, adapter.turn)
      PROVE  InOrder'
    BY <1>1, <1>2 DEF InOrder
<1>3. CASE ~ingestion.busy
    <2>1. Leads(0, runtime, adapter.turn)
        BY <1>3, <1>b, <1>t, LeadsForgotten DEF ShownAfter
    <2> QED BY <1>2, <1>3, <1>t, <2>1 DEF ShownAfter
<1>4. CASE ingestion.busy
    <2>1. Follows(thread.session.active, ingestion.event, turn)
        BY <1>4, <1>b DEF ShownAfter
    <2>2. ASSUME turn = thread.session.active, Follows(0, ingestion.event, 0) PROVE InOrder'
        <3>1. Leads(0, runtime, adapter.turn)
            BY <1>b, <1>t, <2>2, LeadsForgotten
        <3> QED BY <1>2, <1>4, <1>t, <2>2, <3>1 DEF ShownAfter
    <2>3. ASSUME Follows(0, ingestion.event, turn) PROVE InOrder'
        BY <1>2, <1>4, <1>b, <2>3 DEF ShownAfter
    <2> QED BY <2>1, <2>2, <2>3 DEF Follows
<1> QED BY <1>3, <1>4

LEMMA InOrderStep ==
    ASSUME TypeOK, TypeOK', TurnsNeedSessions, StartsAreAsked, StartsInTurn, SendsInTurn,
           SeenIsOver, TurnsInOrder, [Next]_vars
    PROVE  TurnsInOrder'
<1>p. thread'.deleted \/ mishaps' \cap Disorder # {} \/ InOrder' => TurnsInOrder'
    <2>1. CASE ingestion'.busy
        BY <2>1, Zenon DEF TurnsInOrder, InOrder, Reading, ShownAfter, Active, Disorder
    <2>2. CASE ~ingestion'.busy
        BY <2>2, Zenon DEF TurnsInOrder, InOrder, Reading, ShownAfter, Disorder
    <2> QED BY <2>1, <2>2
<1> SUFFICES ASSUME ~thread'.deleted, mishaps' \cap Disorder = {} PROVE InOrder'
    BY <1>p
<1>a. /\ ~thread.deleted /\ mishaps \cap Disorder = {}
      /\ "overwritten" \notin mishaps' /\ "cleared" \notin mishaps' /\ ~Restart
    BY OnlyMore, OtherFrames DEF Disorder
<1>t. /\ thread.session.active \in Active /\ adapter.turn \in Active
      /\ runtime \in Seq(RuntimeEvent) /\ 0 \in Active
      /\ ingestion.event \in RuntimeEvent /\ thread.session \in Session
    BY Zero, AdapterTyped DEF TypeOK, Session, Active
<1>b. InOrder
    BY <1>a, InOrderIs
<1>c. PICK turn \in Active : ShownAfter(turn) /\ Leads(turn, runtime, adapter.turn)
    BY <1>b DEF InOrder
<1>1. CASE UNCHANGED <<thread.session, ingestion>> /\ ~IngestReads
    <2>1. ShownAfter(turn)' /\ Reading'
        BY <1>1, <1>b, <1>c DEF InOrder, ShownAfter, Reading
    <2>2. Leads(turn, runtime', adapter'.turn)
        BY <1>1, <1>c, ReportsInOrder
    <2> QED BY <2>1, <2>2 DEF InOrder
<1>2. CASE IngestReads
    <2>1. /\ ~ingestion.busy /\ runtime # <<>> /\ runtime' = Tail(runtime)
          /\ ingestion' = [busy |-> TRUE, event |-> Head(runtime), seen |-> thread.session]
          /\ UNCHANGED <<thread, adapter>>
        BY <1>2, <1>a, WritersAreQuiet DEF IngestReads
    <2>2. turn = thread.session.active
        BY <1>c, <2>1 DEF ShownAfter
    <2>3. PICK next \in Active : /\ Follows(turn, Head(runtime), next)
                                 /\ Leads(next, Tail(runtime), adapter.turn)
        BY <1>c, <1>t, <2>1, LeadsFrom
    <2>4. ShownAfter(next)'
        BY <2>1, <2>2, <2>3 DEF ShownAfter
    <2>5. Reading'
        BY <2>1, <2>2, <2>3 DEF Reading, Follows
    <2> QED BY <2>1, <2>3, <2>4, <2>5 DEF InOrder
<1>3. CASE IngestWrites
    <2>1. UNCHANGED <<adapter, runtime>> /\ ingestion.busy /\ ~ingestion'.busy
        BY <1>3, OtherFrames
    <2>2. Follows(thread.session.active, ingestion.event, turn) /\ Reading
        BY <1>b, <1>c, <2>1 DEF ShownAfter, InOrder
    <2>3. thread'.session.active = turn
        <3>1. CASE Applies(ingestion.event, ingestion.seen)
            <4>1. /\ thread.session = ingestion.seen
                  /\ thread' = [thread EXCEPT !.session =
                                  Reported(ingestion.event, ingestion.seen)]
                BY <1>3, <1>a, <3>1, WriterSaw DEF IngestWrites, SetSession
            <4>2. thread'.session = Reported(ingestion.event, thread.session)
                BY <4>1 DEF TypeOK
            <4>3. ingestion.event.type = "turn.completed" =>
                    thread.session.active \in {0, ingestion.event.turn}
                BY <3>1, <4>1 DEF Applies
            <4>4. Reported(ingestion.event, thread.session).active = turn
                BY <1>t, <2>2, <4>3 DEF Reported, Follows, Session
            <4> QED BY <4>2, <4>4
        <3>2. CASE ~Applies(ingestion.event, ingestion.seen)
            <4>1. UNCHANGED thread
                BY <1>3, <3>2 DEF IngestWrites
            <4>2. /\ ingestion.event.type = "turn.completed"
                  /\ ingestion.seen.active \notin {0, ingestion.event.turn}
                  /\ thread.session.active \in {0, ingestion.seen.active}
                BY <2>1, <2>2, <3>2 DEF Reading, Applies
            <4> QED BY <2>2, <4>1, <4>2 DEF Follows
        <3> QED BY <3>1, <3>2
    <2>4. ShownAfter(turn)' /\ Reading'
        BY <2>1, <2>3 DEF ShownAfter, Reading
    <2> QED BY <1>c, <2>1, <2>4 DEF InOrder
<1>4. ASSUME NEW c \in Callers, Clear(c), thread'.session.active = 0,
             thread.session = calls[c].seen
      PROVE  InOrder'
    <2>1. thread.session.active = 0 \/ thread.session.active # adapter.turn
        BY <1>4, <1>a DEF Clear
    <2> QED BY <1>4, <1>b, <2>1, WritersAreQuiet, ForgottenInOrder
<1>5. CASE /\ Bind \/ Unbind
           /\ thread'.session.active = 0 /\ thread.session = calls[0].seen
    <2>1. thread.session.active = 0 \/ thread.session.active # adapter.turn
        BY <1>5 DEF SeenIsOver, Bind, Unbind
    <2> QED BY <1>5, <1>b, <2>1, WritersAreQuiet, ForgottenInOrder
<1> QED BY <1>1, <1>2, <1>3, <1>4, <1>5, <1>a, SessionCases, IngestionCases DEF SessionCase

-----------------------------------------------------------------------------
(* The session the thread shows.                                           *)

LEMMA LastReport ==
    ASSUME NEW events \in Seq(RuntimeEvent), NEW event \in RuntimeEvent,
           runtime' = events \o <<event>>
    PROVE  runtime' # <<>> /\ (WillShowLive' <=> event.type # "session.exited")
<1>1. runtime' # <<>> /\ runtime'[Len(runtime')] = event
    OBVIOUS
<1> QED BY <1>1 DEF WillShowLive

LEMMA LastLeft ==
    ASSUME NEW events \in Seq(RuntimeEvent), events # <<>>, Len(events) # 1
    PROVE  Tail(events) # <<>> /\ Tail(events)[Len(Tail(events))] = events[Len(events)]
<1>1. /\ Len(events) \in Nat \ {0} /\ Len(Tail(events)) = Len(events) - 1
      /\ \A i \in 1..(Len(events) - 1) : Tail(events)[i] = events[i + 1]
    OBVIOUS
<1>2. Len(events) - 1 \in 1..(Len(events) - 1) /\ (Len(events) - 1) + 1 = Len(events)
    BY <1>1
<1>3. Tail(events) # <<>>
    <2>1. Len(Tail(events)) # 0 /\ Len(<<>>) = 0
        BY <1>1
    <2> QED BY <2>1
<1> QED BY <1>1, <1>2, <1>3

\* A turn about to recover its session does, or finds one.
LEMMA FibersGoOn ==
    ASSUME TypeOK, TurnsAreSentOnce, StopsAreAwaited, BindingIsKnown, [Next]_vars,
           "unstarted" \notin mishaps', ~Restart, NEW k \in Turns, calls[k].at = "route"
    PROVE  calls'[k].at = "route" \/ Live' \/ Comes(k)
<1>a. k \in Callers /\ k # 0 /\ binding.status # "none"
    BY CallersAre DEF BindingIsKnown
<1>1. Send(k) => Live'
    <2>1. Send(k) => Live /\ adapter' = [adapter EXCEPT !.turn = 0]
        BY DEF Send, ReadyToSend
    <2> QED BY <2>1 DEF Live, TypeOK, Entry
<1>2. ~StartFails(k)
    BY DEF StartFails
<1>3. CASE CallerStep(k) /\ MoveCase(k)
    BY <1>1, <1>2, <1>3, <1>a DEF MoveCase
<1> QED BY <1>3, CallsCases DEF FiberCase

\* Who is closing the session takes it out of the map.
LEMMA ClosingGoesOn ==
    ASSUME TypeOK, StopsAreAwaited, [Next]_vars, ~Restart, ~thread'.deleted,
           NEW s \in Stoppers, stops[s].at = "closing"
    PROVE  stops'[s].at = "closing" \/ Stops(s)
<1>a. stops \in [Stoppers -> Stop]
    BY DEF TypeOK
<1>1. CASE UNCHANGED stops
    BY <1>1
<1>2. ASSUME NEW r \in Stoppers, r # s, NEW stop,
             stops' = [stops EXCEPT ![r] = stop] \/ stops' = [stops EXCEPT ![r].at = stop]
      PROVE  stops'[s].at = "closing"
    BY <1>2, <1>a
<1>3. ASSUME NEW r \in Stoppers,
             StopFails(r) \/ StopBegins(r) \/ StopEnds(r) \/ StopRereads(r) \/ StopRecorded(r)
      PROVE  stops'[s].at = "closing" \/ Stops(s)
    <2>1. CASE r = s
        <3>1. StopEnds(s)
            BY <1>3, <2>1 DEF StopFails, StopBegins, StopRereads, StopRecorded
        <3> QED BY <3>1, StopFrames DEF Stops, StopEnds, Closed
    <2>2. CASE r # s
        BY <1>2, <1>3, <2>2 DEF StopFails, StopBegins, StopEnds, StopRereads, StopRecorded
    <2> QED BY <2>1, <2>2
<1>4. ASSUME NEW r \in Stoppers, stops[r].at = "idle" \/ r # s,
             stops' = [stops EXCEPT ![r].at = "due"]
      PROVE  stops'[s].at = "closing"
    BY <1>4, <1>2
<1>5. CASE Delete \/ ReaperChecks \/ HandleStop
    <2>1. HandleStop => \/ UNCHANGED stops
                        \/ stops' = [stops EXCEPT !["reactor"].at = "due"]
        BY DEF HandleStop
    <2>2. HandleStop => stops["reactor"].at = "idle"
        BY AwaitedIs DEF HandleStop, Takes
    <2>3. ReaperChecks => stops["reaper"].at = "idle"
        BY DEF ReaperChecks
    <2> QED BY <1>1, <1>4, <1>5, <2>1, <2>2, <2>3, StopperNames, ClientFrames, OtherFrames
<1>6. RequestTurn \/ RequestStop \/ SetMode => UNCHANGED stops
    BY ClientFrames
<1>7. UNCHANGED vars \/ DropRequest \/ UseSession \/ StartSession \/ ReplaceSession
        \/ Unbind \/ Bind => UNCHANGED stops
    BY ReactorFrames DEF DropRequest
<1>8. ASSUME NEW c \in Callers, CallerStep(c) PROVE UNCHANGED stops
    BY <1>8, CallerFrames
<1>9. IngestReads \/ IngestWrites \/ TurnEnds \/ OrphanTurnEnds \/ SessionExits
        \/ OrphanExits => UNCHANGED stops
    BY OtherFrames
<1> QED BY StepCases, <1>1, <1>3, <1>5, <1>6, <1>7, <1>8, <1>9

Untrue == {"overwritten", "hidden", "raced", "evicted", "unsent", "unstarted", "restarted"}

\* Where a session that is shown comes from, or what will end it.
Explained ==
    \/ Live
    \/ \E s \in Stoppers : stops[s].at = "closing"
    \/ \E k \in Turns : calls[k].at = "route"

StatusAgrees == (Live => WillShowLive) /\ (WillShowLive => Explained)

\* An ignored report leaves the thread as it is: live, or about to be told.
IgnoredIsHarmless ==
    ingestion.busy /\ ingestion.seen.active # 0 /\ Live =>
        thread.session.status = "live" \/ runtime # <<>>

Starting == {"ensuring", "replacing"}

LEMMA StatusIs ==
    /\ StatusFollows <=> \/ thread.deleted \/ mishaps \cap Untrue # {}
                         \/ IgnoredIsHarmless /\ (calls[0].at \in Starting \/ StatusAgrees)
    /\ \/ thread'.deleted \/ mishaps' \cap Untrue # {}
       \/ IgnoredIsHarmless' /\ (calls'[0].at \in Starting \/ StatusAgrees')
       => StatusFollows'
    BY Zenon DEF StatusFollows, Untrue, IgnoredIsHarmless, Starting, StatusAgrees, Explained

\* Nothing is read or reported in vain.
LEMMA HarmlessStep ==
    ASSUME TypeOK, TypeOK', TurnsNeedSessions, IgnoredIsHarmless, ~thread'.deleted,
           mishaps' \cap Untrue = {}, [Next]_vars
    PROVE  IgnoredIsHarmless'
<1>a. /\ "overwritten" \notin mishaps' /\ "hidden" \notin mishaps' /\ ~Restart
      /\ ~thread.deleted
    BY OnlyMore, OtherFrames DEF Untrue
<1>t. runtime \in Seq(RuntimeEvent) /\ ingestion.event \in RuntimeEvent
      /\ thread.session \in Session
    BY DEF TypeOK
<1> SUFFICES ASSUME ingestion'.busy, ingestion'.seen.active # 0, Live'
             PROVE  thread'.session.status = "live" \/ runtime' # <<>>
    BY DEF IgnoredIsHarmless
<1>1. CASE IngestReads
    <2>1. ingestion'.seen = thread.session /\ UNCHANGED thread
        BY <1>1, <1>a, OtherFrames DEF IngestReads
    <2> QED BY <2>1 DEF TurnsNeedSessions
<1>2. CASE UNCHANGED ingestion /\ ~IngestReads /\ ~IngestWrites
    <2>1. runtime # <<>> => runtime' # <<>>
        <3>1. ASSUME NEW more, more \in Seq(RuntimeEvent), runtime' = runtime \o more
              PROVE  runtime # <<>> => runtime' # <<>>
            BY <1>t, <3>1
        <3>2. ASSUME NEW more, more \in Seq(RuntimeEvent), NEW turn \in 0..MaxRequests,
                     runtime' = runtime \o Completed(turn) \o more
              PROVE  runtime # <<>> => runtime' # <<>>
            <4>1. Completed(turn) \in Seq(RuntimeEvent)
                BY CompletedTyped
            <4> QED BY <1>t, <3>2, <4>1
        <3>3. \A turn \in 0..MaxRequests : Completed(turn) \in Seq(RuntimeEvent)
            BY CompletedTyped
        <3>4. /\ Exited \in Seq(RuntimeEvent)
              /\ <<Event("session.started", 0)>> \in Seq(RuntimeEvent)
              /\ \A k \in Turns : <<Event("turn.started", k)>> \in Seq(RuntimeEvent)
            <4>1. /\ Event("session.started", 0) \in RuntimeEvent
                  /\ \A k \in Turns : Event("turn.started", k) \in RuntimeEvent
                BY Zero, EventTyped DEF Turns
            <4> QED BY <4>1, ExitedTyped
        <3>5. runtime' = <<>> => runtime = <<>> \/ Restart
            <4>1. AdapterCase
                BY AdapterCases
            <4>2. \A k \in Turns : Reports(k) => runtime' # <<>>
                BY <1>t DEF Reports, TurnStarted
            <4>3. \A c \in Callers : Comes(c) => runtime' # <<>>
                BY <1>t DEF Comes, SessionUp
            <4>4. \A s \in Stoppers : Stops(s) => runtime' # <<>>
                BY <1>t DEF Stops, Exited
            <4>5. SessionExits \/ OrphanExits => runtime' # <<>>
                <5>1. \A turn \in 0..MaxRequests :
                        /\ runtime \o Completed(turn) \in Seq(RuntimeEvent)
                        /\ (runtime \o Completed(turn)) \o Exited # <<>>
                    BY <1>t, <3>3 DEF Exited
                <5>2. /\ adapter.turn \in 0..MaxRequests
                      /\ \A o \in orphans : o.turn \in 0..MaxRequests
                    BY AdapterTyped DEF TypeOK
                <5> QED BY <5>1, <5>2 DEF SessionExits, OrphanExits
            <4>6. Closes \/ Ends \/ OrphanTurnEnds =>
                    \E turn \in 0..MaxRequests : runtime' = runtime \o Completed(turn)
                <5>1. /\ adapter.turn \in 0..MaxRequests
                      /\ \A o \in orphans : o.turn \in 0..MaxRequests
                    BY AdapterTyped DEF TypeOK
                <5> QED BY <5>1 DEF Closes, Ends, OrphanTurnEnds
            <4>7. Quiet \/ GivesUp => UNCHANGED runtime
                BY DEF Quiet, GivesUp
            <4> QED BY <1>2, <3>1, <3>3, <4>1, <4>2, <4>3, <4>4, <4>5, <4>6, <4>7
                    DEF AdapterCase, Lone
        <3> QED BY <1>a, <3>5
    <2>2. CASE ~Live
        <3>1. \E c \in Callers : Comes(c)
            BY <2>2, LiveCases
        <3>2. runtime' = Append(runtime, Event("session.started", 0))
            BY <3>1 DEF Comes, SessionUp
        <3> QED BY <1>t, <3>2
    <2>3. CASE Live
        <3>1. thread.session.status = "live" \/ runtime # <<>>
            BY <1>2, <2>3 DEF IgnoredIsHarmless
        <3>2. thread.session.status = "live" => thread'.session.status = "live"
            <4>1. ~Unbind
                BY <1>a, <2>3 DEF Unbind
            <4> QED BY <1>2, <1>a, <4>1, SessionCases DEF SessionCase
        <3> QED BY <2>1, <3>1, <3>2
    <2> QED BY <2>2, <2>3
<1>3. ~IngestWrites
    BY OtherFrames
<1> QED BY <1>1, <1>2, <1>3, <1>a, IngestionCases

LEMMA StatusStep ==
    ASSUME TypeOK, TypeOK', TurnsAreSentOnce, StopsAreAwaited, TurnsNeedSessions,
           BindingIsKnown, StartsAreAsked, StartsInTurn, StatusFollows, [Next]_vars
    PROVE  StatusFollows'
<1> SUFFICES ASSUME ~thread'.deleted, mishaps' \cap Untrue = {},
                    calls'[0].at \notin Starting
             PROVE  StatusAgrees'
    <2>1. ASSUME ~thread'.deleted, mishaps' \cap Untrue = {} PROVE IgnoredIsHarmless'
        <3>1. ~thread.deleted /\ mishaps \cap Untrue = {}
            BY <2>1, OnlyMore
        <3> QED BY <2>1, <3>1, StatusIs, HarmlessStep
    <2> QED BY <2>1, StatusIs
<1>a. /\ ~thread.deleted /\ mishaps \cap Untrue = {} /\ "overwritten" \notin mishaps'
      /\ "hidden" \notin mishaps' /\ "raced" \notin mishaps /\ "evicted" \notin mishaps'
      /\ "evicted" \notin mishaps /\ "unsent" \notin mishaps' /\ "unstarted" \notin mishaps'
      /\ ~Restart
    BY OnlyMore, OtherFrames DEF Untrue
<1>t. /\ runtime \in Seq(RuntimeEvent) /\ adapter.turn \in 0..MaxRequests
      /\ ingestion.event \in RuntimeEvent /\ thread.session \in Session
      /\ Completed(adapter.turn) \in Seq(RuntimeEvent)
      /\ runtime \o Completed(adapter.turn) \in Seq(RuntimeEvent)
      /\ Event("session.exited", 0) \in RuntimeEvent
      /\ Exited = <<Event("session.exited", 0)>>
      /\ Event("session.exited", 0).type = "session.exited"
    <2>1. /\ runtime \in Seq(RuntimeEvent)
          /\ ingestion.event \in RuntimeEvent /\ thread.session \in Session
        BY DEF TypeOK
    <2>2. adapter.turn \in 0..MaxRequests
        BY AdapterTyped
    <2>3. Completed(adapter.turn) \in Seq(RuntimeEvent)
        BY <2>2, CompletedTyped
    <2>4. runtime \o Completed(adapter.turn) \in Seq(RuntimeEvent)
        BY <2>1, <2>3
    <2>5. /\ Event("session.exited", 0) \in RuntimeEvent
          /\ Event("session.exited", 0).type = "session.exited"
        BY Zero, EventTyped DEF Event
    <2>6. Exited = <<Event("session.exited", 0)>>
        BY Zenon DEF Exited
    <2> QED BY <2>1, <2>2, <2>3, <2>4, <2>5, <2>6
<1>i. 0 \in Callers /\ NoEntry.at = "none"
    BY CallersAre, NoEntryIs
<1>h. IgnoredIsHarmless
    BY <1>a, StatusIs
<1>o. orphans = {}
    BY <1>a DEF StartsInTurn
\* A session comes up, and says so.
<1>1. CASE \E c \in Callers : Comes(c)
    <2>1. /\ runtime' = runtime \o <<Event("session.started", 0)>> /\ Live'
          /\ Event("session.started", 0) \in RuntimeEvent
        BY <1>1, ComesIs DEF Live
    <2>2. Event("session.started", 0).type # "session.exited"
        BY DEF Event
    <2>3. WillShowLive'
        BY <1>t, <2>1, <2>2, LastReport
    <2> QED BY <2>1, <2>3 DEF StatusAgrees, Explained
\* While none comes, what was so before the step still decides.
<1>2. ASSUME ~\E c \in Callers : Comes(c) PROVE StatusAgrees'
    <2>1. StatusAgrees
        <3>1. ~StartFails(0)
            BY <1>a DEF StartFails
        <3>2. calls[0].at \notin Starting
            BY <1>a, <1>i, <1>2, <3>1, CallsCases, AwaitedIs
            DEF HandlerCase, MoveCase, Starting, StopFails
        <3> QED BY <1>a, <3>2, StatusIs
    \* Who explains it goes on.
    <2>2. ASSUME Explained, \A s \in Stoppers : ~Stops(s), Live => Live' PROVE Explained'
        <3>1. ASSUME NEW s \in Stoppers, stops[s].at = "closing" PROVE stops'[s].at = "closing"
            BY <1>a, <2>2, <3>1, ClosingGoesOn
        <3>2. ASSUME NEW k \in Turns, calls[k].at = "route"
              PROVE  calls'[k].at = "route" \/ Live'
            <4>1. k \in Callers
                BY CallersAre
            <4> QED BY <1>a, <1>2, <3>2, <4>1, FibersGoOn
        <3> QED BY <2>2, <3>1, <3>2 DEF Explained
    <2>3. ASSUME UNCHANGED adapter, \A s \in Stoppers : ~Stops(s), WillShowLive' <=> WillShowLive
          PROVE  StatusAgrees'
        BY <2>1, <2>2, <2>3 DEF StatusAgrees, Live
    \* The provider goes on.
    <2>4. CASE UNCHANGED <<thread.session, ingestion>> /\ ~IngestReads
        <3>1. CASE Quiet
            <4>1. WillShowLive' <=> WillShowLive
                BY <2>4, <3>1 DEF Quiet, WillShowLive
            <4>2. \A s \in Stoppers : ~Stops(s)
                BY <1>t, <3>1 DEF Stops, Quiet
            <4> QED BY <2>3, <3>1, <4>1, <4>2 DEF Quiet
        <3>2. CASE Closes
            <4>1. ~ReplaceSession
                <5>1. ReplaceSession => calls'[0].at = "replacing"
                    <6>1. ReplaceSession => calls' = [calls EXCEPT ![0].at = "replacing"]
                        BY DEF ReplaceSession
                    <6> QED BY <1>i, <6>1, CallEdited
                <5> QED BY <5>1 DEF Starting
            <4> QED BY <3>2, <4>1 DEF Closes, StatusAgrees, Explained, Live
        <3>3. CASE Ends
            <4>1. Live /\ Live' /\ WillShowLive
                BY <2>1, <3>3 DEF Ends, TurnsNeedSessions, StatusAgrees, Live
            <4>2. CASE adapter.turn = 0
                <5>1. runtime' = runtime
                    BY <1>t, <3>3, <4>2 DEF Ends, Completed
                <5>2. WillShowLive'
                    BY <2>4, <4>1, <5>1 DEF WillShowLive
                <5> QED BY <4>1, <5>2 DEF StatusAgrees, Explained
            <4>3. CASE adapter.turn # 0
                <5>1. runtime' = runtime \o <<Event("turn.completed", adapter.turn)>>
                    BY <3>3, <4>3 DEF Ends, Completed
                <5>2. /\ Event("turn.completed", adapter.turn) \in RuntimeEvent
                      /\ Event("turn.completed", adapter.turn).type # "session.exited"
                    BY <1>t, EventTyped DEF Event
                <5>3. WillShowLive'
                    BY <1>t, <5>1, <5>2, LastReport
                <5> QED BY <4>1, <5>3 DEF StatusAgrees, Explained
            <4> QED BY <4>2, <4>3
        <3>4. ASSUME adapter' = NoEntry, NEW events \in Seq(RuntimeEvent),
                     runtime' = events \o Exited
              PROVE  StatusAgrees'
            <4>1. ~WillShowLive'
                BY <1>t, <3>4, LastReport
            <4> QED BY <1>i, <3>4, <4>1 DEF StatusAgrees, Live
        <3>5. ASSUME NEW s \in Stoppers, Stops(s) PROVE StatusAgrees'
            BY <1>t, <3>4, <3>5 DEF Stops
        <3>6. CASE SessionExits
            BY <1>t, <3>4, <3>6 DEF SessionExits
        <3>7. ASSUME NEW k \in Turns, Reports(k) PROVE StatusAgrees'
            <4>1. /\ Holds(k) /\ adapter' = [adapter EXCEPT !.turn = k]
                  /\ runtime' = Append(runtime, Event("turn.started", k))
                BY <1>a, <3>7 DEF Reports, TurnStarted
            <4>2. Live'
                BY <4>1 DEF Holds, Live, TypeOK, Entry
            <4>3. /\ Event("turn.started", k) \in RuntimeEvent
                  /\ Event("turn.started", k).type # "session.exited"
                BY EventTyped DEF Turns, Event
            <4>4. runtime' = runtime \o <<Event("turn.started", k)>>
                BY <1>t, <4>1, <4>3
            <4>5. WillShowLive'
                BY <1>t, <4>3, <4>4, LastReport
            <4> QED BY <4>2, <4>5 DEF StatusAgrees, Explained
        <3>8. ~GivesUp /\ ~OrphanTurnEnds /\ ~OrphanExits
            BY <1>a, <1>o DEF GivesUp, OrphanTurnEnds, OrphanExits
        <3> QED BY <1>2, <1>a, <2>4, <3>1, <3>2, <3>3, <3>5, <3>6, <3>7, <3>8, AdapterCases
                DEF AdapterCase, Lone
    <2>5. CASE IngestReads
        <3>1. /\ ~ingestion.busy /\ runtime # <<>> /\ runtime' = Tail(runtime)
              /\ ingestion' = [busy |-> TRUE, event |-> Head(runtime), seen |-> thread.session]
              /\ UNCHANGED <<thread, adapter, stops>>
            BY <1>a, <2>5, OtherFrames DEF IngestReads
        <3>2. WillShowLive' <=> WillShowLive
            <4>1. CASE Len(runtime) = 1
                <5>1. runtime' = <<>> /\ Head(runtime) = runtime[Len(runtime)]
                    BY <1>t, <3>1, <4>1
                <5> QED BY <3>1, <5>1 DEF WillShowLive
            <4>2. CASE Len(runtime) # 1
                <5>1. runtime' # <<>> /\ runtime'[Len(runtime')] = runtime[Len(runtime)]
                    BY <1>t, <3>1, <4>2, LastLeft
                <5> QED BY <3>1, <5>1 DEF WillShowLive
            <4> QED BY <4>1, <4>2
        <3>3. \A s \in Stoppers : ~Stops(s)
            <4>1. \A s \in Stoppers : Stops(s) => UNCHANGED ingestion
                BY DEF Stops
            <4> QED BY <3>1, <4>1
        <3> QED BY <2>3, <3>1, <3>2, <3>3
    \* The thread is written.
    <2>w. ASSUME UNCHANGED <<adapter, runtime>> PROVE \A s \in Stoppers : ~Stops(s)
        BY <1>t, <2>w DEF Stops
    <2>6. CASE IngestWrites
        <3>1. /\ UNCHANGED <<adapter, runtime, calls, stops>>
              /\ ingestion.busy /\ ~ingestion'.busy
            BY <2>6, OtherFrames
        <3>2. CASE Applies(ingestion.event, ingestion.seen)
            <4>1. /\ thread.session = ingestion.seen
                  /\ thread' = [thread EXCEPT !.session =
                                  Reported(ingestion.event, ingestion.seen)]
                BY <1>a, <2>6, <3>2, WriterSaw DEF IngestWrites, SetSession
            <4>2. thread'.session = Reported(ingestion.event, thread.session)
                BY <4>1 DEF TypeOK
            <4>3. Reported(ingestion.event, thread.session).status = "live"
                    <=> ingestion.event.type # "session.exited"
                BY <1>t DEF Reported, Session, RuntimeEvent
            <4>4. WillShowLive' <=> WillShowLive
                BY <3>1, <4>2, <4>3 DEF WillShowLive
            <4> QED BY <2>3, <2>w, <3>1, <4>4
        <3>3. CASE ~Applies(ingestion.event, ingestion.seen)
            <4>1. UNCHANGED thread
                BY <2>6, <3>3 DEF IngestWrites
            <4>2. ingestion.event.type # "session.exited" /\ ingestion.seen.active # 0
                BY <3>3 DEF Applies
            <4>3. WillShowLive' => WillShowLive
                BY <3>1, <4>1, <4>2 DEF WillShowLive
            <4>4. Live => WillShowLive'
                BY <1>h, <2>1, <3>1, <4>1, <4>2
                DEF WillShowLive, IgnoredIsHarmless, StatusAgrees
            <4> QED BY <2>1, <3>1, <4>3, <4>4 DEF StatusAgrees, Explained, Live
        <3> QED BY <3>2, <3>3
    <2>7. CASE (\E c \in Callers : Clear(c)) /\ thread'.session.status = thread.session.status
        <3>1. UNCHANGED <<adapter, runtime, ingestion>>
            BY <2>7, WritersAreQuiet
        <3>2. WillShowLive' <=> WillShowLive
            BY <2>7, <3>1 DEF WillShowLive
        <3> QED BY <2>3, <2>w, <3>1, <3>2
    <2>8. CASE Unbind /\ thread'.session.status = "stopped"
        <3>1. UNCHANGED <<adapter, runtime, ingestion>>
            BY <2>8, WritersAreQuiet
        <3>2. ~Live
            BY <1>a, <2>8 DEF Unbind
        <3>3. WillShowLive' => WillShowLive
            BY <2>8, <3>1 DEF WillShowLive
        <3> QED BY <2>1, <2>2, <2>w, <3>1, <3>2, <3>3 DEF StatusAgrees, Live
    <2>9. CASE /\ Bind /\ thread'.session.status = "live"
               /\ thread.session = calls[0].seen
        <3>1. UNCHANGED <<adapter, runtime, ingestion>>
            BY <2>9, WritersAreQuiet
        <3>2. WillShowLive => WillShowLive'
            BY <2>9, <3>1 DEF WillShowLive
        <3>3. CASE calls[0].turn = 0
            <4>1. calls[0].seen.status = "live"
                BY <2>9, <3>3 DEF Bind, StartsAreAsked
            <4>2. WillShowLive' <=> WillShowLive
                BY <2>9, <3>1, <4>1 DEF WillShowLive
            <4> QED BY <2>3, <2>w, <3>1, <4>2
        <3>4. CASE calls[0].turn # 0
            <4>1. PICK turn \in 0..MaxRequests : turn = calls[0].turn
                BY <1>i DEF TypeOK, Call
            <4> DEFINE handled == [calls EXCEPT ![0] = Idle]
            <4>2. calls' = Sending(handled, turn)
                BY <2>9, <4>1 DEF Bind
            <4> HIDE DEF handled
            <4>3. calls'[turn].at = "route" /\ turn \in Turns
                BY <3>4, <4>1, <4>2, CallSent DEF Turns
            <4>4. Explained'
                BY <4>3 DEF Explained
            <4> QED BY <2>1, <3>1, <3>2, <4>4 DEF StatusAgrees, Live
        <3> QED BY <3>3, <3>4
    <2> QED BY <1>a, <2>4, <2>5, <2>6, <2>7, <2>8, <2>9, SessionCases, IngestionCases
            DEF SessionCase
<1> QED BY <1>1, <1>2

-----------------------------------------------------------------------------
(* The mode.                                                               *)

\* A mode that is the thread's, or will be asked for, stays so until a change
\* of mode is taken from the queue.
LEMMA SettlingKept ==
    ASSUME TypeOK, [Next]_vars, NEW mode, ModeSettles(mode), ~Restart,
           DropRequest \/ UseSession \/ StartSession \/ HandleStop =>
               Head(requests).type # "mode"
    PROVE  ModeSettles(mode)'
<1>a. requests \in Seq(Request) /\ Len(requests) \in Nat
    BY DEF TypeOK
<1>1. ASSUME NEW i \in 1..Len(requests), requests[i].type = "mode"
      PROVE  \E j \in 1..Len(requests') : requests'[j].type = "mode"
    <2>1. CASE UNCHANGED requests
        BY <1>1, <2>1
    <2>2. CASE DropRequest \/ UseSession \/ StartSession \/ HandleStop
        <3>1. Takes({"turn", "stop", "mode"})
            BY <2>2, Taken
        <3>2. i # 1 /\ i - 1 \in 1..Len(requests') /\ requests'[i - 1] = requests[i]
            BY <1>1, <2>2, <3>1, TakenRest
        <3> QED BY <1>1, <3>2
    <2>3. ASSUME NEW request, requests' = Append(requests, request)
          PROVE  \E j \in 1..Len(requests') : requests'[j].type = "mode"
        <3>1. i \in 1..Len(requests') /\ requests'[i] = requests[i]
            BY <1>a, <2>3
        <3> QED BY <1>1, <3>1
    <2> QED BY <2>1, <2>2, <2>3, RequestsCases
<1>2. SetMode => \E j \in 1..Len(requests') : requests'[j].type = "mode"
    <2> SUFFICES ASSUME SetMode
                 PROVE  \E j \in 1..Len(requests') : requests'[j].type = "mode"
        OBVIOUS
    <2>1. requests' = Append(requests, [type |-> "mode", turn |-> 0])
        BY DEF SetMode
    <2>2. Len(requests) + 1 \in 1..Len(requests')
          /\ requests'[Len(requests) + 1].type = "mode"
        BY <1>a, <2>1
    <2> QED BY <2>2
<1>3. thread'.mode = thread.mode \/ SetMode
    BY ThreadCases
<1> QED BY <1>1, <1>2, <1>3 DEF ModeSettles

\* While the handler starts none, a turn's fiber does, from where it read the
\* binding.
LEMMA FiberComes ==
    ASSUME TypeOK, StartsAreAsked, [Next]_vars, calls[0].at \notin Starts,
           "reverted" \notin mishaps', NEW c \in Callers, Comes(c)
    PROVE  /\ c \in Turns /\ calls[c].at = "route" /\ calls[c].mode = binding.mode
           /\ calls'[c].mode = calls[c].mode /\ adapter'.mode = calls[c].mode
<1>1. calls[c].at \in {"replacing", "ensuring", "route"}
    BY ComesIs
<1>2. c \in Turns /\ c # 0
    BY <1>1, CallersAre DEF Starts, StartsAreAsked
<1> QED BY <1>1, <1>2, ComesIs DEF StartsAreAsked, SameData

\* One mode for the session, its binding and its recoveries stays theirs,
\* while the handler starts none.
LEMMA OneModeKept ==
    ASSUME TypeOK, TurnsAreSentOnce, StopsAreAwaited, StartsAreAsked, [Next]_vars,
           NEW mode, OneMode(mode), calls[0].at \notin Starts, "reverted" \notin mishaps'
    PROVE  OneMode(mode)'
<1>b. /\ binding.mode = mode /\ (Live => adapter.mode = mode)
      /\ \A k \in Turns : calls[k].at = "registering" => calls[k].mode = mode
    BY DEF OneMode
<1>1. binding'.mode = mode
    <2>1. ASSUME NEW c \in Callers, Register(c) PROVE calls[c].mode = mode
        BY <1>b, <2>1, CallersAre DEF Register, Starts
    <2> QED BY <1>b, <2>1, BindingCases
<1>2. Live' => adapter'.mode = mode
    BY <1>b, LiveCases, FiberComes
<1>3. ASSUME NEW k \in Turns, calls'[k].at = "registering" PROVE calls'[k].mode = mode
    <2>1. calls'[k] = calls[k] \/ Comes(k)
        BY <1>3, CallersAre, Registering
    <2> QED BY <1>3, <1>b, <2>1, CallersAre, FiberComes
<1> QED BY <1>1, <1>2, <1>3 DEF OneMode

\* Nothing to recover comes by itself.
LEMMA RecoverableKept ==
    ASSUME TypeOK, TurnsAreSentOnce, StopsAreAwaited, StartsAreAsked, [Next]_vars,
           calls[0].at \notin Starts \cup {"binding"}, "reverted" \notin mishaps',
           Recoverable'
    PROVE  Recoverable
<1>1. CASE adapter'.at # "none"
    <2>1. ASSUME NEW c \in Callers, Comes(c) PROVE Recoverable
        BY <2>1, FiberComes DEF Recoverable
    <2>2. Closes => adapter.at # "none"
        BY DEF Closes, Live
    <2>3. Ends => adapter'.at = adapter.at
        BY DEF Ends
    <2> QED BY <1>1, <2>1, <2>2, <2>3, EntryCases, NoEntryIs DEF EntryCase, Recoverable
<1>2. ASSUME NEW k \in Turns, calls'[k].at \in {"route", "registering"} PROVE Recoverable
    <2>1. UseSession => adapter.at # "none"
        BY DEF UseSession, SessionFits
    <2>2. ~Bind
        BY DEF Bind
    <2>3. CASE Comes(k)
        BY <2>3, CallersAre, FiberComes DEF Recoverable
    <2>4. CASE ~Comes(k) /\ MoveCase(k)
        <3>1. calls'[k].at = calls[k].at
            BY <1>2, <2>4, CallersAre, IdleIs DEF MoveCase, Fails
        <3> QED BY <1>2, <3>1 DEF Recoverable
    <2> QED BY <1>2, <2>1, <2>2, <2>3, <2>4, IdleIs, CallsCases DEF FiberCase, Recoverable
<1> QED BY <1>1, <1>2 DEF Recoverable

LEMMA ModesStep ==
    ASSUME TypeOK, TypeOK', TurnsAreSentOnce, StopsAreAwaited, BindingIsKnown,
           StartsAreAsked, StartsInTurn, ModesFollow, [Next]_vars
    PROVE  ModesFollow'
<1> DEFINE Flags == {"overwritten", "raced", "reverted", "unheard", "unstarted"}
           Coming == Starts \cup {"binding"}
           Begun(mode) ==
             /\ ModeSettles(mode)
             /\ calls[0].at \in {"registering", "binding"} /\ Live => adapter.mode = mode
             /\ calls[0].at = "binding" => OneMode(mode)
           Settled(mode) == Recoverable => ModeSettles(mode) /\ OneMode(mode)
<1> SUFFICES ASSUME ~thread'.deleted, mishaps' \cap Flags = {}
             PROVE  \/ calls'[0].at \in Coming /\ Begun(calls[0].mode)'
                    \/ calls'[0].at \notin Coming /\ Settled(thread.session.mode)'
    BY Zenon DEF ModesFollow
<1>a. /\ ~thread.deleted /\ mishaps \cap Flags = {} /\ "overwritten" \notin mishaps'
      /\ "unstarted" \notin mishaps' /\ "unheard" \notin mishaps'
      /\ "reverted" \notin mishaps' /\ "raced" \notin mishaps /\ "raced" \notin mishaps'
    BY OnlyMore
<1>i. 0 \in Callers /\ Idle.at = "idle"
    BY CallersAre, IdleIs
<1>f. ~StartFails(0)
    BY <1>a DEF StartFails
<1>r. Restart => ~Recoverable' /\ calls'[0].at \notin Coming
    BY <1>i, OtherFrames, NoEntryIs, CallersAre DEF Recoverable, Starts
<1>1. CASE Restart
    BY <1>1, <1>r
\* The handler is starting a session.
<1>2. CASE calls[0].at \in Coming /\ ~Restart
    <2>1. PICK mode : mode = calls[0].mode
        OBVIOUS
    <2>2. /\ ModeSettles(mode)
          /\ calls[0].at \in {"registering", "binding"} /\ Live => adapter.mode = mode
          /\ calls[0].at = "binding" => OneMode(mode)
        BY <1>2, <1>a, <2>1 DEF ModesFollow
    <2>3. ModeSettles(mode)'
        <3>1. ~(DropRequest \/ UseSession \/ StartSession \/ HandleStop)
            BY <1>2, Taken DEF Starts
        <3> QED BY <1>2, <2>2, <3>1, SettlingKept
    <2>4. CASE calls'[0].at \in {"ensuring", "replacing"} /\ calls'[0].mode = mode
        <3>1. Begun(mode)'
            BY <2>3, <2>4
        <3> QED BY <2>4, <3>1 DEF Starts
    <2>5. CASE calls'[0] = calls[0] /\ calls[0].at = "registering"
        <3>1. ASSUME NEW c \in Callers, Comes(c) PROVE FALSE
            <4>1. c # 0
                BY <2>5, <3>1, ComesIs
            <4> QED BY <1>a, <1>i, <2>5, <3>1, <4>1, ComesIs DEF Starts
        <3>2. Live' => adapter'.mode = mode
            BY <2>2, <2>5, <3>1, LiveCases
        <3>3. Begun(mode)'
            BY <2>3, <2>5, <3>2
        <3> QED BY <2>1, <2>5, <3>3 DEF Starts
    <2>6. CASE calls'[0] = calls[0] /\ calls[0].at = "binding"
        <3>1. OneMode(mode)'
            BY <1>a, <2>2, <2>6, OneModeKept DEF Starts
        <3>2. Begun(mode)'
            BY <2>3, <3>1 DEF OneMode
        <3> QED BY <2>1, <2>6, <3>2
    <2>7. CASE Comes(0)
        <3>1. /\ adapter'.mode = mode /\ calls'[0].at = "registering"
              /\ calls'[0].mode = mode
            BY <1>i, <2>1, <2>7, ComesIs DEF SameData
        <3>2. Begun(mode)'
            BY <2>3, <3>1
        <3> QED BY <3>1, <3>2 DEF Starts
    <2>8. CASE Register(0)
        <3>1. /\ calls'[0].at = "binding" /\ calls'[0].mode = mode /\ Others(0)
              /\ calls[0].at = "registering"
            <4>1. calls' = [calls EXCEPT ![0].at = "binding"] /\ calls[0].at = "registering"
                BY <2>8 DEF Register
            <4> QED BY <1>i, <2>1, <4>1, CallEdited DEF Others
        <3>2. binding'.mode = mode /\ UNCHANGED adapter
            BY <2>1, <2>8 DEF Register, UpsertRunning, provider
        <3>3. ASSUME NEW k \in Turns PROVE calls'[k].at # "registering"
            <4>1. calls'[k] = calls[k] /\ calls[k].at # "registering"
                BY <1>a, <1>i, <3>1, CallersAre DEF StartsInTurn, Others
            <4> QED BY <4>1
        <3>4. OneMode(mode)'
            BY <2>2, <3>1, <3>2, <3>3 DEF OneMode, Live
        <3>5. Begun(mode)'
            BY <2>3, <3>4 DEF OneMode
        <3> QED BY <3>1, <3>5
    <2>9. CASE Bind /\ calls[0].at = "binding" /\ calls'[0] = Idle
        <3>1. OneMode(mode)'
            BY <1>a, <2>2, <2>9, OneModeKept DEF Starts
        <3>2. thread'.session.mode = mode
            <4>1. thread' = [thread EXCEPT !.session =
                               [status |-> "live", mode |-> mode, active |-> 0]]
                BY <2>1, <2>9 DEF Bind, SetSession
            <4> QED BY <4>1 DEF TypeOK
        <3>3. Settled(mode)'
            BY <2>3, <3>1
        <3> QED BY <1>i, <2>9, <3>2, <3>3 DEF Starts
    <2>10. CASE MoveCase(0)
        <3>1. Comes(0) \/ Register(0)
            BY <1>2, <1>f, <1>i, <2>10 DEF MoveCase, Starts
        <3> QED BY <2>7, <2>8, <3>1
    <2>11. CASE ReplaceSession /\ calls'[0].at = "replacing" /\ SameData(0)
        BY <2>1, <2>4, <2>11 DEF SameData
    <2>12. ~StopFails("reactor") \/ calls[0].at = "stopping"
        BY StopperNames DEF StopFails, StopsAreAwaited
    <2> QED BY <1>2, <1>i, <2>1, <2>4, <2>5, <2>6, <2>9, <2>10, <2>11, <2>12, CallsCases
            DEF HandlerCase, Starts
\* It starts one now, in the thread's mode.
<1>3. CASE calls[0].at \notin Coming /\ calls'[0].at \in Coming /\ ~Restart
    <2>1. StartSession /\ calls'[0].at = "ensuring" /\ calls'[0].mode = thread.mode
        <3>1. MoveCase(0) => FALSE
            <4>1. ~Comes(0)
                BY <1>3, <1>i, ComesIs DEF Starts, StartsAreAsked
            <4> QED BY <1>3, <1>i, <4>1 DEF MoveCase, Fails, Starts
        <3> QED BY <1>3, <1>i, <3>1, CallsCases DEF HandlerCase, Starts
    <2>2. UNCHANGED thread
        BY <2>1, Taken
    <2>3. ModeSettles(calls[0].mode)'
        BY <2>1, <2>2 DEF ModeSettles
    <2> QED BY <1>3, <2>1, <2>3
\* It starts none.
<1>4. CASE calls[0].at \notin Coming /\ calls'[0].at \notin Coming /\ ~Restart
    <2> SUFFICES ASSUME Recoverable'
                 PROVE  (ModeSettles(thread.session.mode) /\ OneMode(thread.session.mode))'
        BY <1>4
    <2>1. Recoverable
        BY <1>4, <1>a, RecoverableKept
    <2>2. PICK mode : mode = thread.session.mode /\ ModeSettles(mode) /\ OneMode(mode)
        BY <1>4, <1>a, <2>1 DEF ModesFollow
    <2>3. thread'.session.mode = mode
        <3>1. ~Bind
            BY <1>4 DEF Bind
        <3>2. Reported(ingestion.event, thread.session).mode = thread.session.mode
            <4>1. thread.session \in Session /\ ingestion.event \in RuntimeEvent
                BY DEF TypeOK
            <4> QED BY <4>1 DEF Reported, Session, RuntimeEvent
        <3> QED BY <1>a, <2>2, <3>1, <3>2, SessionCases DEF SessionCase
    <2>4. OneMode(mode)'
        BY <1>4, <1>a, <2>2, OneModeKept
    <2>5. ModeSettles(mode)'
        <3>1. CASE DropRequest /\ Head(requests).type = "mode"
            <4>1. binding.status = "none"
                BY <1>a, <3>1 DEF DropRequest
            <4> QED BY <1>4, <2>1, <4>1 DEF BindingIsKnown, Recoverable, Starts
        <3>2. CASE UseSession
            <4>1. thread.mode = mode /\ UNCHANGED thread
                BY <2>2, <3>2, Taken DEF UseSession, SessionFits
            <4> QED BY <4>1 DEF ModeSettles
        <3>3. ~StartSession
            <4>1. StartSession => calls'[0].at = "ensuring"
                <5> DEFINE starting == [Idle EXCEPT !.at = "ensuring", !.mode = thread.mode,
                                          !.turn = Head(requests).turn,
                                          !.seen = thread.session]
                <5>1. starting.at = "ensuring"
                    BY DEF Idle
                <5>2. StartSession => calls' = [calls EXCEPT ![0] = starting]
                    BY DEF StartSession
                <5> HIDE DEF starting
                <5> QED BY <1>i, <5>1, <5>2, CallReplaced
            <4> QED BY <1>4, <4>1 DEF Starts
        <3>4. HandleStop => Head(requests).type # "mode"
            BY Taken DEF Takes
        <3> QED BY <1>4, <2>2, <3>1, <3>2, <3>3, <3>4, SettlingKept
    <2> QED BY <2>3, <2>4, <2>5 DEF ModeSettles, OneMode
<1> QED BY <1>1, <1>2, <1>3, <1>4
-----------------------------------------------------------------------------

LEMMA InitIs ==
    ASSUME Init
    PROVE  /\ TypeOK /\ ~thread.deleted
           /\ thread.mode = "full-access" /\ thread.session.mode = "full-access"
           /\ thread.session.active = 0 /\ adapter.turn = 0
           /\ binding.mode = "full-access" /\ adapter.mode = "full-access"
           /\ thread.session.status = "live" <=> Live
           /\ Live => binding.status = "running" /\ adapter.id = 1
           /\ adapter.at \in {"none", "live"}
           /\ orphans = {} /\ runtime = <<>> /\ requests = <<>> /\ ingestion = AtRest
           /\ \A c \in Callers : calls[c] = Idle
           /\ \A s \in Stoppers : stops[s] = NoStop
           /\ asked = 0
<1>1. PICK live \in {FALSE} \cup {MaxSessions > 0} :
        /\ thread = [deleted |-> FALSE, mode |-> "full-access",
                     session |-> IF live THEN [NoSession EXCEPT !.status = "live"]
                                         ELSE NoSession]
        /\ binding = [status |-> IF live THEN "running" ELSE "none", mode |-> "full-access"]
        /\ adapter = IF live THEN [NoEntry EXCEPT !.at = "live", !.id = 1] ELSE NoEntry
    BY DEF Init
<1>2. /\ NoSession \in Session /\ [NoSession EXCEPT !.status = "live"] \in Session
      /\ NoSession.status = "none" /\ NoSession.active = 0 /\ NoSession.mode = "full-access"
    BY NoSessionTyped DEF NoSession, Session
<1>0. live \in BOOLEAN /\ (live => MaxSessions > 0)
    <2>1. (MaxSessions > 0) \in BOOLEAN
        OBVIOUS
    <2>2. live = FALSE \/ live = (MaxSessions > 0)
        BY <1>1
    <2> QED BY <2>1, <2>2, Zenon
<1>3. live => 1 \in 0..MaxSessions
    BY <1>0
<1>4. /\ NoEntry \in Entry /\ NoEntry.mode = "full-access"
      /\ live => [NoEntry EXCEPT !.at = "live", !.id = 1] \in Entry
    BY <1>3, NoEntryTyped DEF Entry, NoEntry
<1>5. live \in BOOLEAN
    BY <1>0
<1>6. /\ thread = [deleted |-> FALSE, mode |-> "full-access", session |-> thread.session]
      /\ thread.session \in Session /\ thread.session.active = 0
      /\ thread.session.mode = "full-access"
      /\ thread.session.status = "live" <=> live
    BY <1>1, <1>2, <1>5 DEF NoSession
<1>7. /\ adapter \in Entry /\ adapter.turn = 0 /\ adapter.mode = "full-access"
      /\ Live <=> live
      /\ live => adapter.id = 1
      /\ adapter.at \in {"none", "live"}
    BY <1>1, <1>4, <1>5, NoEntryIs DEF Live, Entry
<1>8. ThreadOK /\ BindingOK /\ AdapterOK
    BY <1>1, <1>5, <1>6, <1>7 DEF ThreadOK, BindingOK, AdapterOK, Mode
<1>9. /\ OrphansOK /\ RuntimeOK /\ RequestsOK
      /\ AskedOK /\ FaultsOK /\ SweepsOK /\ MishapsOK
    BY DEF Init, OrphansOK, RuntimeOK, RequestsOK, AskedOK, FaultsOK, SweepsOK, MishapsOK
<1>10. CallsOK /\ StopsOK /\ IngestionOK
    BY IdleTyped, NoStopTyped, AtRestTyped DEF Init, CallsOK, StopsOK, IngestionOK
<1>11. TypeOK
    BY <1>8, <1>9, <1>10, Parts
<1> QED BY <1>1, <1>5, <1>6, <1>7, <1>11 DEF Init

LEMMA InvInit == Init => SessionsInv
<1> SUFFICES ASSUME Init PROVE SessionsInv
    OBVIOUS
<1>1. TurnsAreSentOnce
    <2>1. requests = <<>> /\ asked = 0 /\ \A c \in Callers : calls[c] = Idle
        BY InitIs
    <2>2. calls[0].turn = 0 /\ \A k \in Turns : calls[k].at = "idle"
        BY <2>1, Zero DEF Idle, Turns, Callers
    <2> QED BY <2>1, <2>2 DEF TurnsAreSentOnce
<1>2. StopsAreAwaited
    BY InitIs, StopperNames DEF StopsAreAwaited, NoStop
<1>3. LiveIsTracked
    BY InitIs DEF LiveIsTracked
<1> QED BY <1>1, <1>2, <1>3, InitIs DEF SessionsInv

LEMMA InvStep == SessionsInv /\ [Next]_vars => SessionsInv'
    BY TypeStep, SentOnceStep, AwaitedStep, TrackedStep DEF SessionsInv

\* The inductive invariant: types, each turn sent by one fiber, the reactor
\* at the stop it asked for, and a live session listed, hidden or about to be
\* registered.
THEOREM SessionsInvariant == Spec => []SessionsInv
    BY InvInit, InvStep, PTL DEF Spec

\* The four records of the session stay well typed.
THEOREM TypeCorrect == Spec => []TypeOK
<1>1. SessionsInv => TypeOK
    BY DEF SessionsInv
<1> QED BY <1>1, SessionsInvariant, PTL

\* Once everybody is idle a live session is listed as running, unless a stop
\* was recorded after a new start, for any number of requests and faults.
THEOREM LiveSessionsAreListed == Spec => []LiveIsListed
<1>1. SessionsInv => LiveIsListed
    BY DEF SessionsInv, LiveIsTracked, LiveIsListed, AllIdle, Idle
<1> QED BY <1>1, SessionsInvariant, PTL

-----------------------------------------------------------------------------
(* The records agree.                                                      *)

LEMMA RecordsInit == Init => RecordsInv
<1> SUFFICES ASSUME Init PROVE RecordsInv
    OBVIOUS
<1>1. /\ 0 \in Active /\ Len(<<>>) = 0 /\ ~AtRest.busy
      /\ \A c \in Callers : calls[c].at = "idle" /\ calls[c].seen.active = 0
      /\ \A s \in Stoppers : stops[s].at = "idle"
    BY Zero, InitIs, IdleIs DEF Active, NoStop
<1>2. UnsentIsUnseen
    <2>1. \A k \in Turns : AtRest.event # Event("turn.started", k)
        BY IdleIs DEF Event
    <2> QED BY <1>1, <2>1, InitIs, IdleIs, CallersAre DEF UnsentIsUnseen
<1>3. TurnsNeedSessions /\ BindingIsKnown
    BY <1>1, InitIs, CallersAre DEF TurnsNeedSessions, BindingIsKnown, Live
<1>4. StartsAreAsked /\ StartsInTurn
    BY <1>1, InitIs, CallersAre DEF StartsAreAsked, StartsInTurn, Starts
<1>5. SendsInTurn /\ SeenIsOver
    BY <1>1, InitIs, CallersAre, StopperNames DEF SendsInTurn, SeenIsOver
<1>6. TurnsInOrder
    BY <1>1, InitIs, LeadsNowhere DEF TurnsInOrder
<1>7. StatusFollows
    BY <1>1, InitIs, CallersAre DEF StatusFollows, WillShowLive
<1>8. ModesFollow
    BY <1>1, InitIs, CallersAre DEF ModesFollow, ModeSettles, OneMode, Starts
<1> QED BY Zenon, <1>2, <1>3, <1>4, <1>5, <1>6, <1>7, <1>8 DEF RecordsInv

LEMMA RecordsStep ==
    ASSUME SessionsInv, SessionsInv', RecordsInv, [Next]_vars
    PROVE  RecordsInv'
<1>1. TypeOK /\ TypeOK' /\ TurnsAreSentOnce /\ StopsAreAwaited /\ StopsAreAwaited'
    BY DEF SessionsInv
<1>2. /\ UnsentIsUnseen /\ TurnsNeedSessions /\ BindingIsKnown /\ StartsAreAsked
      /\ StartsInTurn /\ SendsInTurn /\ SeenIsOver
      /\ TurnsInOrder /\ StatusFollows /\ ModesFollow
    BY DEF RecordsInv
<1>3. UnsentIsUnseen'
    BY <1>1, <1>2, UnseenStep
<1>4. TurnsNeedSessions'
    BY <1>1, <1>2, NeedStep
<1>5. BindingIsKnown' /\ StartsAreAsked'
    BY <1>1, <1>2, BindingStep, AskedStep
<1>6. StartsInTurn' /\ SendsInTurn'
    BY <1>1, <1>2, InTurnStep, SendsStep
<1>7. SeenIsOver'
    BY <1>1, <1>2, SeenStep
<1>8. TurnsInOrder'
    BY <1>1, <1>2, InOrderStep
<1>9. StatusFollows'
    BY <1>1, <1>2, StatusStep
<1>10. ModesFollow'
    BY <1>1, <1>2, ModesStep
<1> QED BY Zenon, <1>3, <1>4, <1>5, <1>6, <1>7, <1>8, <1>9, <1>10 DEF RecordsInv

\* The inductive invariant on top of SessionsInv: what is on its way, the
\* reports, the starts and the changes of mode, makes the records agree.
THEOREM RecordsInvariant == Spec => [](SessionsInv /\ RecordsInv)
<1>1. Init => SessionsInv /\ RecordsInv
    BY InvInit, RecordsInit
<1>2. SessionsInv /\ RecordsInv /\ [Next]_vars => (SessionsInv /\ RecordsInv)'
    BY InvStep, RecordsStep
<1> QED BY <1>1, <1>2, PTL DEF Spec

LEMMA AllIdleIs ==
    ASSUME AllIdle
    PROVE  /\ \A c \in Callers : calls[c].at = "idle"
           /\ \A s \in Stoppers : stops[s].at # "closing"
           /\ requests = <<>> /\ runtime = <<>> /\ ~ingestion.busy
<1>1. \A c \in Callers : calls[c] = Idle
    BY DEF AllIdle
<1> QED BY <1>1, IdleIs DEF AllIdle

\* Once everybody is idle the turn the thread shows is the one the provider
\* runs, unless a writer overwrote what it had not read, two starts raced, two
\* turns crossed, a turn went to a session that was gone, a turn that failed
\* took another's place, or the server restarted.
THEOREM TheShownTurnRuns == Spec => []ShownTurnRuns
<1>1. SessionsInv /\ RecordsInv => ShownTurnRuns
    BY LeadsOnlyHere DEF RecordsInv, TurnsInOrder, ShownTurnRuns, AllIdle
<1> QED BY <1>1, RecordsInvariant, PTL

\* Once everybody is idle the thread shows a session exactly when the provider
\* has one, but for the mishaps StatusIsTrue names.
THEOREM TheStatusIsTrue == Spec => []StatusIsTrue
<1>1. ASSUME SessionsInv, RecordsInv PROVE StatusIsTrue
    <2> SUFFICES ASSUME AllIdle, ~thread.deleted,
                        mishaps \cap {"overwritten", "hidden", "raced", "evicted", "unsent",
                                      "unstarted", "restarted"} = {}
                 PROVE  Live <=> thread.session.status = "live"
        BY DEF StatusIsTrue
    <2>1. calls[0].at = "idle" /\ \A k \in Turns : calls[k].at = "idle"
        BY AllIdleIs, CallersAre
    <2>2. WillShowLive <=> thread.session.status = "live"
        BY AllIdleIs DEF WillShowLive
    <2>3. Live <=> WillShowLive
        BY <1>1, <2>1, AllIdleIs DEF RecordsInv, StatusFollows
    <2> QED BY <2>2, <2>3
<1> QED BY <1>1, RecordsInvariant, PTL

\* Once everybody is idle a live session works in the mode the user chose
\* last, but for the mishaps ModeIsCurrent names.
THEOREM TheModeIsCurrent == Spec => []ModeIsCurrent
<1>1. ASSUME SessionsInv, RecordsInv PROVE ModeIsCurrent
    <2> SUFFICES ASSUME AllIdle, Live, ~thread.deleted,
                        mishaps \cap {"overwritten", "raced", "reverted", "unheard",
                                      "unstarted"} = {}
                 PROVE  adapter.mode = thread.mode
        BY DEF ModeIsCurrent
    <2>1. calls[0].at = "idle" /\ requests = <<>>
        BY AllIdleIs, CallersAre
    <2>2. Recoverable
        BY DEF Recoverable, Live
    <2>3. ModeSettles(thread.session.mode) /\ OneMode(thread.session.mode)
        BY <1>1, <2>1, <2>2 DEF RecordsInv, ModesFollow, Starts
    <2> QED BY <2>1, <2>3 DEF ModeSettles, OneMode
<1> QED BY <1>1, RecordsInvariant, PTL
=============================================================================
