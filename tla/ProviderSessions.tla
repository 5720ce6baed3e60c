--------------------------- MODULE ProviderSessions ---------------------------
(***************************************************************************)
(* The provider session of one thread and everyone who starts or stops it: *)
(* the command reactor with the turns it sends in the background           *)
(* (ProviderCommandReactor.ts), the deletion reactor, the idle reaper      *)
(* (ProviderSessionReaper.ts) and the provider itself, while ingestion     *)
(* (ProviderRuntimeIngestion.ts) writes what the provider reports into the *)
(* thread.  Nothing but the order of their waits keeps them apart:         *)
(* ProviderService has no lock per thread.                                 *)
(*                                                                         *)
(* Four records describe the session: the provider's own, the binding in   *)
(* the session directory, the thread's row, and the copies actors hold     *)
(* across their waits.  The adapter is ClaudeAdapter's; one provider       *)
(* instance, whose sessions can always be resumed.                         *)
(***************************************************************************)
EXTENDS Naturals, Sequences, FiniteSets, SequencesExt

CONSTANTS
    MaxRequests,  \* bound: what the client asks
    MaxFaults,    \* bound: starts and turns that fail, sessions that exit, restarts
    MaxSweeps,    \* bound: times the reaper finds the thread idle
    MaxSessions   \* bound: sessions that are somewhere at once; see SessionUp

ASSUME SessionsAssumption == {MaxRequests, MaxFaults, MaxSweeps, MaxSessions} \subseteq Nat

\* A turn has the number of its request.
Turns == 1..MaxRequests
Callers == 0..MaxRequests
Mode == {"full-access", "approval-required"}

\* The thread's session as its row shows it; active is 0 for no turn, and
\* live stands for starting, ready, running and error.
Session == [status : {"none", "live", "stopped"}, mode : Mode, active : 0..MaxRequests]
NoSession == [status |-> "none", mode |-> "full-access", active |-> 0]

Request == [type : {"turn", "stop", "mode"}, turn : 0..MaxRequests]
RuntimeEvent == [type : {"session.started", "turn.started", "turn.completed",
                         "session.exited"}, turn : 0..MaxRequests]

Event(type, turn) == [type |-> type, turn |-> turn]

\* An actor's place in a handler, with the session and the mode it read, and
\* the provider's session it holds: requireSession's, across sendTurn's waits.
Call == [at : {"idle", "ensuring", "replacing", "registering", "binding", "route",
               "send", "sending", "recording", "clearing", "stopping", "unbinding"},
         turn : 0..MaxRequests, seen : Session, mode : Mode, id : 0..MaxSessions]
Idle == [at |-> "idle", turn |-> 0, seen |-> NoSession, mode |-> "full-access", id |-> 0]

\* Who calls the provider service's stopSession, and where it is in it; the
\* mode is what the directory's upsert read.
Stoppers == {"reactor", "deletion", "reaper"}
Stop == [at : {"idle", "due", "closing", "writing"}, mode : Mode]
NoStop == [at |-> "idle", mode |-> "full-access"]

\* The thread's entry in the adapter's map.  A closing session is listed, and
\* hasSession denies it; nothing else of it matters any more.
Entry == [at : {"none", "live", "closing"}, id : 0..MaxSessions, mode : Mode,
          turn : 0..MaxRequests]
NoEntry == [at |-> "none", id |-> 0, mode |-> "full-access", turn |-> 0]
Closing == [NoEntry EXCEPT !.at = "closing"]

VARIABLES
    \* the database
    thread,      \* deleted, runtime mode, session
    binding,     \* provider_session_runtime
    \* the provider
    adapter,     \* its map: the session it has for the thread
    orphans,     \* the sessions that run and are in no map
    runtime,     \* events not yet ingested
    \* the server
    requests,    \* the command reactor's queue
    calls,       \* its handler (0), and the turns it sends in the background
    stops,       \* stopSession, for the reactor, the deletion reactor, the reaper
    ingestion,   \* the event and the session it read
    \* history
    asked,       \* requests made
    faults,
    sweeps,      \* of the reaper that found the thread idle
    mishaps      \* what the actors did to each other

database == <<thread, binding>>
provider == <<adapter, orphans, runtime>>
server == <<requests, calls, stops, ingestion>>
history == <<asked, faults, sweeps, mishaps>>
vars == <<database, provider, server, history>>

TypeOK ==
    /\ thread \in [deleted : BOOLEAN, mode : Mode, session : Session]
    /\ binding \in [status : {"none", "running", "stopped"}, mode : Mode]
    /\ adapter \in Entry
    /\ orphans \subseteq [id : 0..MaxSessions, turn : 0..MaxRequests]
    /\ runtime \in Seq(RuntimeEvent)
    /\ requests \in Seq(Request)
    /\ calls \in [Callers -> Call]
    /\ stops \in [Stoppers -> Stop]
    /\ ingestion \in [busy : BOOLEAN, event : RuntimeEvent, seen : Session]
    /\ asked \in 0..MaxRequests
    /\ faults \in 0..MaxFaults
    /\ sweeps \in 0..MaxSweeps
    /\ mishaps \subseteq {"hidden", "raced", "evicted", "crossed", "unsent", "reverted",
                          "cleared", "overwritten", "unheard", "unstarted", "restarted"}

AtRest == [busy |-> FALSE, event |-> Event("session.exited", 0), seen |-> NoSession]

\* A new thread, or one whose session is at rest.
Init ==
    /\ \E live \in {FALSE} \cup {MaxSessions > 0} :
         /\ thread = [deleted |-> FALSE, mode |-> "full-access",
                      session |-> IF live THEN [NoSession EXCEPT !.status = "live"]
                                          ELSE NoSession]
         /\ binding = [status |-> IF live THEN "running" ELSE "none", mode |-> "full-access"]
         /\ adapter = IF live THEN [NoEntry EXCEPT !.at = "live", !.id = 1] ELSE NoEntry
    /\ orphans = {}
    /\ runtime = <<>>
    /\ requests = <<>>
    /\ calls = [c \in Callers |-> Idle]
    /\ stops = [s \in Stoppers |-> NoStop]
    /\ ingestion = AtRest
    /\ asked = 0
    /\ faults = 0
    /\ sweeps = 0
    /\ mishaps = {}

-----------------------------------------------------------------------------
(* The client.  A command's event reaches the reactors with its commit.    *)

Asks == ~thread.deleted /\ asked < MaxRequests /\ asked' = asked + 1

RequestTurn ==
    /\ Asks
    /\ requests' = Append(requests, [type |-> "turn", turn |-> asked'])
    /\ UNCHANGED <<database, provider, calls, stops, ingestion, faults, sweeps, mishaps>>

RequestStop ==
    /\ Asks
    /\ requests' = Append(requests, [type |-> "stop", turn |-> 0])
    /\ UNCHANGED <<database, provider, calls, stops, ingestion, faults, sweeps, mishaps>>

SetMode ==
    /\ Asks
    /\ \E mode \in Mode \ {thread.mode} : thread' = [thread EXCEPT !.mode = mode]
    /\ requests' = Append(requests, [type |-> "mode", turn |-> 0])
    /\ UNCHANGED <<binding, provider, calls, stops, ingestion, faults, sweeps, mishaps>>

Delete ==
    /\ Asks
    /\ thread' = [thread EXCEPT !.deleted = TRUE]
    /\ stops' = [stops EXCEPT !["deletion"].at = "due"]
    /\ UNCHANGED <<binding, provider, requests, calls, ingestion, faults, sweeps, mishaps>>

-----------------------------------------------------------------------------
(* The provider's sessions.                                                *)

Live == adapter.at = "live"

Completed(turn) == IF turn = 0 THEN <<>> ELSE <<Event("turn.completed", turn)>>

Exited == <<Event("session.exited", 0)>>

\* The thread's session is lost to the map.
Strays(others) ==
    IF Live THEN others \cup {[id |-> adapter.id, turn |-> adapter.turn]} ELSE others

\* stopSessionInternal up to its wait for the stream to end: the turn is
\* completed as interrupted.
Close ==
    /\ adapter' = Closing
    /\ runtime' = runtime \o Completed(adapter.turn)

\* Bug to find: a stopped session exits without a word.
ClosedQuietly ==
    /\ adapter' = NoEntry
    /\ orphans' = Strays(orphans)
    /\ UNCHANGED runtime
    /\ mishaps' = IF Live THEN mishaps \cup {"evicted"} ELSE mishaps

\* And from there: it takes the thread out of the map, whoever is there by now.
Closed ==
    /\ adapter' = NoEntry
    /\ orphans' = Strays(orphans)
    /\ runtime' = runtime \o Exited
    /\ mishaps' = IF Live THEN mishaps \cup {"evicted"} ELSE mishaps

InUse == {adapter.id} \cup {o.id : o \in orphans} \cup {calls[c].id : c \in Callers}
Free == (1..MaxSessions) \ InUse

\* Whoever has begun to start a session and has not registered it.
Starts == {"ensuring", "replacing", "registering"}

\* c starts a session that takes the thread's place in the map, whoever is
\* there, while another starts one, or in a mode the binding has no longer.
SessionUp(c, mode) ==
    /\ \E id \in Free :
         /\ \A other \in Free : id <= other
         /\ adapter' = [at |-> "live", id |-> id, mode |-> mode, turn |-> 0]
    /\ runtime' = Append(runtime, Event("session.started", 0))
    /\ orphans' = Strays(orphans)
    /\ calls' = [calls EXCEPT ![c].at = "registering"]
    /\ mishaps' = mishaps
         \cup (IF \E d \in Callers \ {c} : calls[d].at \in Starts THEN {"raced"} ELSE {})
         \cup (IF c # 0 /\ mode # binding.mode THEN {"reverted"} ELSE {})

TurnEnds ==
    /\ adapter.turn # 0
    /\ adapter' = [adapter EXCEPT !.turn = 0]
    /\ runtime' = runtime \o Completed(adapter.turn)
    /\ UNCHANGED <<database, orphans, server, history>>

\* The process exits by itself: its stream has ended, and nothing waits.
SessionExits ==
    /\ Live /\ faults < MaxFaults
    /\ faults' = faults + 1
    /\ adapter' = NoEntry
    /\ runtime' = runtime \o Completed(adapter.turn) \o Exited
    /\ UNCHANGED <<database, orphans, server, asked, sweeps, mishaps>>

OrphanTurnEnds ==
    /\ \E o \in orphans :
         /\ o.turn # 0
         /\ orphans' = (orphans \ {o}) \cup {[o EXCEPT !.turn = 0]}
         /\ runtime' = runtime \o Completed(o.turn)
    /\ UNCHANGED <<database, adapter, server, history>>

\* It too takes the thread out of the map, whoever is there.
OrphanExits ==
    /\ faults < MaxFaults
    /\ faults' = faults + 1
    /\ \E o \in orphans :
         /\ orphans' = Strays(orphans \ {o})
         /\ adapter' = NoEntry
         /\ runtime' = runtime \o Completed(o.turn) \o Exited
    /\ UNCHANGED <<database, server, asked, sweeps, mishaps>>

-----------------------------------------------------------------------------
(* The session directory.  Its upsert reads the row, waits, and writes: a   *)
(* mode that the caller does not give is put back as it was read.  Where a  *)
(* read may wait, it is made at once, and again while the reader waits.     *)

\* upsert of a session that was started, which gives status and mode.
UpsertRunning(mode) ==
    binding' = [status |-> "running", mode |-> mode]

\* upsert of a status alone, with the mode it read.
UpsertStatus(status, read) ==
    /\ binding' = [status |-> status, mode |-> read]
    /\ mishaps' = mishaps
         \cup (IF status = "stopped" /\ Live THEN {"hidden"} ELSE {})
         \cup (IF read # binding.mode THEN {"reverted"} ELSE {})

-----------------------------------------------------------------------------
(* stopSession of the provider service, for the reactor, the deletion       *)
(* reactor and the reaper.                                                  *)

\* The directory's upsert has read the binding.
Writing == [at |-> "writing", mode |-> binding.mode]

\* Without a binding it fails: the deletion reactor and the reactor log it.
StopFails(s) ==
    /\ stops[s].at = "due" /\ binding.status = "none"
    /\ stops' = [stops EXCEPT ![s] = NoStop]
    /\ calls' = IF s = "reactor" THEN [calls EXCEPT ![0] = Idle] ELSE calls
    /\ UNCHANGED <<database, provider, requests, ingestion, history>>

\* There is a session to stop, or none, or one that is being stopped.
StopBegins(s) ==
    /\ stops[s].at = "due" /\ binding.status # "none"
    /\ \/ Live /\ Close /\ stops' = [stops EXCEPT ![s].at = "closing"]
       \/ ~Live /\ stops' = [stops EXCEPT ![s] = Writing] /\ UNCHANGED <<adapter, runtime>>
    /\ UNCHANGED <<database, orphans, requests, calls, ingestion, history>>

StopEnds(s) ==
    /\ stops[s].at = "closing"
    /\ Closed
    /\ stops' = [stops EXCEPT ![s] = Writing]
    /\ UNCHANGED <<database, requests, calls, ingestion, asked, faults, sweeps>>

StopRereads(s) ==
    /\ stops[s].at = "writing" /\ stops[s].mode # binding.mode
    /\ stops' = [stops EXCEPT ![s] = Writing]
    /\ UNCHANGED <<database, provider, requests, calls, ingestion, history>>

StopRecorded(s) ==
    /\ stops[s].at = "writing"
    /\ UpsertStatus("stopped", stops[s].mode)
    /\ stops' = [stops EXCEPT ![s] = NoStop]
    /\ calls' = IF s = "reactor" THEN [calls EXCEPT ![0].at = "unbinding"] ELSE calls
    /\ UNCHANGED <<thread, provider, requests, ingestion, asked, faults, sweeps>>

\* A session that shows no turn; any time may be the inactivity threshold
\* after it was last used.
ReaperChecks ==
    /\ stops["reaper"].at = "idle" /\ sweeps < MaxSweeps
    /\ sweeps' = sweeps + 1
    /\ binding.status = "running"
    /\ thread.deleted \/ thread.session.active = 0
    /\ stops' = [stops EXCEPT !["reaper"].at = "due"]
    /\ UNCHANGED <<database, provider, requests, calls, ingestion, asked, faults, mishaps>>

-----------------------------------------------------------------------------
(* The command reactor.                                                    *)

\* thread.session.set, by an actor that had read seen.
SetSession(session, seen) ==
    /\ thread' = [thread EXCEPT !.session = session]
    /\ mishaps' = IF thread.session # seen THEN mishaps \cup {"overwritten"} ELSE mishaps

Takes(types) ==
    /\ calls[0].at = "idle" /\ requests # <<>>
    /\ Head(requests).type \in types
    /\ requests' = Tail(requests)

\* The background fiber of a turn; none for a change of mode.
Sending(cs, turn) == [k \in Callers |-> IF k # 0 /\ k = turn
                                        THEN [Idle EXCEPT !.at = "route", !.turn = k,
                                                          !.mode = binding.mode]
                                        ELSE cs[k]]

\* The thread is deleted, or a change of mode finds no session.
DropRequest ==
    /\ Takes({"turn", "stop", "mode"})
    /\ \/ thread.deleted /\ UNCHANGED mishaps
       \/ /\ ~thread.deleted
          /\ Head(requests).type = "mode" /\ thread.session.status # "live"
          /\ mishaps' = IF binding.status # "none" THEN mishaps \cup {"unheard"} ELSE mishaps
    /\ UNCHANGED <<database, provider, calls, stops, ingestion, asked, faults, sweeps>>

\* Bug to find: the session may be in another mode.
SessionFitsAnyMode == thread.session.status = "live" /\ adapter.at # "none"

\* ensureSessionForThread finds a session to use, in listSessions.
SessionFits ==
    /\ thread.session.status = "live" /\ adapter.at # "none"
    /\ thread.mode = thread.session.mode

UseSession ==
    /\ Takes({"turn", "mode"})
    /\ ~thread.deleted /\ SessionFits
    /\ calls' = Sending(calls, Head(requests).turn)
    /\ UNCHANGED <<database, provider, stops, ingestion, history>>

\* ensureSessionForThread decides to start one, in the mode it read.
StartSession ==
    /\ Takes({"turn", "mode"})
    /\ ~thread.deleted /\ ~SessionFits
    /\ Head(requests).type = "mode" => thread.session.status = "live"
    /\ calls' = [calls EXCEPT ![0] = [Idle EXCEPT !.at = "ensuring", !.mode = thread.mode,
                                        !.turn = Head(requests).turn, !.seen = thread.session]]
    /\ UNCHANGED <<database, provider, stops, ingestion, history>>

\* The adapter's startSession stops the session there is, without an exit event.
ReplaceSession ==
    /\ calls[0].at = "ensuring" /\ Live
    /\ Close
    /\ calls' = [calls EXCEPT ![0].at = "replacing"]
    /\ UNCHANGED <<database, orphans, requests, stops, ingestion, history>>

\* There is none, or it has stopped, or another stop has begun: no wait.
ReadyToStart(c) ==
    \/ calls[c].at = "replacing"
    \/ calls[c].at = "ensuring" /\ ~Live
    \/ calls[c].at = "route" /\ binding.status # "none" /\ ~Live

Started ==
    /\ ReadyToStart(0)
    /\ SessionUp(0, calls[0].mode)
    /\ UNCHANGED <<database, requests, stops, ingestion, asked, faults, sweeps>>

\* processSessionStopRequested.
HandleStop ==
    /\ Takes({"stop"})
    /\ ~thread.deleted
    /\ LET stopping == [Idle EXCEPT !.at = "stopping", !.seen = thread.session]
       IN \/ /\ thread.session.status = "live"
             /\ calls' = [calls EXCEPT ![0] = stopping]
             /\ stops' = [stops EXCEPT !["reactor"].at = "due"]
          \/ /\ thread.session.status # "live"
             /\ calls' = [calls EXCEPT ![0] = [stopping EXCEPT !.at = "unbinding"]]
             /\ UNCHANGED stops
    /\ UNCHANGED <<database, provider, ingestion, history>>

Unbind ==
    /\ calls[0].at = "unbinding"
    /\ thread' = [thread EXCEPT !.session = [calls[0].seen EXCEPT !.status = "stopped",
                                                                !.active = 0]]
    /\ mishaps' = mishaps \cup (IF Live THEN {"hidden"} ELSE {})
                          \cup (IF thread.session # calls[0].seen THEN {"overwritten"} ELSE {})
    /\ calls' = [calls EXCEPT ![0] = Idle]
    /\ UNCHANGED <<binding, provider, requests, stops, ingestion, asked, faults, sweeps>>

-----------------------------------------------------------------------------
(* startSession and sendTurn of the provider service.                      *)

\* A failed turn start makes the thread's session ready again; a failed
\* change of mode is logged.
Failing(c) ==
    IF c.turn = 0 \/ thread.deleted \/ thread.session.status = "none"
    THEN Idle
    ELSE [Idle EXCEPT !.at = "clearing", !.turn = c.turn, !.seen = thread.session]

\* The process cannot be made, for the reactor or for a recovery.
StartFails(c) ==
    /\ ReadyToStart(c) /\ faults < MaxFaults
    /\ faults' = faults + 1
    /\ calls' = [calls EXCEPT ![c] = Failing(@)]
    /\ IF calls[c].at = "replacing"
       THEN adapter' = NoEntry /\ orphans' = Strays(orphans)
       ELSE UNCHANGED <<adapter, orphans>>
    /\ mishaps' = mishaps \cup {"unstarted"}
    /\ UNCHANGED <<database, runtime, requests, stops, ingestion, asked, sweeps>>

\* Bug to find: the binding keeps the status it had.
RegisterKeepsStatus(c) ==
    /\ calls[c].at = "registering"
    /\ binding' = [binding EXCEPT !.status = IF @ = "none" THEN "running" ELSE @,
                                  !.mode = calls[c].mode]
    /\ calls' = [calls EXCEPT ![c].at = IF c = 0 THEN "binding" ELSE "send"]
    /\ UNCHANGED <<thread, provider, requests, stops, ingestion, history>>

Register(c) ==
    /\ calls[c].at = "registering"
    /\ UpsertRunning(calls[c].mode)
    /\ calls' = [calls EXCEPT ![c].at = IF c = 0 THEN "binding" ELSE "send"]
    /\ UNCHANGED <<thread, provider, requests, stops, ingestion, history>>

\* bindSessionToThread; then the turn is sent.
Bind ==
    /\ calls[0].at = "binding"
    /\ SetSession([status |-> "live", mode |-> calls[0].mode, active |-> 0], calls[0].seen)
    /\ calls' = Sending([calls EXCEPT ![0] = Idle], calls[0].turn)
    /\ UNCHANGED <<binding, provider, requests, stops, ingestion, asked, faults, sweeps>>

\* resolveRoutableSession finds no session, and resumes the one the binding
\* describes, as it read it.
Recover(k) ==
    /\ ReadyToStart(k)
    /\ SessionUp(k, calls[k].mode)
    /\ UNCHANGED <<database, requests, stops, ingestion, asked, faults, sweeps>>

\* It finds the session, or the one it resumed is registered.
ReadyToSend(k) ==
    /\ Live
    /\ \/ calls[k].at = "send"
       \/ calls[k].at = "route" /\ binding.status # "none"

\* Two turns are on their way to one session.
Crossing(k) ==
    mishaps' = IF \E j \in Turns \ {k} : calls[j].at = "sending" /\ calls[j].id = adapter.id
               THEN mishaps \cup {"crossed"} ELSE mishaps

Sends(k) == [Idle EXCEPT !.at = "sending", !.turn = k, !.id = adapter.id]

\* Bug to find: the turn that still runs is not completed.
SendOverTurn(k) ==
    /\ ReadyToSend(k)
    /\ calls' = [calls EXCEPT ![k] = Sends(k)]
    /\ Crossing(k)
    /\ UNCHANGED <<database, provider, requests, stops, ingestion, asked, faults, sweeps>>

\* The adapter's sendTurn, up to its waits for the provider to take the model
\* and the permission mode: it completes a turn that still runs.
Send(k) ==
    /\ ReadyToSend(k)
    /\ adapter' = [adapter EXCEPT !.turn = 0]
    /\ runtime' = runtime \o Completed(adapter.turn)
    /\ calls' = [calls EXCEPT ![k] = Sends(k)]
    /\ Crossing(k)
    /\ UNCHANGED <<database, orphans, requests, stops, ingestion, asked, faults, sweeps>>

\* There is no binding, or the session that was resumed is gone again.
SendRefused(k) ==
    /\ \/ calls[k].at = "route" /\ binding.status = "none"
       \/ calls[k].at = "send" /\ ~Live
    /\ calls' = [calls EXCEPT ![k] = Failing(@)]
    /\ UNCHANGED <<database, provider, requests, stops, ingestion, history>>

Holds(k) == Live /\ adapter.id = calls[k].id

\* It reports the turn started, on the session it was given at first, which
\* may have stopped, or stray from the map.
TurnStarted(k) ==
    /\ adapter' = IF Holds(k) THEN [adapter EXCEPT !.turn = k] ELSE adapter
    /\ orphans' = {IF o.id = calls[k].id THEN [o EXCEPT !.turn = k] ELSE o : o \in orphans}
    /\ runtime' = Append(runtime, Event("turn.started", k))

\* The queue of prompts takes a turn for a session that has stopped as well.
Sent(k) ==
    /\ calls[k].at = "sending"
    /\ TurnStarted(k)
    /\ mishaps' = IF Holds(k) THEN mishaps ELSE mishaps \cup {"unsent"}
    /\ calls' = [calls EXCEPT ![k] = [Idle EXCEPT !.at = "recording", !.turn = k,
                                                  !.mode = binding.mode]]
    /\ UNCHANGED <<database, requests, stops, ingestion, asked, faults, sweeps>>

\* The provider refuses a mode, or the message cannot be made for a turn that
\* is reported as started.
SendFails(k) ==
    /\ calls[k].at = "sending" /\ faults < MaxFaults
    /\ faults' = faults + 1
    /\ \/ UNCHANGED <<provider, mishaps>>
       \/ TurnStarted(k) /\ mishaps' = mishaps \cup {"unsent"}
    /\ calls' = [calls EXCEPT ![k] = Failing(@)]
    /\ UNCHANGED <<database, requests, stops, ingestion, asked, sweeps>>

Rereads(k) ==
    /\ calls[k].at \in {"route", "recording"} /\ calls[k].mode # binding.mode
    /\ calls' = [calls EXCEPT ![k].mode = binding.mode]
    /\ UNCHANGED <<database, provider, requests, stops, ingestion, history>>

\* Once the turn is sent the binding is running, stopped in between or not.
Record(k) ==
    /\ calls[k].at = "recording"
    /\ UpsertStatus("running", calls[k].mode)
    /\ calls' = [calls EXCEPT ![k] = Idle]
    /\ UNCHANGED <<thread, provider, requests, stops, ingestion, asked, faults, sweeps>>

\* setThreadSessionErrorOnTurnStartFailure: whichever turn the thread shows.
Clear(c) ==
    /\ calls[c].at = "clearing"
    /\ thread' = [thread EXCEPT !.session = [calls[c].seen EXCEPT !.active = 0]]
    /\ mishaps' = mishaps
         \cup (IF thread.session # calls[c].seen THEN {"overwritten"} ELSE {})
         \cup (IF calls[c].seen.active \in {adapter.turn} \ {0} THEN {"cleared"} ELSE {})
    /\ calls' = [calls EXCEPT ![c] = Idle]
    /\ UNCHANGED <<binding, provider, requests, stops, ingestion, asked, faults, sweeps>>

-----------------------------------------------------------------------------
(* Ingestion: it reads the thread, and writes the session it makes of it.  *)

IngestReads ==
    /\ ~ingestion.busy /\ runtime # <<>>
    /\ runtime' = Tail(runtime)
    /\ ingestion' = IF thread.deleted THEN ingestion
                    ELSE [busy |-> TRUE, event |-> Head(runtime), seen |-> thread.session]
    /\ UNCHANGED <<database, adapter, orphans, requests, calls, stops, history>>

\* shouldApplyThreadLifecycle: only the active turn ends, and none starts
\* over another.
Applies(event, seen) ==
    event.type \in {"turn.started", "turn.completed"} => seen.active \in {0, event.turn}

Reported(event, seen) ==
    CASE event.type = "session.started" -> [seen EXCEPT !.status = "live"]
      [] event.type = "session.exited" -> [seen EXCEPT !.status = "stopped", !.active = 0]
      [] event.type = "turn.started" -> [seen EXCEPT !.status = "live", !.active = event.turn]
      [] event.type = "turn.completed" -> [seen EXCEPT !.status = "live", !.active = 0]

IngestWrites ==
    /\ ingestion.busy
    /\ ingestion' = AtRest
    /\ IF Applies(ingestion.event, ingestion.seen)
       THEN SetSession(Reported(ingestion.event, ingestion.seen), ingestion.seen)
       ELSE UNCHANGED <<thread, mishaps>>
    /\ UNCHANGED <<binding, provider, requests, calls, stops, asked, faults, sweeps>>

-----------------------------------------------------------------------------
(* The server's end.                                                       *)

\* runStopAll, when the process ends as it should; a crash leaves the binding.
Restart ==
    /\ faults < MaxFaults
    /\ faults' = faults + 1
    /\ \/ UNCHANGED binding
       \/ /\ binding.status = "running"
          /\ binding' = [binding EXCEPT !.status = "stopped"]
    /\ adapter' = NoEntry
    /\ orphans' = {}
    /\ runtime' = <<>>
    /\ requests' = <<>>
    /\ calls' = [c \in Callers |-> Idle]
    /\ stops' = [s \in Stoppers |-> NoStop]
    /\ ingestion' = AtRest
    /\ mishaps' = mishaps \cup {"restarted"}
    /\ UNCHANGED <<thread, asked, sweeps>>

-----------------------------------------------------------------------------

Client == RequestTurn \/ RequestStop \/ SetMode \/ Delete

Reactor ==
    \/ DropRequest \/ UseSession \/ StartSession \/ ReplaceSession \/ Started
    \/ Register(0) \/ Bind \/ HandleStop \/ Unbind \/ Clear(0)

SendingStep(k) ==
    \/ Recover(k) \/ Register(k) \/ Send(k) \/ SendRefused(k) \/ Sent(k)
    \/ Rereads(k) \/ Record(k) \/ Clear(k)

StopStep(s) ==
    StopFails(s) \/ StopBegins(s) \/ StopEnds(s) \/ StopRereads(s) \/ StopRecorded(s)

Ingestion == IngestReads \/ IngestWrites

Fault ==
    \/ SessionExits \/ OrphanExits \/ Restart
    \/ \E c \in Callers : StartFails(c)
    \/ \E k \in Turns : SendFails(k)

\* What the server and the provider do by themselves.
Server ==
    \/ Reactor \/ (\E k \in Turns : SendingStep(k))
    \/ (\E s \in Stoppers : StopStep(s)) \/ ReaperChecks
    \/ Ingestion \/ TurnEnds \/ OrphanTurnEnds

Next == Client \/ Server \/ Fault

Spec == Init /\ [][Next]_vars

-----------------------------------------------------------------------------
(* Properties.  The records need not agree while an actor is at work, and   *)
(* mishaps names what the code leaves to chance: "hidden", a live session   *)
(* recorded as stopped; "raced", two starts at once; "evicted", a stop that *)
(* takes a newer session out of the map; "crossed", two turns on their way  *)
(* to one session; "unsent", a turn reported as started that is sent to no  *)
(* one; "cleared", a running turn no longer shown because another could not *)
(* be sent; "reverted", a mode put back by a writer that had read it before *)
(* it changed; "overwritten", a session written over one the writer had not *)
(* read; "unheard", a mode no session was told; "unstarted", a start that   *)
(* failed; "restarted".                                                     *)

AllIdle ==
    /\ \A c \in Callers : calls[c] = Idle
    /\ \A s \in Stoppers : stops[s].at = "idle" \/ <<s, stops[s].at>> = <<"reaper", "due">>
    /\ requests = <<>> /\ runtime = <<>> /\ ~ingestion.busy

\* A live session is listed as running, so that the reaper, the only one to
\* end what a deletion came too early for, and the next start find it: only
\* a stop recorded after a new start hides it.
LiveIsListed ==
    AllIdle /\ Live => binding.status = "running" \/ "hidden" \in mishaps

\* The turn the thread shows, which keeps the reaper away and which only its
\* own end clears, is the turn the provider runs.
ShownTurnRuns ==
    AllIdle /\ ~thread.deleted =>
        \/ thread.session.active = adapter.turn
        \/ mishaps \cap {"overwritten", "raced", "crossed", "unsent", "cleared", "restarted"} # {}

\* The thread shows a session exactly while the provider has one, whichever
\* of the reactor, the reaper and the provider ended the last.
StatusIsTrue ==
    AllIdle /\ ~thread.deleted =>
        \/ Live <=> thread.session.status = "live"
        \/ mishaps \cap {"overwritten", "hidden", "raced", "evicted", "unsent", "unstarted",
                         "restarted"} # {}

\* The provider works in the mode the user chose last.
ModeIsCurrent ==
    AllIdle /\ Live /\ ~thread.deleted =>
        \/ adapter.mode = thread.mode
        \/ mishaps \cap {"overwritten", "raced", "reverted", "unheard", "unstarted"} # {}

\* What the reactor's tests say of a change of mode: it restarts the session
\* in the new mode.
ModeReachesSession ==
    AllIdle /\ Live /\ ~thread.deleted /\ thread.session.status = "live" =>
        adapter.mode = thread.mode

\* A turn is sent by one fiber, once: while its request is queued or the
\* handler holds it, its fiber has not begun.
TurnsAreSentOnce ==
    /\ \A i \in 1..Len(requests) :
         /\ requests[i].turn <= asked
         /\ requests[i].turn # 0 =>
              /\ calls[requests[i].turn].at = "idle"
              /\ requests[i].turn # calls[0].turn
              /\ \A j \in 1..Len(requests) : requests[j].turn = requests[i].turn => j = i
    /\ calls[0].turn <= asked
    /\ calls[0].turn # 0 => calls[calls[0].turn].at = "idle"
    /\ \A k \in Turns : k > asked => calls[k].at = "idle"

\* The reactor waits for the stop it asked for.
StopsAreAwaited == stops["reactor"].at # "idle" => calls[0].at = "stopping"

\* A live session is listed, hidden, or about to be registered.
LiveIsTracked ==
    Live =>
        \/ binding.status = "running"
        \/ "hidden" \in mishaps
        \/ \E c \in Callers : calls[c].at = "registering"

\* A turn that is not sent yet is nowhere but with who will send it.
Unsent(k) ==
    \/ calls[k].at \in {"route", "registering", "send", "sending"}
    \/ calls[0].turn = k
    \/ \E i \in 1..Len(requests) : requests[i].turn = k
    \/ k > asked

UnsentIsUnseen ==
    \A k \in Turns : Unsent(k) =>
        /\ thread.session.active # k /\ adapter.turn # k
        /\ ingestion.seen.active # k
        /\ ingestion.event # Event("turn.started", k)
        /\ \A c \in Callers : calls[c].seen.active # k
        /\ \A i \in 1..Len(runtime) : runtime[i] # Event("turn.started", k)
        /\ \A o \in orphans : o.turn # k

\* No turn without a session, in the adapter or in the thread; a session in
\* the map is no orphan.
TurnsNeedSessions ==
    /\ Live \/ adapter.turn = 0
    /\ Live => adapter.id # 0
    /\ thread.session.status # "live" => thread.session.active = 0
    /\ \A o \in orphans : /\ Live => o.id # adapter.id
                          /\ o.turn # 0 => o.turn # adapter.turn

\* Whoever may start a session, or has one to recover, finds a binding.
BindingIsKnown ==
    /\ calls[0].at = "binding" => binding.status # "none"
    /\ \A k \in Turns : calls[k].at \in {"route", "registering"} => binding.status # "none"
    /\ adapter.at # "none" => binding.status # "none" \/ calls[0].at = "registering"

\* A change of mode starts a session only in place of one; the handler
\* replaces sessions, and the fibers recover them.
StartsAreAsked ==
    /\ calls[0].at # "route"
    /\ \A k \in Turns : calls[k].at \notin {"ensuring", "replacing"}
    /\ \A i \in 1..Len(requests) : requests[i].type = "turn" => requests[i].turn # 0
    /\ calls[0].at \in Starts \cup {"binding"} =>
         calls[0].turn # 0 \/ calls[0].seen.status = "live"

\* Without a race no two callers register a session, and none comes up while
\* the one it replaces is closed; without an eviction either, none strays.
StartsInTurn ==
    \/ "raced" \in mishaps
    \/ /\ orphans # {} => "evicted" \in mishaps
       /\ calls[0].at = "replacing" => ~Live
       /\ \A c, d \in Callers :
            c # d => ~(calls[c].at = "registering" /\ calls[d].at = "registering")

\* Unless two turns cross, the session a turn is on its way to runs none.
SendsInTurn ==
    \/ "crossed" \in mishaps
    \/ \A k \in Turns : calls[k].at = "sending" /\ Holds(k) =>
         /\ adapter.turn = 0
         /\ \A j \in Turns \ {k} : calls[j].at = "sending" => ~Holds(j)

\* Once the reactor has ended the session it found, the turn it saw is over.
SeenIsOver ==
    \/ calls[0].at \in {"replacing", "registering", "binding", "unbinding"}
    \/ stops["reactor"].at \in {"closing", "writing"}
    => calls[0].seen.active = 0 \/ calls[0].seen.active # adapter.turn

\* What the reports still to be written make of the turn the thread shows:
\* one that starts finds none, and one that ends may be shown no more.
Follows(active, event, next) ==
    \/ event.type = "session.started" /\ next = active
    \/ event.type = "session.exited" /\ next = 0
    \/ event.type = "turn.started" /\ active = 0 /\ next = event.turn
    \/ event.type = "turn.completed" /\ active \in {0, event.turn} /\ next = 0
    \/ event.type = "turn.completed" /\ active \notin {0, event.turn} /\ next = active

Leads(active, events, last) ==
    \E shown \in [0..Len(events) -> 0..MaxRequests] :
        /\ shown[0] = active /\ shown[Len(events)] = last
        /\ \A i \in 1..Len(events) : Follows(shown[i - 1], events[i], shown[i])

TurnsInOrder ==
    \/ thread.deleted
    \/ mishaps \cap {"overwritten", "raced", "crossed", "unsent", "cleared", "restarted"} # {}
    \/ /\ ~ingestion.busy
       /\ Leads(thread.session.active, runtime, adapter.turn)
    \/ /\ ingestion.busy
       /\ ingestion.event.type = "turn.started" => ingestion.seen.active = 0
       /\ thread.session.active \in {0, ingestion.seen.active}
       /\ \E active \in 0..MaxRequests :
            /\ Follows(thread.session.active, ingestion.event, active)
            /\ Leads(active, runtime, adapter.turn)

\* Whether the thread shows a session once the reports are written.
WillShowLive ==
    IF runtime # <<>> THEN runtime[Len(runtime)].type # "session.exited"
    ELSE IF ingestion.busy THEN ingestion.event.type # "session.exited"
    ELSE thread.session.status = "live"

\* It will show a live session, whichever report is ignored; where it shows
\* one that is being closed, or that died before it was bound, an exit is
\* about to be reported, or a turn about to start it again.
StatusFollows ==
    \/ thread.deleted
    \/ mishaps \cap {"overwritten", "hidden", "raced", "evicted", "unsent", "unstarted",
                     "restarted"} # {}
    \/ /\ ingestion.busy /\ ingestion.seen.active # 0 /\ Live =>
            thread.session.status = "live" \/ runtime # <<>>
       /\ \/ calls[0].at \in {"ensuring", "replacing"}
          \/ /\ Live => WillShowLive
             /\ WillShowLive => \/ Live
                                \/ \E s \in Stoppers : stops[s].at = "closing"
                                \/ \E k \in Turns : calls[k].at = "route"

\* The session and whoever registers one have one mode.
OneMode(mode) ==
    /\ binding.mode = mode
    /\ Live => adapter.mode = mode
    /\ \A k \in Turns : calls[k].at = "registering" => calls[k].mode = mode

\* There is a session to use, or somebody is about to recover one.
Recoverable ==
    adapter.at # "none" \/ \E k \in Turns : calls[k].at \in {"route", "registering"}

\* The mode is the thread's, or a request is queued that will change it.
ModeSettles(mode) ==
    mode = thread.mode \/ \E i \in 1..Len(requests) : requests[i].type = "mode"

ModesFollow ==
    \/ thread.deleted
    \/ mishaps \cap {"overwritten", "raced", "reverted", "unheard", "unstarted"} # {}
    \/ /\ calls[0].at \in Starts \cup {"binding"}
       /\ ModeSettles(calls[0].mode)
       /\ calls[0].at \in {"registering", "binding"} /\ Live => adapter.mode = calls[0].mode
       /\ calls[0].at = "binding" => OneMode(calls[0].mode)
    \/ /\ calls[0].at \notin Starts \cup {"binding"}
       /\ Recoverable => /\ ModeSettles(thread.session.mode)
                         /\ OneMode(thread.session.mode)

\* The inductive invariant of ProviderSessions_proofs.
SessionsInv == TypeOK /\ TurnsAreSentOnce /\ StopsAreAwaited /\ LiveIsTracked

RecordsInv ==
    /\ UnsentIsUnseen /\ TurnsNeedSessions /\ BindingIsKnown /\ StartsAreAsked
    /\ StartsInTurn /\ SendsInTurn /\ SeenIsOver
    /\ TurnsInOrder /\ StatusFollows /\ ModesFollow
=============================================================================
