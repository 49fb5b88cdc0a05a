-------------------------------- MODULE ArmB --------------------------------
(***************************************************************************)
(* Arm B: the host-side driver of one managed session                      *)
(* (agent_managed/orchestrator.py).  The investigation itself runs in the  *)
(* provider's cloud as a coordinator with sub-agent threads; the host      *)
(* reads the session's event stream, runs each custom tool call with Arm   *)
(* A's own handler, sends the result back and writes the scored trace.     *)
(*                                                                         *)
(* The session is external: here it may call tools from several threads,   *)
(* speak, report usage and idle in any order, waits for the answers to its *)
(* calls, and ends at last.  Between any two of the driver's blocking      *)
(* calls (a read, a handler, a send, the usage retrieve) it may act, and   *)
(* any of those calls may raise.                                           *)
(***************************************************************************)
EXTENDS TraceWriter, FiniteSets

CONSTANTS
  ResolutionTools,  \* the names _drive_session counts as resolutions
  DefaultSource,    \* EDGAR_FILING, what _source_type_or_default falls back to
  UnknownTool,      \* a tool name outside TOOL_REGISTRY
  MaxEvents,        \* _MAX_EVENTS
  MaxEmits          \* bound of what the session emits before it must end

ASSUME ArmBAssumption ==
  /\ ResolutionTools \subseteq Sources /\ DefaultSource \in Sources \ ResolutionTools
  /\ UnknownTool \notin Sources /\ NoSource \notin Sources
  /\ MaxEvents \in Nat /\ MaxEmits \in Nat

VARIABLES
  pc,          \* start, created, streaming, replying, closing, done, escaped
  tw,          \* the TraceWriter
  usage,       \* tokens summed off the stream inside _drive_session
  streamUsage, \* the same once _drive_session has returned; 0 until then
  resolutions, \* resolution_count inside _drive_session
  nEvents,     \* events read
  reply,       \* the call whose result is about to be sent, 0 if none
  error,       \* an exception was caught around the session
  left,        \* why the event loop was left: "no", "idle", "ended", "bound", "closed"
  result,      \* the ManagedRunResult; NoResult until it is returned
  \* the session's side
  stream,      \* events emitted and not read
  asked,       \* the names of the custom tool calls so far; a call's id is its place
  waiting,     \* ids of the calls the session waits on
  spent,       \* tokens the session has used
  emits,       \* events emitted
  session      \* none, created, running (the kickoff reached it) or over

driverVars == <<pc, tw, usage, streamUsage, resolutions, nEvents, reply, error, left,
                result>>
sessionVars == <<stream, asked, waiting, spent, emits, session>>
armBVars == <<driverVars, sessionVars>>

ToolNames == Sources \union {UnknownTool}
Event(type, call) == [type |-> type, call |-> call]
EventTypes == {"custom_tool_use", "message", "model_request_end", "requires_action",
               "end_turn", "terminated"}
NoResult == [depth |-> 0, resolutions |-> 0, tokens |-> 0, retrieved |-> FALSE,
             error |-> FALSE]

-----------------------------------------------------------------------------
(* The session (external).                                                 *)

Live == session = "running" /\ pc \notin {"done", "escaped"}
Emit(event) == stream' = Append(stream, event) /\ emits' = emits + 1

\* Any thread calls a tool; the model may make a name up.
SessionCalls(name) ==
  /\ Live /\ emits < MaxEmits
  /\ asked' = Append(asked, name)
  /\ waiting' = waiting \union {Len(asked')}
  /\ Emit(Event("custom_tool_use", Len(asked')))
  /\ UNCHANGED <<driverVars, spent, session>>

SessionSpeaks ==
  /\ Live /\ emits < MaxEmits
  /\ Emit(Event("message", 0))
  /\ UNCHANGED <<driverVars, asked, waiting, spent, session>>

SessionSpends ==
  /\ Live /\ emits < MaxEmits
  /\ spent' = spent + 1
  /\ Emit(Event("model_request_end", 0))
  /\ UNCHANGED <<driverVars, asked, waiting, session>>

SessionWaits ==
  /\ Live /\ emits < MaxEmits /\ waiting # {}
  /\ Emit(Event("requires_action", 0))
  /\ UNCHANGED <<driverVars, asked, waiting, spent, session>>

\* Nothing is owed to the session: its turn ends.
SessionEndsTurn ==
  /\ Live /\ waiting = {}
  /\ session' = "over"
  /\ Emit(Event("end_turn", 0))
  /\ UNCHANGED <<driverVars, asked, waiting, spent>>

SessionTerminates ==
  /\ Live
  /\ session' = "over"
  /\ Emit(Event("terminated", 0))
  /\ UNCHANGED <<driverVars, asked, waiting, spent>>

Session ==
  \/ \E name \in ToolNames : SessionCalls(name)
  \/ SessionSpeaks \/ SessionSpends \/ SessionWaits
  \/ SessionEndsTurn \/ SessionTerminates

-----------------------------------------------------------------------------
(* The driver.                                                             *)

\* The except around create and _drive_session: what the loop had counted is lost
\* with its frame.
Crash ==
  /\ error' = TRUE
  /\ pc' = "closing"
  /\ reply' = 0

CreateSession ==
  /\ pc = "start"
  /\ pc' = "created" /\ session' = "created"
  /\ UNCHANGED <<tw, usage, streamUsage, resolutions, nEvents, reply, error, left,
                 result, stream, asked, waiting, spent, emits>>

CreateFails ==
  /\ pc = "start"
  /\ Crash
  /\ UNCHANGED <<tw, usage, streamUsage, resolutions, nEvents, left, result,
                 sessionVars>>

\* The stream is opened first, then the kickoff sent.
OpenStream ==
  /\ pc = "created"
  /\ pc' = "streaming" /\ session' = "running"
  /\ UNCHANGED <<tw, usage, streamUsage, resolutions, nEvents, reply, error, left,
                 result, stream, asked, waiting, spent, emits>>

\* Opening, sending or reading raises, or a handler raises what _run_tool does
\* not catch, after its event was taken off the stream.  A kickoff whose send
\* raised may still have reached the session.
DriveCrashes ==
  /\ pc \in {"created", "streaming", "replying"}
  /\ Crash
  /\ session' \in IF pc = "created" THEN {session, "running"} ELSE {session}
  /\ stream' \in IF pc = "streaming" /\ stream # <<>> THEN {stream, Tail(stream)}
                 ELSE {stream}
  /\ UNCHANGED <<tw, usage, streamUsage, resolutions, nEvents, left, result, asked,
                 waiting, spent, emits>>

\* _drive_session returns: its counts reach investigate().
LeaveLoop(why) ==
  /\ left' = why
  /\ streamUsage' = usage
  /\ pc' = "closing"

\* The server closes the stream and the iteration simply ends.
StreamCloses ==
  /\ pc = "streaming"
  /\ LeaveLoop("closed")
  /\ UNCHANGED <<tw, usage, resolutions, nEvents, reply, error, result, sessionVars>>

\* The next event; within the bounds it goes to its branch of the loop.
Take(type) ==
  /\ pc = "streaming" /\ stream # <<>>
  /\ Head(stream).type = type
  /\ stream' = Tail(stream)
  /\ nEvents' = nEvents + 1
  /\ UNCHANGED <<error, result, asked, waiting, spent, emits, session>>

\* The bound is looked at on each event, before it is handled; the wall-clock
\* bound may pass at any event.
ExceedBound ==
  /\ \E type \in EventTypes : Take(type)
  /\ LeaveLoop("bound")
  /\ UNCHANGED <<tw, usage, resolutions, reply>>

\* Faulty variant: one event too many.
InBoundsInclusive == nEvents <= MaxEvents

InBounds == nEvents < MaxEvents

\* _source_type_or_default.
SourceOf(name) == IF name \in Sources THEN name ELSE DefaultSource

\* Faulty variant: a tool the registry does not know is only logged.
HandleCustomToolSilently ==
  /\ InBounds /\ Take("custom_tool_use")
  /\ LET id == Head(stream).call
         name == asked[id] IN
     /\ \/ name \in Sources /\ tw' = RecordHop(tw, name, tw.turn)
        \/ name \in Sources /\ tw' = RecordHopError(tw, name, tw.turn)
        \/ name \notin Sources /\ tw' = RecordHopError(tw, SourceOf(name), tw.turn)
     /\ IF name \in Sources THEN reply' = id /\ pc' = "replying"
        ELSE UNCHANGED <<reply, pc>>
  /\ UNCHANGED <<usage, streamUsage, resolutions, left>>

\* Faulty variant: a failed handler leaves no hop.
HandleCustomToolUntraced ==
  /\ InBounds /\ Take("custom_tool_use")
  /\ LET id == Head(stream).call
         name == asked[id] IN
     /\ tw' \in {RecordHop(tw, SourceOf(name), tw.turn), tw}
     /\ reply' = id
  /\ pc' = "replying"
  /\ UNCHANGED <<usage, streamUsage, resolutions, left>>

\* Faulty variant: a failed handler's hop is followed by a hop for its ERROR text.
HandleCustomToolTwice ==
  /\ InBounds /\ Take("custom_tool_use")
  /\ LET id == Head(stream).call
         source == SourceOf(asked[id]) IN
     /\ tw' \in {RecordHop(tw, source, tw.turn),
                 RecordHop(RecordHopError(tw, source, tw.turn), source, tw.turn)}
     /\ reply' = id
  /\ pc' = "replying"
  /\ UNCHANGED <<usage, streamUsage, resolutions, left>>

\* _run_tool: the handler returns a hop or fails with one; a name outside the
\* registry is a failed hop of the default source.
HandleCustomTool ==
  /\ InBounds /\ Take("custom_tool_use")
  /\ LET id == Head(stream).call
         name == asked[id] IN
     /\ \/ name \in Sources /\ tw' = RecordHop(tw, name, tw.turn)
        \/ tw' = RecordHopError(tw, SourceOf(name), tw.turn)
     /\ reply' = id
  /\ pc' = "replying"
  /\ UNCHANGED <<usage, streamUsage, resolutions, left>>

\* Faulty variant: a resolution is counted for each call.
SendResultCounting ==
  /\ pc = "replying"
  /\ waiting' = waiting \ {reply}
  /\ resolutions' = resolutions + 1
  /\ pc' = "streaming" /\ reply' = 0
  /\ UNCHANGED <<tw, usage, streamUsage, nEvents, error, left, result, stream, asked,
                 spent, emits, session>>

\* The result goes back under the call's id; the session resumes that thread.
SendResult ==
  /\ pc = "replying"
  /\ waiting' = waiting \ {reply}
  /\ resolutions' = resolutions + (IF asked[reply] \in ResolutionTools THEN 1 ELSE 0)
  /\ pc' = "streaming" /\ reply' = 0
  /\ UNCHANGED <<tw, usage, streamUsage, nEvents, error, left, result, stream, asked,
                 spent, emits, session>>

\* The latest message is the answer; its text is left out.
TakeMessage ==
  /\ InBounds /\ Take("message")
  /\ UNCHANGED <<pc, tw, usage, streamUsage, resolutions, reply, left>>

AddUsage ==
  /\ InBounds /\ Take("model_request_end")
  /\ usage' = usage + 1
  /\ UNCHANGED <<pc, tw, streamUsage, resolutions, reply, left>>

\* Idle because an answer is on its way: keep streaming.
KeepStreaming ==
  /\ InBounds /\ Take("requires_action")
  /\ UNCHANGED <<pc, tw, usage, streamUsage, resolutions, reply, left>>

EndOfTurn ==
  /\ InBounds /\ Take("end_turn")
  /\ LeaveLoop("idle")
  /\ UNCHANGED <<tw, usage, resolutions, reply>>

Terminated ==
  /\ InBounds /\ Take("terminated")
  /\ LeaveLoop("ended")
  /\ UNCHANGED <<tw, usage, resolutions, reply>>

\* Faulty variant: the session's usage is added to what the stream reported.
TokensTwice(retrieved) == streamUsage + (IF retrieved THEN spent ELSE 0)

\* The session's own usage when it could be retrieved and is not zero, else what
\* _drive_session returned.
Tokens(retrieved) == IF retrieved /\ spent > 0 THEN spent ELSE streamUsage

\* The accounting turn, finish, write and the result.  A session that was never
\* created is not asked; a retrieve or a write that raises anything else escapes.
Close(retrieved) ==
  /\ pc = "closing"
  /\ retrieved => session # "none"
  /\ tw' = Finish(RecordTurn(tw, Tokens(retrieved)))
  /\ pc' = "done"
  /\ result' = [depth |-> DepthReached(tw'), tokens |-> Tokens(retrieved),
                resolutions |-> IF error THEN 0 ELSE resolutions,
                retrieved |-> retrieved, error |-> error]
  /\ UNCHANGED <<usage, streamUsage, resolutions, nEvents, reply, error, left,
                 sessionVars>>

CloseEscapes ==
  /\ pc = "closing"
  /\ pc' = "escaped"
  /\ UNCHANGED <<tw, usage, streamUsage, resolutions, nEvents, reply, error, left,
                 result, sessionVars>>

Driver ==
  \/ CreateSession \/ CreateFails \/ OpenStream
  \/ ExceedBound
  \/ HandleCustomTool \/ SendResult
  \/ TakeMessage \/ AddUsage \/ KeepStreaming \/ EndOfTurn \/ Terminated
  \/ \E retrieved \in BOOLEAN : Close(retrieved)
  \/ CloseEscapes

-----------------------------------------------------------------------------

ArmBInit ==
  /\ pc = "start"
  /\ tw = RecordTurn(Start(NewTrace), 0)   \* the coordinator's opening turn
  /\ usage = 0 /\ streamUsage = 0 /\ resolutions = 0 /\ nEvents = 0 /\ reply = 0
  /\ error = FALSE /\ left = "no" /\ result = NoResult
  /\ stream = <<>> /\ asked = <<>> /\ waiting = {} /\ spent = 0 /\ emits = 0
  /\ session = "none"

ArmBNext == Driver \/ DriveCrashes \/ StreamCloses \/ Session

\* The driver is one thread that runs whenever it is not blocked; the session must
\* end its turn once nothing is owed to it.  Nothing obliges a session that waits
\* for an answer to do anything, nor the network to fail.
ArmBSpec ==
  /\ ArmBInit /\ [][ArmBNext]_armBVars
  /\ WF_armBVars(Driver)
  /\ WF_armBVars(SessionEndsTurn)

\* The same driver before a session of which nothing is assumed.
ArmBSilentSpec == ArmBInit /\ [][ArmBNext]_armBVars /\ WF_armBVars(Driver)

-----------------------------------------------------------------------------
(* Properties.                                                             *)

ArmBTypeOK ==
  /\ pc \in {"start", "created", "streaming", "replying", "closing", "done", "escaped"}
  /\ tw \in Trace
  /\ usage \in Nat /\ streamUsage \in {0, usage} /\ spent \in Nat
  /\ resolutions \in 0..Len(asked)
  /\ nEvents \in 0..(MaxEvents + 1)
  /\ reply \in 0..Len(asked) /\ (reply > 0 <=> pc = "replying")
  /\ error \in BOOLEAN
  /\ left \in {"no", "idle", "ended", "bound", "closed"}
  /\ result \in [depth : Nat, resolutions : Nat, tokens : Nat, retrieved : BOOLEAN,
                 error : BOOLEAN]
  /\ stream \in Seq([type : EventTypes, call : 0..Len(asked)])
  /\ asked \in Seq(ToolNames)
  /\ waiting \subseteq 1..Len(asked)
  /\ emits \in Nat
  /\ session \in {"none", "created", "running", "over"}

\* Nobody waits on everybody, and nobody is left waiting: when the driver blocks on
\* the next event, each call the session still waits on is in the stream, unread; a
\* call once read has been answered, failed and unknown tools included.  An idle that
\* only asks for an answer never ends the loop: it is left on idle only when the
\* session's turn is over and nothing is owed to it.
Unread == {stream[i].call : i \in 1..Len(stream)}
SessionIsServed ==
  /\ pc = "streaming" => waiting \subseteq Unread
  /\ left = "idle" => session = "over" /\ waiting = {}

\* The trace follows the session: its hops are the session's calls, in the order
\* the session made them and none left out; while the driver reads, the calls
\* without a hop are exactly those not yet read, and a run left on idle has left none.
TraceFollowsSession ==
  LET hops == HopTools(tw.events) IN
  /\ WellFormed(tw)
  /\ Len(hops) <= Len(asked) /\ (left = "idle" => Len(hops) = Len(asked))
  /\ \A i \in 1..Len(hops) : hops[i] = SourceOf(asked[i])
  /\ pc \in {"streaming", "replying"} =>
       Cardinality(Unread \ {0}) = Len(asked) - Len(hops)

\* What investigate() returns agrees with the trace it wrote.  A run that did not
\* crash counts as resolutions its registry and rating hops; a crashed one has
\* lost the count, not the hops.
ResultMatchesTrace ==
  pc = "done" =>
    /\ tw.finished /\ tw.turn = 2
    /\ result.depth = Cardinality(Uses(tw.events))
    /\ tw.events[Len(tw.events) - 1].tokens = result.tokens
    /\ result.resolutions =
         IF result.error THEN 0
         ELSE Cardinality({i \in Uses(tw.events) : tw.events[i].tool \in ResolutionTools})

\* The tokens of a run are never more than the session spent, and never fewer
\* than the driver saw on the stream unless the run crashed and the session's own
\* usage could not be had.
TokensNeverOvercounted ==
  pc = "done" =>
    /\ result.tokens <= spent
    /\ (result.error /\ ~result.retrieved) \/ result.tokens >= usage

\* Every investigation ends, with its trace written or an exception to its caller,
\* however the session interleaves its threads' calls.
InvestigationEnds == <>(pc \in {"done", "escaped"})

\* Arm B investigates as every arm does.
Arm == INSTANCE Investigation WITH
  status <- IF pc \in {"start", "done", "escaped"} THEN "idle" ELSE "investigating",
  hops <- HopTools(tw.events),
  reports <- IF pc = "done"
             THEN << [chain |-> HopTools(tw.events), depth |-> result.depth] >> ELSE <<>>

\* The driver of a managed session implements the arms' common specification: each
\* call of the session is one hop of the one investigation, and its result reports
\* those hops.
ArmBIsInvestigation == Arm!InvestigationSpec

\* The comment above _MAX_EVENTS and the wall-clock bound: "Safety bounds so a wedged
\* live session can't hang the eval forever".
WedgedSessionsAreLeft == pc = "streaming" ~> pc # "streaming"

\* The comment above the usage retrieve: it "falls back to the sum accumulated off
\* the stream if the retrieve fails".
FallsBackToStream == (pc = "done" /\ ~result.retrieved) => result.tokens = usage

=============================================================================
