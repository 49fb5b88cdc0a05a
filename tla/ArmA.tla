-------------------------------- MODULE ArmA --------------------------------
(***************************************************************************)
(* Arm A: the orchestrator of agent/orchestrator.py running a batch of     *)
(* fixtures one after the other under one broker (cli.py), its sub-agents' *)
(* tool loops and the ToolRouter of agent/tools.py, with an administrator  *)
(* acting on the broker at any await.                                      *)
(*                                                                         *)
(* One asyncio loop runs all of it, so the code between two awaits is one  *)
(* action.  A tool call awaits once, while its handler runs in a worker    *)
(* thread (asyncio.to_thread): CallTool is the part before, the Handler    *)
(* actions are the part after.  The agent loop itself (agent-core) and the *)
(* model behind it are external: they may call any tool by any name, stop  *)
(* at any time with a good or a bad contract, or raise.                    *)
(***************************************************************************)
EXTENDS Authz, TraceWriter

CONSTANTS
  ExposureTools,    \* EXPOSURE_TOOLS
  ResolutionTools,  \* RESOLUTION_TOOLS
  Ttl,              \* DEFAULT_TOKEN_TTL_SECONDS
  LeadLists,        \* the lead kinds an exposure contract may list
  MaxRuns,          \* fixtures in the batch
  MaxCalls,         \* tool calls one sub-agent makes: turns times calls per turn
  MaxInFlight,      \* calls of one turn the agent loop runs at a time
  MaxAdmin          \* bound of the administrator's acts

LeadKinds == {"uk_company", "rating_subject", "us_facility", "other"}
ResolvableKinds == {"uk_company", "rating_subject"}

ASSUME ArmAAssumption ==
  /\ Agents = {"exposure", "entity_resolution"}
  /\ Sources = ExposureTools \union ResolutionTools
  /\ ExposureTools \intersect ResolutionTools = {}
  /\ Sources \subseteq Tools /\ NoSource \notin Sources
  /\ Scopes = {ExposureTools, ResolutionTools}
  /\ TTLs = {Ttl}
  /\ LeadLists \subseteq Seq(LeadKinds)
  /\ MaxRuns \in Nat /\ MaxCalls \in Nat /\ MaxInFlight \in Nat /\ MaxAdmin \in Nat

VARIABLES
  pc,          \* where investigate() is awaiting; "idle" between fixtures
  run,         \* fixtures begun so far
  tw,          \* the TraceWriter of the current fixture
  turn,        \* the orchestrator's own turn counter
  router,      \* the ToolRouter in use: token, allowed tools, turn
  findings,    \* exposure's contract: recommend_stop and the kinds of its leads
  pending,     \* resolvable leads not yet resolved
  resolutions, \* len(resolutions)
  calls,       \* tool calls whose handler runs in a worker thread
  loopCalls,   \* calls the current sub-agent has made
  failing,     \* a handler's uncaught exception is on its way out of the loop
  lost,        \* history: handlers that raised past call_tool in this run
  logStart,    \* history: length of the audit log when the run began
  results,     \* the AgentRunResults returned, with the trace each wrote
  acts         \* the administrator's acts so far

runVars == <<pc, run, tw, turn, router, findings, pending, resolutions, results>>
loopVars == <<calls, loopCalls, failing, lost, logStart>>
armAVars == <<authzVars, runVars, loopVars, acts>>

NoFindings == [stop |-> FALSE, leads |-> <<>>]
\* The places of the leads that get a resolution loop.
Resolvable(leads) == {i \in 1..Len(leads) : leads[i] \in ResolvableKinds}

-----------------------------------------------------------------------------
(* Minting a router, and the start of a sub-agent's loop.                  *)

Token(agent, scopes, nonce) ==
  [agent_id |-> agent, scopes |-> scopes, issued_at |-> now, ttl |-> Ttl,
   nonce |-> nonce]

\* Faulty variant: the router is built over a token the broker never minted.
NewRouterUnminted(agent, tools, t) ==
  \E n \in Nonces :
    /\ router' = [token |-> Token(agent, tools, n), tools |-> tools, turn |-> t]
    /\ UNCHANGED authzVars

\* Orchestrator._router: a token and a router over the same tools.
NewRouter(agent, tools, t) ==
  \E n \in Nonces :
    /\ MintToken(Token(agent, tools, n))
    /\ router' = [token |-> Token(agent, tools, n), tools |-> tools, turn |-> t]

BeginLoop == loopCalls' = 0

\* Faulty variant: each fixture gets a broker of its own, which knows no revoke.
StartInvestigationFreshBroker ==
  /\ pc = "idle" /\ run < MaxRuns
  /\ run' = run + 1
  /\ tw' = Start(NewTrace)
  /\ turn' = 1
  /\ \E n \in Nonces :
       /\ router' = [token |-> Token("exposure", ExposureTools, n),
                     tools |-> ExposureTools, turn |-> 1]
       /\ minted' = {Token("exposure", ExposureTools, n)}
       /\ audit' = <<MintEvent(Token("exposure", ExposureTools, n))>>
  /\ revokedAgents' = {} /\ revokedNonces' = {} /\ denyList' = {}
  /\ pc' = "exposure"
  /\ findings' = NoFindings /\ pending' = 0 /\ resolutions' = 0
  /\ BeginLoop
  /\ lost' = 0 /\ logStart' = 0
  /\ UNCHANGED <<now, calls, failing, results, acts>>

\* Faulty variant: the batch's fixtures share one trace writer.
StartInvestigationSameWriter ==
  /\ pc = "idle" /\ run < MaxRuns
  /\ run' = run + 1
  /\ tw' = Start(tw)
  /\ turn' = 1
  /\ NewRouter("exposure", ExposureTools, 1)
  /\ pc' = "exposure"
  /\ findings' = NoFindings /\ pending' = 0 /\ resolutions' = 0
  /\ BeginLoop
  /\ lost' = 0 /\ logStart' = Len(audit)
  /\ UNCHANGED <<calls, failing, results, acts>>

StartInvestigation ==
  /\ pc = "idle" /\ run < MaxRuns
  /\ run' = run + 1
  /\ tw' = Start(NewTrace)
  /\ turn' = 1
  /\ NewRouter("exposure", ExposureTools, 1)
  /\ pc' = "exposure"
  /\ findings' = NoFindings /\ pending' = 0 /\ resolutions' = 0
  /\ BeginLoop
  /\ lost' = 0 /\ logStart' = Len(audit)
  /\ UNCHANGED <<calls, failing, results, acts>>

-----------------------------------------------------------------------------
(* Tool calls.                                                             *)

InLoop == pc \in {"exposure", "resolution"}

\* Faulty variant: the handler runs whatever the broker decided.
CallToolUnchecked(tool) ==
  /\ InLoop /\ ~failing
  /\ loopCalls < MaxCalls /\ Cardinality(calls) < MaxInFlight
  /\ Authorize(router.token, tool)
  /\ calls' = IF tool \in router.tools
              THEN calls \union {[tool |-> tool, n |-> loopCalls + 1]} ELSE calls
  /\ loopCalls' = loopCalls + 1
  /\ UNCHANGED <<runVars, failing, lost, logStart, acts>>

\* call_tool up to its await: a refused or unserved call returns its ERROR text
\* to the loop at once and leaves no hop.
CallTool(tool) ==
  /\ InLoop /\ ~failing
  /\ loopCalls < MaxCalls /\ Cardinality(calls) < MaxInFlight
  /\ Authorize(router.token, tool)
  /\ calls' = IF Evaluate(router.token, tool).allowed /\ tool \in router.tools
              THEN calls \union {[tool |-> tool, n |-> loopCalls + 1]} ELSE calls
  /\ loopCalls' = loopCalls + 1
  /\ UNCHANGED <<runVars, failing, lost, logStart, acts>>

\* call_tool after its await: the hop, then the audit of the execution.
HandlerReturns(c) ==
  /\ tw' = RecordHop(tw, c.tool, router.turn)
  /\ Execute(router.token.agent_id, c.tool, "")
  /\ calls' = calls \ {c}
  /\ UNCHANGED <<pc, run, turn, router, findings, pending, resolutions, results,
                 loopCalls, failing, lost, logStart, acts>>

\* Faulty variant: a failed retrieval is audited but leaves no hop.
HandlerFailsUntraced(c) ==
  /\ Execute(router.token.agent_id, c.tool, "retrieval failed")
  /\ calls' = calls \ {c}
  /\ UNCHANGED <<runVars, loopCalls, failing, lost, logStart, acts>>

\* Faulty variant: a failed retrieval returns before the audit.
HandlerFailsUnaudited(c) ==
  /\ tw' = RecordHopError(tw, c.tool, router.turn)
  /\ calls' = calls \ {c}
  /\ UNCHANGED <<authzVars, pc, run, turn, router, findings, pending, resolutions,
                 results, loopCalls, failing, lost, logStart, acts>>

\* HTTPError, ValueError, KeyError and RuntimeError become an error hop.
HandlerFails(c) ==
  /\ tw' = RecordHopError(tw, c.tool, router.turn)
  /\ Execute(router.token.agent_id, c.tool, "retrieval failed")
  /\ calls' = calls \ {c}
  /\ UNCHANGED <<pc, run, turn, router, findings, pending, resolutions, results,
                 loopCalls, failing, lost, logStart, acts>>

\* Anything else leaves call_tool as it came, with neither hop nor audit event;
\* the agent loop may hand it on or turn it into an error for the model.
HandlerRaises(c) ==
  /\ calls' = calls \ {c}
  /\ lost' = lost + 1
  /\ failing' \in {failing, TRUE}
  /\ UNCHANGED <<authzVars, runVars, loopCalls, logStart, acts>>

-----------------------------------------------------------------------------
(* The phases.                                                             *)

\* A loop that is over with nothing in flight and nothing raised.
LoopDone == calls = {} /\ ~failing

\* The next lead's loop, or synthesis; either takes the next turn.
NextPhase(left) ==
  /\ pending' = left
  /\ turn' = turn + 1
  /\ pc' = IF left > 0 THEN "resolution" ELSE "synthesis"

\* Faulty variant: leads are resolved although exposure recommended stopping.
ExposureReturnsIgnoringStop(stop, leads) ==
  /\ pc = "exposure" /\ LoopDone
  /\ findings' = [stop |-> stop, leads |-> leads]
  /\ tw' = RecordTurn(tw, 0)
  /\ NextPhase(Cardinality(Resolvable(leads)))
  /\ NewRouter("entity_resolution", ResolutionTools, turn')
  /\ BeginLoop
  /\ UNCHANGED <<run, resolutions, results, calls, failing, lost, logStart, acts>>

\* run_exposure returns a valid contract.  Unless it recommends stopping, one
\* resolution router is minted for all leads, even when none is resolvable.
ExposureReturns(stop, leads) ==
  /\ pc = "exposure" /\ LoopDone
  /\ findings' = [stop |-> stop, leads |-> leads]
  /\ tw' = RecordTurn(tw, 0)
  /\ NextPhase(IF stop THEN 0 ELSE Cardinality(Resolvable(leads)))
  /\ IF stop THEN UNCHANGED <<authzVars, router>>
     ELSE NewRouter("entity_resolution", ResolutionTools,
                    IF Resolvable(leads) = {} THEN turn ELSE turn')
  /\ BeginLoop
  /\ UNCHANGED <<run, resolutions, results, calls, failing, lost, logStart, acts>>

\* Faulty variant: the router keeps the turn of the first lead.
ResolutionReturnsSameTurn ==
  /\ pc = "resolution" /\ LoopDone
  /\ resolutions' = resolutions + 1
  /\ tw' = RecordTurn(tw, 0)
  /\ NextPhase(pending - 1)
  /\ BeginLoop
  /\ UNCHANGED <<authzVars, run, router, findings, results, calls, failing, lost,
                 logStart, acts>>

\* run_entity_resolution returns a valid finding for the lead.
ResolutionReturns ==
  /\ pc = "resolution" /\ LoopDone
  /\ resolutions' = resolutions + 1
  /\ tw' = RecordTurn(tw, 0)
  /\ NextPhase(pending - 1)
  /\ router' = IF pending > 1 THEN [router EXCEPT !.turn = turn'] ELSE router
  /\ BeginLoop
  /\ UNCHANGED <<authzVars, run, findings, results, calls, failing, lost,
                 logStart, acts>>

\* Faulty variant: the closing turn is not recorded.
ConcludeWithoutTurn(error, stop) ==
  LET done == Finish(tw) IN
  /\ tw' = done
  /\ pc' = "idle"
  /\ results' = Append(results,
       [trace |-> done, depth |-> DepthReached(done), stop |-> stop,
        resolutions |-> resolutions, error |-> error, findings |-> findings])
  /\ calls' = {} /\ failing' = FALSE
  /\ UNCHANGED <<authzVars, run, turn, router, findings, pending, resolutions,
                 loopCalls, lost, logStart, acts>>

\* The common end: record_turn, finish and write, with no await between them.
\* A trace directory that cannot be written ends the whole batch.
Conclude(error, stop) ==
  LET done == Finish(RecordTurn(tw, 0)) IN
  /\ tw' = done
  /\ \/ /\ pc' = "idle"
        /\ results' = Append(results,
             [trace |-> done, depth |-> DepthReached(done), stop |-> stop,
              resolutions |-> resolutions, error |-> error, findings |-> findings])
     \/ pc' = "halted" /\ UNCHANGED results
  /\ calls' = {} /\ failing' = FALSE
  /\ UNCHANGED <<authzVars, run, turn, router, findings, pending, resolutions,
                 loopCalls, lost, logStart, acts>>

SynthesisReturns == pc = "synthesis" /\ Conclude("none", findings.stop)

\* A final text that is no contract, or max_turns reached with none.
ContractFails == InLoop /\ LoopDone /\ Conclude("contract", FALSE)

\* Faulty variant: only contract errors are caught, a crash leaves no trace.
InvestigationCrashesUncaught ==
  /\ pc # "idle" /\ pc # "halted" /\ calls = {}
  /\ pc' = "escaped"
  /\ UNCHANGED <<authzVars, run, tw, turn, router, findings, pending, resolutions,
                 results, loopVars, acts>>

\* The provider, the stream or a handler raised.
InvestigationCrashes ==
  /\ pc # "idle" /\ pc # "halted" /\ calls = {}
  /\ Conclude("crash", FALSE)

-----------------------------------------------------------------------------
(* The administrator, who may act at every await, and the clock.           *)

AdminActs ==
  /\ acts < MaxAdmin /\ acts' = acts + 1
  /\ \/ \E a \in Agents : RevokeAgent(a)
     \/ \E token \in minted : RevokeToken(token)
     \/ \E tool \in Tools : DenyTool(tool)
     \/ \E tool \in denyList : AllowTool(tool)
  /\ UNCHANGED <<runVars, loopVars>>

TimePasses == Tick /\ UNCHANGED <<runVars, loopVars, acts>>

-----------------------------------------------------------------------------

ArmAInit ==
  /\ AuthzInit
  /\ pc = "idle" /\ run = 0 /\ tw = NewTrace /\ turn = 0
  /\ router = [token |-> <<>>, tools |-> {}, turn |-> 0]
  /\ findings = NoFindings /\ pending = 0 /\ resolutions = 0 /\ results = <<>>
  /\ calls = {} /\ loopCalls = 0 /\ failing = FALSE /\ lost = 0 /\ logStart = 0
  /\ acts = 0

Investigate ==
  \/ StartInvestigation
  \/ \E tool \in Tools : CallTool(tool)
  \/ \E c \in calls : HandlerReturns(c) \/ HandlerFails(c) \/ HandlerRaises(c)
  \/ \E stop \in BOOLEAN, leads \in LeadLists : ExposureReturns(stop, leads)
  \/ ResolutionReturns
  \/ SynthesisReturns
  \/ ContractFails
  \/ InvestigationCrashes

ArmANext == Investigate \/ AdminActs \/ TimePasses

\* Fairness is the driver's only: the event loop runs what is ready, a handler's
\* HTTP calls time out, the provider answers or raises, and a loop ends by
\* max_turns.  Nothing is assumed of the administrator or of time.
ArmASpec == ArmAInit /\ [][ArmANext]_armAVars /\ WF_armAVars(Investigate)

-----------------------------------------------------------------------------
(* Properties.                                                             *)

Router == [token : ToolToken, tools : {ExposureTools, ResolutionTools}, turn : Nat]
Call == [tool : Sources, n : 1..MaxCalls]
Findings == [stop : BOOLEAN, leads : LeadLists \union {<<>>}]
Errors == {"none", "contract", "crash"}
AgentRunResult == [trace : Trace, depth : Nat, stop : BOOLEAN, resolutions : Nat,
                   error : Errors, findings : Findings]

ArmATypeOK ==
  /\ AuthzTypeOK
  /\ pc \in {"idle", "exposure", "resolution", "synthesis", "halted"}
  /\ run \in 0..MaxRuns
  /\ tw \in Trace
  /\ turn \in Nat
  /\ run > 0 => router \in Router /\ router.token \in minted
  /\ findings \in Findings
  /\ pending \in Nat /\ resolutions \in Nat
  /\ calls \subseteq Call
  /\ loopCalls \in 0..MaxCalls
  /\ failing \in BOOLEAN
  /\ lost \in Nat /\ logStart \in 0..Len(audit)
  /\ results \in Seq(AgentRunResult)
  /\ acts \in 0..MaxAdmin

\* The broker inside Arm A is the broker of Authz: whatever the orchestrator,
\* the routers and the sub-agents do, its posture survives from one fixture to
\* the next and its log is only ever extended.
ArmAUsesBroker == AuthzSpec

\* Arm A investigates as every arm does.
Arm == INSTANCE Investigation WITH
  status <- IF pc \in {"idle", "halted"} THEN "idle" ELSE "investigating",
  hops <- HopTools(tw.events),
  reports <- [k \in 1..Len(results) |->
                [chain |-> HopTools(results[k].trace.events), depth |-> results[k].depth]]

\* Arm A implements the arms' common specification, over a batch and with calls
\* that overlap: a hop belongs to the fixture whose sub-agent asked for it, and each
\* fixture's result reports its own hops and no other's.
ArmAIsInvestigation == Arm!InvestigationSpec

RunLog == SubSeq(audit, logStart + 1, Len(audit))
ExecutedIn(log) == {i \in 1..Len(log) : log[i].action = "execute"}
Executed(log) ==
  LET executes == Select(log, ExecutedIn(log))
  IN  [n \in 1..Len(executes) |-> [tool |-> executes[n].tool,
                                   ok |-> executes[n].reason = ""]]
Retrieved(events) ==
  LET outcomes == Select(events, Outcomes(events))
  IN  [n \in 1..Len(outcomes) |-> [tool |-> {outcomes[n].tool},
                                   ok |-> outcomes[n].kind = "tool_result"]]

\* The scored trace and the audit log tell one story: the run's execute events
\* and the trace's hops name the same tools with the same outcomes in the same
\* order, and the trace is well formed at every await.
TraceMatchesLog ==
  run > 0 => Executed(RunLog) = Retrieved(tw.events) /\ WellFormed(tw)

GrantedIn(log) == {i \in 1..Len(log) : log[i].action = "authorize" /\ log[i].allowed}

\* Nothing is retrieved without a grant and no grant disappears: each call the
\* broker allowed in this run is executed, still running in its thread, or was
\* lost to an exception call_tool does not catch.
GrantsAreAccounted ==
  run > 0 => Cardinality(GrantedIn(RunLog)) =
             Cardinality(ExecutedIn(RunLog)) + Cardinality(calls) + lost

\* A hop carries the turn of the response that asked for it, which is recorded
\* after it: the orchestrator's own counter never drifts from the trace's.
ResponsesBefore(events, i) == {j \in Responses(events) : j < i}
HopsCarryTheirTurn ==
  \A i \in Uses(tw.events) :
    tw.events[i].turn = Cardinality(ResponsesBefore(tw.events, i)) + 1

\* Branch discipline is enforced, not hoped for: the exposure turn only ever
\* retrieves SEC sources, later turns only registry and rating sources, and when
\* exposure recommends stopping nothing at all is retrieved after its turn.
PhaseDiscipline ==
  \A i \in Uses(tw.events) :
    /\ tw.events[i].turn = 1 <=> tw.events[i].tool \in ExposureTools
    /\ findings.stop => tw.events[i].turn = 1

\* A revoke takes effect on the next call, not on one already running: after an
\* agent's revoke the log holds no more executes of it than calls may run at once.
KillLatency ==
  \A a \in Agents : \A i \in 1..Len(audit) :
    IsAdminRevoke(audit[i], a) =>
      Cardinality({j \in (i + 1)..Len(audit) :
                     audit[j].action = "execute" /\ audit[j].who = {a}}) <= MaxInFlight

\* The leads a contract asks to be resolved.
Wanted(contract) ==
  IF contract.stop THEN 0 ELSE Cardinality(Resolvable(contract.leads))

\* What investigate() returns agrees with the trace it wrote: the trace is
\* finished and well formed, its depth is the number of its hops, and its turns
\* are exposure's, one per resolved lead and the closing one.  Without an error
\* every resolvable lead was resolved, or none where exposure said stop.
ResultsMatchTraces ==
  \A k \in 1..Len(results) :
    LET r == results[k]
        wanted == Wanted(r.findings)
    IN  /\ r.trace.finished /\ WellFormed(r.trace)
        /\ r.depth = Cardinality(Uses(r.trace.events))
        /\ r.trace.turn \in {r.resolutions + 1, r.resolutions + 2}
        /\ r.error = "none" => /\ r.resolutions = wanted
                               /\ r.trace.turn = wanted + 2
                               /\ r.stop = r.findings.stop
        /\ r.error # "none" => ~r.stop /\ r.resolutions <= wanted

\* Every investigation that starts ends: its trace is written and its result
\* returned, or the batch stops because the trace could not be written; refused
\* calls, failing and raising handlers and bad contracts included.
InvestigationsConclude == (pc = "exposure") ~> (pc \in {"idle", "halted"})

\* "Every authorization decision, every tool execution, and every admin
\* revoke/deny is recorded" (agent/audit.py): once nothing is running, each
\* grant of the run has its execute event.
EveryExecutionIsAudited ==
  (run > 0 /\ calls = {}) =>
    Cardinality(GrantedIn(RunLog)) = Cardinality(ExecutedIn(RunLog))

=============================================================================
