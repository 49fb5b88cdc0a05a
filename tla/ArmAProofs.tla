----------------------------- MODULE ArmAProofs -----------------------------
(***************************************************************************)
(* Arm A uses the broker only through its operations, whatever the number  *)
(* of fixtures, tools, calls, leads and admin acts: ArmASpec implements    *)
(* AuthzSpec, and what AuthzProofs shows of the broker alone holds of it   *)
(* inside Arm A.                                                           *)
(*                                                                         *)
(* The step from one to the other is not immediate.  A sub-agent asks with *)
(* the token its router was built over, long after the mint, and the       *)
(* outcome of a call is audited after an await: RouterInv says that the    *)
(* token is then still one the broker minted, for tools of its registry.   *)
(***************************************************************************)
EXTENDS ArmA, AuthzProofs, TraceWriterProofs

Busy == pc \in {"exposure", "resolution", "synthesis"}

RouterInv ==
  /\ AuthzTypeOK
  /\ turn \in Nat
  /\ Busy => router \in [token : minted, tools : SUBSET Sources, turn : Nat]
  /\ calls # {} => Busy
  /\ \A c \in calls : c.tool \in Sources

LEMMA RouterInit == ArmAInit => RouterInv
  BY TypeInit DEF ArmAInit, RouterInv, Busy

\* A new router's token is minted in the same step, and by one of mint's own steps.
LEMMA NewRouterMints ==
  ASSUME NEW agent \in Agents, NEW tools \in {ExposureTools, ResolutionTools},
         NEW t \in Nat, NewRouter(agent, tools, t)
  PROVE  /\ AuthzNext
         /\ router' \in [token : minted', tools : SUBSET Sources, turn : Nat]
<1>1. PICK n \in Nonces :
        /\ MintToken(Token(agent, tools, n))
        /\ router' = [token |-> Token(agent, tools, n), tools |-> tools, turn |-> t]
  BY DEF NewRouter
<1>2. tools \in Scopes /\ tools \subseteq Sources /\ Ttl \in TTLs
  BY ArmAAssumption
<1>3. Mint(agent, tools, Ttl)
  BY <1>1 DEF Mint, Token
<1>4. Token(agent, tools, n) \in minted'
  BY <1>1 DEF MintToken
<1>5. QED
  BY <1>1, <1>2, <1>3, <1>4 DEF AuthzNext

\* Every step of Arm A is a step of the broker or leaves it alone, and keeps
\* RouterInv.
LEMMA ArmAStep ==
  ASSUME RouterInv, [ArmANext]_armAVars
  PROVE  [AuthzNext]_authzVars /\ RouterInv'
<1> USE ArmAAssumption DEF RouterInv
<1> DEFINE KeepsRest == /\ turn' \in Nat
                        /\ Busy' => router' \in [token : minted', tools : SUBSET Sources,
                                                 turn : Nat]
                        /\ calls' # {} => Busy'
                        /\ \A c \in calls' : c.tool \in Sources
<1>a. SUFFICES [AuthzNext]_authzVars /\ KeepsRest
  BY TypeStep
<1>1. CASE StartInvestigation
  <2>1. calls' = {} /\ turn' = 1
    BY <1>1 DEF StartInvestigation, Busy
  <2>2. AuthzNext /\ router' \in [token : minted', tools : SUBSET Sources, turn : Nat]
    BY <1>1, NewRouterMints DEF StartInvestigation
  <2>3. QED
    BY <2>1, <2>2
<1>2. ASSUME NEW tool \in Tools, CallTool(tool)
      PROVE  [AuthzNext]_authzVars /\ KeepsRest
  <2>1. Busy /\ pc' = pc /\ router' = router /\ turn' = turn /\ minted' = minted
    BY <1>2 DEF CallTool, Authorize, InLoop, Busy, runVars
  <2>2. router.token \in minted /\ router.tools \subseteq Sources
    BY <2>1
  <2>3. AuthzNext
    BY <1>2, <2>2 DEF CallTool, AuthzNext
  <2>4. \A c \in calls' : c \in calls \/ c.tool \in Sources
    BY <1>2, <2>2 DEF CallTool
  <2>5. QED
    BY <2>1, <2>2, <2>3, <2>4 DEF Busy
<1>3. ASSUME NEW c \in calls, HandlerReturns(c) \/ HandlerFails(c)
      PROVE  [AuthzNext]_authzVars /\ KeepsRest
  <2>1. Busy /\ pc' = pc /\ router' = router /\ turn' = turn /\ calls' \subseteq calls
    BY <1>3 DEF HandlerReturns, HandlerFails
  <2>2. \E reason \in {"", "retrieval failed"} :
          Execute(router.token.agent_id, c.tool, reason)
    BY <1>3 DEF HandlerReturns, HandlerFails
  <2>3. router.token.agent_id \in Agents /\ c.tool \in Tools
    BY <2>1 DEF AuthzTypeOK, ToolToken
  <2>4. AuthzNext /\ minted' = minted
    BY <2>2, <2>3 DEF AuthzNext, Execute
  <2>5. QED
    BY <2>1, <2>4 DEF Busy
<1>4. ASSUME NEW c \in calls, HandlerRaises(c)
      PROVE  [AuthzNext]_authzVars /\ KeepsRest
  BY <1>4 DEF HandlerRaises, authzVars, runVars, Busy
<1>5. ASSUME NEW stop \in BOOLEAN, NEW leads \in LeadLists, ExposureReturns(stop, leads)
      PROVE  [AuthzNext]_authzVars /\ KeepsRest
  <2>1. Busy /\ calls' = {} /\ turn' = turn + 1
    BY <1>5 DEF ExposureReturns, LoopDone, NextPhase, Busy
  <2>2. CASE stop
    BY <1>5, <2>1, <2>2 DEF ExposureReturns, authzVars
  <2>3. CASE ~stop
    <3>1. PICK t \in Nat : NewRouter("entity_resolution", ResolutionTools, t)
      BY <1>5, <2>1, <2>3 DEF ExposureReturns
    <3>2. QED
      BY <2>1, <3>1, NewRouterMints
  <2>4. QED
    BY <2>2, <2>3
<1>6. CASE ResolutionReturns
  <2>1. Busy /\ calls' = {} /\ turn' = turn + 1 /\ UNCHANGED authzVars
    BY <1>6 DEF ResolutionReturns, LoopDone, NextPhase, Busy
  <2>2. router' \in {router, [router EXCEPT !.turn = turn']}
    BY <1>6 DEF ResolutionReturns
  <2>3. QED
    BY <2>1, <2>2 DEF authzVars
<1>7. ASSUME NEW error, NEW stop, Conclude(error, stop)
      PROVE  [AuthzNext]_authzVars /\ KeepsRest
  BY <1>7 DEF Conclude, authzVars, Busy
<1>8. CASE AdminActs
  <2>1. AuthzNext /\ minted' = minted
    BY <1>8 DEF AdminActs, AuthzNext, AuthzTypeOK, RevokeAgent, RevokeToken, DenyTool,
                AllowTool
  <2>2. QED
    BY <1>8, <2>1 DEF AdminActs, runVars, loopVars, Busy
<1>9. CASE TimePasses
  BY <1>9 DEF TimePasses, Tick, AuthzNext, runVars, loopVars, Busy
<1>10. CASE UNCHANGED armAVars
  BY <1>10 DEF armAVars, authzVars, runVars, loopVars, Busy
<1>11. QED
  BY <1>1, <1>2, <1>3, <1>4, <1>5, <1>6, <1>7, <1>8, <1>9, <1>10
  DEF ArmANext, Investigate, SynthesisReturns, ContractFails, InvestigationCrashes

\* The orchestrator, its routers, its sub-agents and the administrator drive the
\* broker only by its own operations: its log is never rewritten and its posture
\* outlives every fixture of a batch (Orchestrator._router, ToolRouter.call_tool).
THEOREM ArmAImplementsAuthz == ArmASpec => ArmAUsesBroker
<1>1. ArmAInit => AuthzInit
  BY DEF ArmAInit
<1>2. QED
  BY <1>1, RouterInit, ArmAStep, PTL DEF ArmASpec, ArmAUsesBroker, AuthzSpec

\* So an admin revoke wins inside Arm A as well: no call of the agent that comes
\* after it, in this fixture or a later one, is ever granted.
THEOREM ArmAKillIsFinal == ArmASpec => []AdminKillWins
  BY ArmAImplementsAuthz, AdminKillIsFinal DEF ArmAUsesBroker

\* And every retrieval Arm A was granted is explained by a mint in its log that
\* was alive at the time.
THEOREM ArmAGrantsAreExplained == ArmASpec => []LogExplainsGrants
  BY ArmAImplementsAuthz, GrantsAreExplained DEF ArmAUsesBroker

\* And none of them rides on a token revoked or expired: the checks of the router and
\* of the broker both stand between a sub-agent's call and its handler.
THEOREM ArmAGrantsNeedLiveTokens == ArmASpec => GrantsRideLiveTokens
  BY ArmAImplementsAuthz, GrantsNeedLiveTokens DEF ArmAUsesBroker

\* Seen through the broker, a whole batch of investigations is the abstract kill
\* switch: agents are granted calls until they are killed, and never again.
THEOREM ArmAImplementsKillSwitch == ArmASpec => BrokerIsKillSwitch
  BY ArmAImplementsAuthz, BrokerImplementsKillSwitch DEF ArmAUsesBroker

-----------------------------------------------------------------------------
(* The course of an investigation.  ArmATypeOK becomes inductive with what *)
(* ties the phase to the counters, the router and the contract (Phases)    *)
(* and the calls in flight to the router that admitted them (CallsInv).    *)

Phases ==
  /\ run > 0 => Sound(tw)
  /\ Busy => run > 0 /\ ~tw.finished /\ turn = tw.turn + 1
  /\ InLoop => router.turn = turn
  /\ pc = "exposure" => /\ findings = NoFindings /\ resolutions = 0
                        /\ tw.turn = 0 /\ router.tools = ExposureTools
  /\ pc = "resolution" => /\ ~findings.stop /\ pending > 0
                          /\ resolutions + pending = Wanted(findings)
                          /\ tw.turn = resolutions + 1 /\ router.tools = ResolutionTools
  /\ pc = "synthesis" => resolutions = Wanted(findings) /\ tw.turn = resolutions + 1

CallsInv ==
  /\ IsFiniteSet(calls)
  /\ calls # {} => InLoop
  /\ \A c \in calls : c.tool \in router.tools /\ c.n <= loopCalls

ArmAInv == ArmATypeOK /\ Phases /\ CallsInv

LEMMA InvGivesRouter == ArmAInv => RouterInv
<1> SUFFICES ASSUME ArmAInv PROVE RouterInv
  OBVIOUS
<1> USE ArmAAssumption DEF ArmAInv, ArmATypeOK, Phases, CallsInv
<1>1. Busy => router \in [token : minted, tools : SUBSET Sources, turn : Nat]
  BY DEF Router
<1>2. \A c \in calls : c.tool \in Sources
  BY DEF Call
<1>3. QED
  BY <1>1, <1>2 DEF RouterInv, Busy, InLoop

LEMMA LeadsCounted ==
  ASSUME NEW contract \in Findings
  PROVE  /\ Cardinality(Resolvable(contract.leads)) \in Nat
         /\ Wanted(contract) \in Nat
         /\ Resolvable(contract.leads) = {} => Cardinality(Resolvable(contract.leads)) = 0
<1>1. Len(contract.leads) \in Nat
  <2>1. contract.leads \in Seq(LeadKinds)
    <3>1. contract.leads \in LeadLists \/ contract.leads = <<>>
      BY DEF Findings
    <3>2. <<>> \in Seq(LeadKinds)
      OBVIOUS
    <3>3. QED
      BY <3>1, <3>2, ArmAAssumption
  <2>2. QED
    BY <2>1, LenProperties
<1>2. IsFiniteSet(1..Len(contract.leads))
  BY <1>1, FS_Interval
<1>3. Resolvable(contract.leads) \subseteq 1..Len(contract.leads)
  BY DEF Resolvable
<1>4. Cardinality(Resolvable(contract.leads)) \in Nat
  BY <1>2, <1>3, FS_Subset, FS_CardinalityType
<1>5. QED
  BY <1>4, FS_EmptySet DEF Wanted

LEMMA NothingWanted == NoFindings \in Findings /\ Wanted(NoFindings) = 0
<1>1. NoFindings \in Findings
  BY DEF NoFindings, Findings
<1>2. Resolvable(NoFindings.leads) = {}
  BY DEF Resolvable, NoFindings
<1>3. QED
  BY <1>1, <1>2, LeadsCounted DEF NoFindings, Wanted

LEMMA ArmAInvInit == ArmAInit => ArmAInv
<1> SUFFICES ASSUME ArmAInit PROVE ArmAInv
  OBVIOUS
<1>1. AuthzTypeOK
  BY TypeInit DEF ArmAInit
<1>2. NewTrace \in Trace
  BY DEF NewTrace, Trace
<1>3. Len(audit) = 0
  BY DEF ArmAInit, AuthzInit
<1>4. /\ run \in 0..MaxRuns /\ loopCalls \in 0..MaxCalls /\ acts \in 0..MaxAdmin
      /\ logStart \in 0..Len(audit) /\ results \in Seq(AgentRunResult)
  BY <1>3, ArmAAssumption DEF ArmAInit
<1>5. ArmATypeOK
  <2>1. /\ pc \in {"idle", "exposure", "resolution", "synthesis", "halted"}
        /\ tw \in Trace /\ turn \in Nat /\ ~(run > 0) /\ findings \in Findings
        /\ pending \in Nat /\ resolutions \in Nat /\ lost \in Nat
        /\ calls \subseteq Call /\ failing \in BOOLEAN
    <3>1. /\ pc = "idle" /\ run = 0 /\ tw = NewTrace /\ turn = 0
          /\ findings = NoFindings /\ pending = 0 /\ resolutions = 0
          /\ calls = {} /\ failing = FALSE /\ lost = 0
      BY DEF ArmAInit
    <3>2. failing \in BOOLEAN
      BY <3>1, Zenon
    <3>3. tw \in Trace /\ findings \in Findings
      BY <1>2, <3>1, NothingWanted
    <3>4. calls \subseteq Call
      BY <3>1
    <3>5. QED
      BY <3>1, <3>2, <3>3, <3>4
  <2>2. QED
    BY <1>1, <1>4, <2>1 DEF ArmATypeOK
<1>6. Phases /\ CallsInv
  BY FS_EmptySet DEF ArmAInit, Phases, CallsInv, Busy, InLoop
<1>7. QED
  BY <1>5, <1>6 DEF ArmAInv

\* The log a step leaves is at least as long.
LEMMA LogGrows ==
  ASSUME AuthzTypeOK, [AuthzNext]_authzVars
  PROVE  Len(audit) \in Nat /\ Len(audit') \in Nat /\ Len(audit) <= Len(audit')
<1>1. audit \in Seq(AuditEvent) /\ Len(audit) \in Nat
  BY LenProperties DEF AuthzTypeOK
<1>2. CASE Silent
  BY <1>1, <1>2 DEF Silent
<1>3. ASSUME NEW e \in AuditEvent, Record(e) PROVE Len(audit') = Len(audit) + 1
  BY <1>1, <1>3, RecordShape
<1>4. QED
  BY <1>1, <1>2, <1>3, StepShape

\* A new router, and a start.
LEMMA NewRouterType ==
  ASSUME NEW agent \in Agents, NEW tools \in {ExposureTools, ResolutionTools},
         NEW t \in Nat, NewRouter(agent, tools, t), AuthzTypeOK, AuthzTypeOK'
  PROVE  /\ router' \in Router /\ router'.token \in minted'
         /\ router'.tools = tools /\ router'.turn = t /\ router'.token.scopes = tools
         /\ \E token \in ToolToken :
              /\ token.agent_id = agent /\ router'.token = token
              /\ minted' = minted \union {token} /\ Record(MintEvent(token))
              /\ UNCHANGED <<postureVars, now>>
<1>1. PICK n \in Nonces :
        /\ MintToken(Token(agent, tools, n))
        /\ router' = [token |-> Token(agent, tools, n), tools |-> tools, turn |-> t]
  BY DEF NewRouter
<1> DEFINE token == Token(agent, tools, n)
<1>2. /\ token \in minted' /\ minted' = minted \union {token} /\ Record(MintEvent(token))
      /\ UNCHANGED <<postureVars, now>>
  BY <1>1 DEF MintToken
<1>3. token \in ToolToken
  BY <1>2 DEF AuthzTypeOK
<1>4. token.agent_id = agent /\ token.scopes = tools
  BY DEF Token
<1>5. /\ router' = [token |-> token, tools |-> tools, turn |-> t]
  BY <1>1
<1> HIDE DEF token
<1>6. QED
  BY <1>2, <1>3, <1>4, <1>5 DEF Router

LEMMA StartStep ==
  ASSUME ArmAInv, AuthzTypeOK', Len(audit) \in Nat, Len(audit) <= Len(audit'),
         Len(audit') \in Nat, StartInvestigation
  PROVE  ArmAInv'
<1> USE DEF ArmAInv
<1>1. "exposure" \in Agents
  BY ArmAAssumption
<1>2. NewRouter("exposure", ExposureTools, 1)
  BY DEF StartInvestigation
<1>3. /\ router' \in Router /\ router'.token \in minted'
      /\ router'.tools = ExposureTools /\ router'.turn = 1
  BY <1>1, <1>2, NewRouterType DEF ArmATypeOK
<1>4. /\ pc = "idle" /\ run < MaxRuns /\ run' = run + 1 /\ tw' = Start(NewTrace)
      /\ turn' = 1 /\ pc' = "exposure" /\ findings' = NoFindings /\ pending' = 0
      /\ resolutions' = 0 /\ loopCalls' = 0 /\ lost' = 0 /\ logStart' = Len(audit)
      /\ UNCHANGED <<calls, failing, results, acts>>
  BY DEF StartInvestigation, BeginLoop
<1>5. Sound(tw') /\ tw' \in Trace /\ tw'.turn = 0 /\ ~tw'.finished
  BY <1>4, StartShape DEF Sound
<1>6. calls' = {}
  BY <1>4 DEF CallsInv, InLoop
<1>7. run' \in 0..MaxRuns /\ run' > 0 /\ loopCalls' \in 0..MaxCalls
  BY <1>4, ArmAAssumption DEF ArmATypeOK
<1>8. logStart' \in 0..Len(audit')
  BY <1>4
<1>9. ArmATypeOK'
  BY <1>3, <1>4, <1>5, <1>6, <1>7, <1>8, NothingWanted DEF ArmATypeOK
<1>10. Phases'
  BY <1>3, <1>4, <1>5, <1>7, NothingWanted DEF Phases, Busy, InLoop
<1>11. CallsInv'
  BY <1>6, FS_EmptySet DEF CallsInv
<1>12. QED
  BY <1>9, <1>10, <1>11

LEMMA CallStep ==
  ASSUME ArmAInv, AuthzTypeOK', Len(audit) \in Nat, Len(audit) <= Len(audit'),
         Len(audit') \in Nat, NEW tool \in Tools, CallTool(tool)
  PROVE  ArmAInv'
<1> USE DEF ArmAInv
<1>1. /\ InLoop /\ loopCalls < MaxCalls /\ loopCalls' = loopCalls + 1
      /\ UNCHANGED <<pc, run, tw, turn, router, findings, pending, resolutions, results>>
      /\ UNCHANGED <<failing, lost, logStart, acts, minted>>
  BY DEF CallTool, runVars, Authorize
<1>2. PICK new \in SUBSET {[tool |-> tool, n |-> loopCalls + 1]} :
        calls' = calls \union new /\ (new # {} => tool \in router.tools)
  <2> DEFINE call == [tool |-> tool, n |-> loopCalls + 1]
  <2>1. \/ calls' = calls \union {call} /\ tool \in router.tools
        \/ calls' = calls \union {}
    BY DEF CallTool
  <2> HIDE DEF call
  <2>2. QED
    BY <2>1 DEF call
<1>3. run > 0 /\ router \in Router /\ router.token \in minted
  BY <1>1 DEF ArmATypeOK, Phases, InLoop, Busy
<1>4. IsFiniteSet(calls')
  <2>1. IsFiniteSet(new)
    <3>1. IsFiniteSet({[tool |-> tool, n |-> loopCalls + 1]})
      BY FS_Singleton
    <3>2. QED
      BY <3>1, FS_Subset
  <2>2. QED
    BY <1>2, <2>1, FS_Union DEF CallsInv
<1>5. loopCalls' \in 0..MaxCalls /\ loopCalls + 1 \in 1..MaxCalls /\ loopCalls \in Nat
  BY <1>1, ArmAAssumption DEF ArmATypeOK
<1>6. new \subseteq Call
  BY <1>2, <1>3, <1>5, ArmAAssumption DEF Router, Call
<1>7. logStart' \in 0..Len(audit')
  BY <1>1 DEF ArmATypeOK
<1>8. ArmATypeOK'
  BY <1>1, <1>2, <1>3, <1>5, <1>6, <1>7 DEF ArmATypeOK
<1>9. Phases'
  BY <1>1 DEF Phases, Busy, InLoop
<1>10. CallsInv'
  <2>1. \A c \in calls : c.n \in Nat
    BY DEF ArmATypeOK, Call
  <2>2. ASSUME NEW c \in calls' PROVE c.tool \in router.tools /\ c.n <= loopCalls + 1
    BY <1>2, <1>5, <2>1 DEF CallsInv
  <2>3. QED
    BY <1>1, <1>4, <2>2 DEF CallsInv, InLoop
<1>11. QED
  BY <1>8, <1>9, <1>10

LEMMA HopStep ==
  ASSUME ArmAInv, AuthzTypeOK', Len(audit) \in Nat, Len(audit) <= Len(audit'),
         Len(audit') \in Nat, NEW c \in calls, HandlerReturns(c) \/ HandlerFails(c)
  PROVE  /\ ArmAInv' /\ InLoop /\ c.tool \in Sources /\ c.tool \in router.tools
         /\ \E outcome \in {"tool_result", "tool_error"} :
              /\ tw' = Hop(tw, c.tool, router.turn, outcome)
              /\ Hopped(tw, tw', c.tool, router.turn, outcome)
              /\ Record(ExecuteEvent(router.token.agent_id, c.tool,
                          IF outcome = "tool_result" THEN "" ELSE "retrieval failed"))
<1> USE DEF ArmAInv
<1>1. /\ InLoop /\ c.tool \in router.tools
  BY DEF CallsInv
<1>2. /\ calls' = calls \ {c}
      /\ UNCHANGED <<pc, run, turn, router, findings, pending, resolutions, results,
                     loopCalls, failing, lost, logStart, acts, minted>>
  BY DEF HandlerReturns, HandlerFails, Execute
<1>3. PICK outcome \in {"tool_result", "tool_error"} :
        /\ tw' = Hop(tw, c.tool, router.turn, outcome)
        /\ Record(ExecuteEvent(router.token.agent_id, c.tool,
                    IF outcome = "tool_result" THEN "" ELSE "retrieval failed"))
  BY DEF HandlerReturns, HandlerFails, RecordHop, RecordHopError, Execute
<1>4. Sound(tw) /\ ~tw.finished /\ run > 0
  BY <1>1 DEF Phases, Busy, InLoop
<1>5. router \in Router /\ router.token \in minted
  BY <1>4 DEF ArmATypeOK
<1>6. c.tool \in Sources /\ router.turn \in Nat
  BY <1>5 DEF ArmATypeOK, Call, Router
<1>7. Sound(tw') /\ Hopped(tw, tw', c.tool, router.turn, outcome)
  BY <1>3, <1>4, <1>6, HopShape, HopKeepsSound DEF Sound
<1>8. tw' \in Trace /\ tw'.turn = tw.turn /\ tw'.finished = tw.finished
  BY <1>7 DEF Hopped
<1>9. logStart' \in 0..Len(audit')
  BY <1>2 DEF ArmATypeOK
<1>10. ArmATypeOK'
  BY <1>2, <1>5, <1>8, <1>9 DEF ArmATypeOK
<1>11. Phases'
  BY <1>2, <1>7, <1>8 DEF Phases, Busy, InLoop
<1>12. CallsInv'
  <2>1. IsFiniteSet(calls')
    BY <1>2, FS_Subset DEF CallsInv
  <2>2. QED
    BY <1>1, <1>2, <2>1 DEF CallsInv, InLoop
<1>13. QED
  BY <1>1, <1>3, <1>6, <1>7, <1>10, <1>11, <1>12

LEMMA RaiseStep ==
  ASSUME ArmAInv, NEW c \in calls, HandlerRaises(c)
  PROVE  ArmAInv'
<1> USE DEF ArmAInv
<1>1. /\ calls' = calls \ {c} /\ lost' = lost + 1 /\ failing' \in {failing, TRUE}
      /\ UNCHANGED <<authzVars, runVars, loopCalls, logStart, acts>>
  BY DEF HandlerRaises
<1>2. failing' \in BOOLEAN
  <2>1. failing \in BOOLEAN
    BY DEF ArmATypeOK
  <2>2. QED
    BY <1>1, <2>1, Zenon
<1>3. AuthzTypeOK' /\ UNCHANGED <<minted, audit>>
  BY <1>1 DEF ArmATypeOK, AuthzTypeOK, authzVars
<1>4. ArmATypeOK'
  BY <1>1, <1>2, <1>3 DEF ArmATypeOK, runVars
<1>5. Phases'
  BY <1>1 DEF Phases, Busy, InLoop, runVars
<1>6. CallsInv'
  <2>1. IsFiniteSet(calls') /\ InLoop
    BY <1>1, FS_Subset DEF CallsInv
  <2>2. QED
    BY <1>1, <2>1 DEF CallsInv, InLoop, runVars
<1>7. QED
  BY <1>4, <1>5, <1>6

LEMMA ExposureStep ==
  ASSUME ArmAInv, AuthzTypeOK', Len(audit) \in Nat, Len(audit) <= Len(audit'),
         Len(audit') \in Nat, NEW stop \in BOOLEAN, NEW leads \in LeadLists,
         ExposureReturns(stop, leads)
  PROVE  /\ ArmAInv' /\ pc = "exposure" /\ pc' \in {"resolution", "synthesis"}
         /\ TurnTaken(tw, tw', 0) /\ findings' = [stop |-> stop, leads |-> leads]
         /\ calls = {} /\ calls' = {}
<1> USE DEF ArmAInv
<1>1. /\ pc = "exposure" /\ calls = {} /\ findings' = [stop |-> stop, leads |-> leads]
      /\ tw' = RecordTurn(tw, 0) /\ loopCalls' = 0
      /\ UNCHANGED <<run, resolutions, results, calls, failing, lost, logStart, acts>>
  BY DEF ExposureReturns, LoopDone, BeginLoop
<1>2. findings' \in Findings /\ findings'.stop = stop /\ findings'.leads = leads
  BY <1>1 DEF Findings
<1> DEFINE left == IF stop THEN 0 ELSE Cardinality(Resolvable(leads))
<1>3. /\ left = Wanted(findings') /\ left \in Nat
      /\ Resolvable(leads) = {} => Cardinality(Resolvable(leads)) = 0
  BY <1>2, LeadsCounted DEF Wanted
<1>4. pending' = left /\ turn' = turn + 1 /\ pc' = IF left > 0 THEN "resolution" ELSE "synthesis"
  BY DEF ExposureReturns, NextPhase
<1>6. Sound(tw) /\ ~tw.finished /\ turn = tw.turn + 1 /\ run > 0 /\ resolutions = 0
      /\ tw.turn = 0 /\ router \in Router /\ router.token \in minted /\ router.turn = turn
  BY <1>1 DEF Phases, Busy, InLoop, ArmATypeOK
<1>7. Sound(tw') /\ TurnTaken(tw, tw', 0)
  BY <1>1, <1>6, TurnShape, TurnKeepsSound DEF Sound
<1>8. tw' \in Trace /\ tw'.turn = 1 /\ ~tw'.finished /\ turn' = 2
  BY <1>4, <1>6, <1>7 DEF TurnTaken
<1>9. /\ router' \in Router /\ router'.token \in minted'
      /\ pc' = "resolution" => /\ router'.turn = turn' /\ router'.tools = ResolutionTools
                               /\ ~stop
  <2>1. CASE stop
    <3>1. UNCHANGED <<authzVars, router>> /\ left = 0
      BY <2>1 DEF ExposureReturns
    <3>2. QED
      BY <1>4, <1>6, <3>1 DEF authzVars
  <2>2. CASE ~stop
    <3> DEFINE t == IF Resolvable(leads) = {} THEN turn ELSE turn'
    <3>1. NewRouter("entity_resolution", ResolutionTools, t)
      BY <2>2 DEF ExposureReturns
    <3>2. t \in Nat /\ "entity_resolution" \in Agents
      BY <1>6, <1>8, ArmAAssumption DEF ArmATypeOK
    <3>3. /\ router' \in Router /\ router'.token \in minted'
          /\ router'.tools = ResolutionTools /\ router'.turn = t
      BY <3>1, <3>2, NewRouterType DEF ArmATypeOK
    <3>4. pc' = "resolution" => t = turn'
      BY <1>3, <1>4, <2>2
    <3>5. QED
      BY <2>2, <3>3, <3>4
  <2>3. QED
    BY <2>1, <2>2
<1>10. ArmATypeOK'
  <2>1. logStart' \in 0..Len(audit') /\ loopCalls' \in 0..MaxCalls
    BY <1>1, ArmAAssumption DEF ArmATypeOK
  <2>2. pc' \in {"resolution", "synthesis"}
    BY <1>4
  <2>3. QED
    BY <1>1, <1>2, <1>3, <1>4, <1>8, <1>9, <2>1, <2>2 DEF ArmATypeOK
<1>11. Phases'
  <2>1. pc' = "resolution" => pending' > 0 /\ resolutions' + pending' = Wanted(findings')
    BY <1>1, <1>3, <1>4, <1>6
  <2>2. pc' = "synthesis" => resolutions' = Wanted(findings')
    BY <1>1, <1>3, <1>4, <1>6
  <2>3. tw'.turn = resolutions' + 1 /\ turn' = tw'.turn + 1 /\ run' > 0
    BY <1>1, <1>6, <1>8
  <2>4. pc' \in {"resolution", "synthesis"}
    BY <1>4
  <2>5. QED
    BY <1>2, <1>7, <1>8, <1>9, <2>1, <2>2, <2>3, <2>4 DEF Phases, Busy, InLoop
<1>12. CallsInv'
  BY <1>1, FS_EmptySet DEF CallsInv
<1>13. QED
  BY <1>1, <1>4, <1>7, <1>10, <1>11, <1>12

LEMMA ResolutionStep ==
  ASSUME ArmAInv, ResolutionReturns
  PROVE  /\ ArmAInv' /\ pc = "resolution" /\ pc' \in {"resolution", "synthesis"}
         /\ TurnTaken(tw, tw', 0) /\ UNCHANGED <<authzVars, findings>>
         /\ calls = {} /\ calls' = {}
<1> USE DEF ArmAInv
<1>1. /\ pc = "resolution" /\ calls = {} /\ resolutions' = resolutions + 1
      /\ tw' = RecordTurn(tw, 0) /\ loopCalls' = 0
      /\ pending' = pending - 1 /\ turn' = turn + 1
      /\ pc' = IF pending - 1 > 0 THEN "resolution" ELSE "synthesis"
      /\ router' = IF pending > 1 THEN [router EXCEPT !.turn = turn'] ELSE router
      /\ UNCHANGED <<authzVars, run, findings, results, calls, failing, lost, logStart, acts>>
  BY DEF ResolutionReturns, LoopDone, BeginLoop, NextPhase
<1>2. /\ Sound(tw) /\ ~tw.finished /\ turn = tw.turn + 1 /\ run > 0
      /\ ~findings.stop /\ pending > 0 /\ resolutions + pending = Wanted(findings)
      /\ tw.turn = resolutions + 1 /\ router.tools = ResolutionTools /\ router.turn = turn
      /\ router \in Router /\ router.token \in minted
      /\ pending \in Nat /\ resolutions \in Nat /\ turn \in Nat /\ findings \in Findings
  BY <1>1 DEF Phases, Busy, InLoop, ArmATypeOK
<1>3. Sound(tw') /\ TurnTaken(tw, tw', 0)
  BY <1>1, <1>2, TurnShape, TurnKeepsSound DEF Sound
<1>4. tw' \in Trace /\ tw'.turn = tw.turn + 1 /\ ~tw'.finished
  BY <1>2, <1>3 DEF TurnTaken
<1>5. /\ pending' \in Nat /\ resolutions' \in Nat /\ turn' \in Nat
      /\ resolutions' + pending' = Wanted(findings')
      /\ tw'.turn = resolutions' + 1 /\ turn' = tw'.turn + 1
      /\ (pc' = "resolution" => pending' > 0) /\ (pc' = "synthesis" => pending' = 0)
      /\ pc' \in {"resolution", "synthesis"}
  BY <1>1, <1>2, <1>4
<1>6. /\ router' \in Router /\ router'.token \in minted' /\ router'.tools = ResolutionTools
      /\ pc' = "resolution" => router'.turn = turn'
  <2>1. CASE pending > 1
    BY <1>1, <1>2, <1>5, <2>1 DEF Router, authzVars
  <2>2. CASE ~(pending > 1)
    BY <1>1, <1>2, <2>2 DEF authzVars
  <2>3. QED
    BY <2>1, <2>2
<1>7. AuthzTypeOK' /\ UNCHANGED audit
  BY <1>1 DEF ArmATypeOK, AuthzTypeOK, authzVars
<1>8. ArmATypeOK'
  <2>1. loopCalls' \in 0..MaxCalls
    BY <1>1, ArmAAssumption
  <2>2. QED
    BY <1>1, <1>4, <1>5, <1>6, <1>7, <2>1 DEF ArmATypeOK
<1>9. Phases'
  <2>1. pc' = "synthesis" => resolutions' = Wanted(findings')
    BY <1>2, <1>5
  <2>2. QED
    BY <1>1, <1>2, <1>3, <1>4, <1>5, <1>6, <2>1 DEF Phases, Busy, InLoop
<1>10. CallsInv'
  BY <1>1, FS_EmptySet DEF CallsInv
<1>11. QED
  BY <1>1, <1>3, <1>5, <1>8, <1>9, <1>10

LEMMA ConcludeStep ==
  ASSUME ArmAInv, Busy, NEW error \in Errors, NEW stop \in BOOLEAN, Conclude(error, stop)
  PROVE  /\ ArmAInv' /\ pc' \in {"idle", "halted"} /\ Closed(tw, tw')
         /\ UNCHANGED <<authzVars, findings, lost, logStart>> /\ calls' = {}
         /\ \/ UNCHANGED results /\ pc' = "halted"
            \/ pc' = "idle" /\ results' = Append(results,
                 [trace |-> tw', depth |-> DepthReached(tw'), stop |-> stop,
                  resolutions |-> resolutions, error |-> error, findings |-> findings])
<1> USE DEF ArmAInv
<1> DEFINE r == [trace |-> tw', depth |-> DepthReached(tw'), stop |-> stop,
                 resolutions |-> resolutions, error |-> error, findings |-> findings]
<1>1. /\ tw' = Finish(RecordTurn(tw, 0)) /\ calls' = {} /\ failing' = FALSE
      /\ \/ UNCHANGED results /\ pc' = "halted"
         \/ pc' = "idle" /\ results' = Append(results, r)
      /\ UNCHANGED <<authzVars, run, turn, router, findings, pending, resolutions,
                     loopCalls, lost, logStart, acts>>
  BY DEF Conclude
<1>2. Sound(tw) /\ ~tw.finished /\ run > 0
  BY DEF Phases
<1>3. Closed(tw, tw')
  BY <1>1, <1>2, ClosedShape
<1>4. Sound(tw') /\ tw' \in Trace /\ DepthReached(tw') \in Nat
  BY <1>3, TraceType DEF Closed, Sound, DepthReached
<1>5. r \in AgentRunResult
  BY <1>4 DEF AgentRunResult, ArmATypeOK
<1> HIDE DEF r
<1>6. results' \in Seq(AgentRunResult)
  BY <1>1, <1>5 DEF ArmATypeOK
<1>7. failing' \in BOOLEAN
  BY <1>1, Zenon
<1>8. AuthzTypeOK' /\ UNCHANGED <<minted, audit>>
  BY <1>1 DEF ArmATypeOK, AuthzTypeOK, authzVars
<1>9. pc' \in {"idle", "halted"}
  BY <1>1
<1>10. ArmATypeOK'
  BY <1>1, <1>4, <1>6, <1>7, <1>8, <1>9 DEF ArmATypeOK
<1>11. Phases'
  BY <1>1, <1>4, <1>9 DEF Phases, Busy, InLoop
<1>12. CallsInv'
  BY <1>1, FS_EmptySet DEF CallsInv
<1>13. QED
  BY <1>1, <1>3, <1>9, <1>10, <1>11, <1>12 DEF r

\* Neither the administrator nor the clock disturbs the investigation.
LEMMA OtherStep ==
  ASSUME ArmAInv, AuthzTypeOK', Len(audit) \in Nat, Len(audit) <= Len(audit'),
         Len(audit') \in Nat, AdminActs \/ TimePasses \/ UNCHANGED armAVars
  PROVE  ArmAInv' /\ UNCHANGED <<runVars, loopVars>>
<1> USE DEF ArmAInv
<1>1. UNCHANGED <<runVars, loopVars>>
  BY DEF AdminActs, TimePasses, armAVars
<1>2. UNCHANGED minted /\ acts' \in 0..MaxAdmin
  <2>1. CASE AdminActs
    <3>1. UNCHANGED minted
      BY <2>1 DEF AdminActs, RevokeAgent, RevokeToken, DenyTool, AllowTool
    <3>2. acts < MaxAdmin /\ acts' = acts + 1 /\ acts \in 0..MaxAdmin
      BY <2>1 DEF AdminActs, ArmATypeOK
    <3>3. QED
      BY <3>1, <3>2, ArmAAssumption
  <2>2. CASE TimePasses
    BY <2>2 DEF TimePasses, Tick, ArmATypeOK
  <2>3. CASE UNCHANGED armAVars
    BY <2>3 DEF armAVars, authzVars, ArmATypeOK
  <2>4. QED
    BY <2>1, <2>2, <2>3
<1>3. failing' \in BOOLEAN
  BY <1>1 DEF loopVars, ArmATypeOK
<1>4. logStart' \in 0..Len(audit')
  BY <1>1 DEF loopVars, ArmATypeOK
<1>5. ArmATypeOK'
  BY <1>1, <1>2, <1>3, <1>4 DEF ArmATypeOK, runVars, loopVars
<1>6. Phases'
  BY <1>1 DEF Phases, Busy, InLoop, runVars
<1>7. CallsInv'
  BY <1>1 DEF CallsInv, InLoop, runVars, loopVars
<1>8. QED
  BY <1>1, <1>5, <1>6, <1>7

\* What ends an investigation, and with which verdict.
Concluding ==
  \E error \in Errors, stop \in BOOLEAN :
    /\ Busy /\ calls = {} /\ Conclude(error, stop)
    /\ error = "none" => pc = "synthesis" /\ stop = findings.stop
    /\ error # "none" => ~stop

LEMMA HowItEnds ==
  ASSUME ArmAInv, SynthesisReturns \/ ContractFails \/ InvestigationCrashes
  PROVE  Concluding
<1>1. findings.stop \in BOOLEAN /\ (pc = "synthesis" => calls = {})
  BY DEF ArmAInv, ArmATypeOK, Findings, CallsInv, InLoop
<1>2. CASE SynthesisReturns
  BY <1>1, <1>2 DEF SynthesisReturns, Concluding, Errors, Busy
<1>3. CASE ContractFails
  BY <1>3 DEF ContractFails, LoopDone, InLoop, Concluding, Errors, Busy
<1>4. CASE InvestigationCrashes
  BY <1>4 DEF InvestigationCrashes, Concluding, Errors, Busy, ArmAInv, ArmATypeOK
<1>5. QED
  BY <1>2, <1>3, <1>4

\* A step of Arm A is one of these, whatever the broker makes of it.
ArmAStepKinds ==
  \/ StartInvestigation
  \/ \E tool \in Tools : CallTool(tool)
  \/ \E c \in calls : HandlerReturns(c) \/ HandlerFails(c)
  \/ \E c \in calls : HandlerRaises(c)
  \/ \E stop \in BOOLEAN, leads \in LeadLists : ExposureReturns(stop, leads)
  \/ ResolutionReturns
  \/ Concluding
  \/ AdminActs \/ TimePasses \/ UNCHANGED armAVars

LEMMA StepKinds ==
  ASSUME ArmAInv, [ArmANext]_armAVars
  PROVE  /\ ArmAStepKinds /\ [AuthzNext]_authzVars
         /\ AuthzTypeOK /\ AuthzTypeOK' /\ ArmAInv'
         /\ Len(audit) \in Nat /\ Len(audit') \in Nat /\ Len(audit) <= Len(audit')
<1>1. ArmAStepKinds
  BY HowItEnds DEF ArmAStepKinds, ArmANext, Investigate
<1>2. [AuthzNext]_authzVars /\ AuthzTypeOK
  BY InvGivesRouter, ArmAStep DEF ArmAInv, ArmATypeOK
<1>3. AuthzTypeOK'
  BY <1>2, TypeStep
<1>4. Len(audit) \in Nat /\ Len(audit') \in Nat /\ Len(audit) <= Len(audit')
  BY <1>2, LogGrows
<1>5. ArmAInv'
  BY <1>1, <1>3, <1>4, StartStep, CallStep, HopStep, RaiseStep, ExposureStep, ResolutionStep,
     ConcludeStep, OtherStep DEF ArmAStepKinds, Concluding
<1>6. QED
  BY <1>1, <1>2, <1>3, <1>4, <1>5

LEMMA ArmAInvariant == ArmASpec => []ArmAInv
<1>1. ArmAInv /\ [ArmANext]_armAVars => ArmAInv'
  BY StepKinds
<1>2. QED
  BY <1>1, ArmAInvInit, PTL DEF ArmASpec

\* Whatever the batch, the contracts and the calls, the driver's state keeps its
\* types: the router in use holds a token the broker minted, the leads left never
\* count below zero, and every result is complete (Orchestrator.investigate).
THEOREM ArmATypeCorrect == ArmASpec => []ArmATypeOK
  BY ArmAInvariant, PTL DEF ArmAInv

-----------------------------------------------------------------------------
(* The turns of the hops.                                                  *)

\* No retrieval is added or changed, and responses only after the old end.
LEMMA SameUses ==
  ASSUME NEW old \in Trace, NEW new,
         TurnTaken(old, new, 0) \/ Closed(old, new)
  PROVE  /\ Uses(new.events) = Uses(old.events)
         /\ \A i \in Uses(old.events) :
              /\ i \in 1..Len(old.events) /\ new.events[i] = old.events[i]
              /\ ResponsesBefore(new.events, i) = ResponsesBefore(old.events, i)
<1> DEFINE l == Len(old.events)
<1>1. /\ Uses(new.events) = Uses(old.events)
      /\ \A i \in 1..l : new.events[i] = old.events[i]
      /\ Responses(new.events) = Responses(old.events) \union {l + 1}
  BY DEF TurnTaken, Closed
<1>2. l \in Nat /\ \A i \in Uses(old.events) : i \in 1..l
  BY TraceType DEF Uses
<1> HIDE DEF l
<1>3. \A i \in Uses(old.events) :
        ResponsesBefore(new.events, i) = ResponsesBefore(old.events, i)
  BY <1>1, <1>2 DEF ResponsesBefore
<1>4. QED
  BY <1>1, <1>2, <1>3 DEF l

\* What HopsCarryTheirTurn and PhaseDiscipline need to be inductive: while exposure
\* runs, all hops are of its turn, although the contract may yet say stop.
TurnsInv ==
  /\ HopsCarryTheirTurn
  /\ PhaseDiscipline
  /\ pc = "exposure" => \A i \in Uses(tw.events) : tw.events[i].turn = 1

LEMMA TurnsInit == ArmAInit => TurnsInv
<1> SUFFICES ASSUME ArmAInit PROVE TurnsInv
  OBVIOUS
<1>1. tw.events = <<>>
  BY DEF ArmAInit, NewTrace
<1>2. Uses(tw.events) = {}
  BY <1>1 DEF Uses
<1>3. QED
  BY <1>2 DEF TurnsInv, HopsCarryTheirTurn, PhaseDiscipline

LEMMA HopKeepsTurns ==
  ASSUME ArmAInv, TurnsInv, InLoop, NEW s \in router.tools, s \in Sources,
         NEW outcome \in {"tool_result", "tool_error"},
         Hopped(tw, tw', s, router.turn, outcome), UNCHANGED <<pc, findings>>
  PROVE  TurnsInv'
<1> DEFINE e == tw.events
           e2 == tw'.events
           l == Len(e)
<1>1. /\ tw \in Trace /\ Sound(tw) /\ router.turn = tw.turn + 1 /\ ~findings.stop
      /\ tw.turn \in Nat
      /\ pc = "exposure" => tw.turn = 0 /\ s \in ExposureTools
      /\ pc = "resolution" => tw.turn > 0 /\ s \notin ExposureTools
  <2>1. /\ Sound(tw) /\ turn = tw.turn + 1 /\ router.turn = turn
    BY DEF ArmAInv, Phases, InLoop, Busy
  <2>2. tw \in Trace /\ tw.turn \in Nat /\ resolutions \in Nat
    BY TraceType DEF ArmAInv, ArmATypeOK
  <2>3. pc = "exposure" => ~findings.stop /\ tw.turn = 0 /\ s \in ExposureTools
    BY DEF ArmAInv, Phases, NoFindings
  <2>4. pc = "resolution" => ~findings.stop /\ tw.turn = resolutions + 1 /\ s \in ResolutionTools
    BY DEF ArmAInv, Phases
  <2>5. QED
    BY <2>1, <2>2, <2>3, <2>4, ArmAAssumption DEF InLoop
<1>2. /\ l \in Nat /\ \A i \in Uses(e) : i \in 1..l
      /\ \A i \in Responses(e) : i \in 1..l
  BY <1>1, TraceType DEF Uses, Responses
<1>3. /\ \A i \in 1..l : e2[i] = e[i]
      /\ e2[l + 1].turn = router.turn /\ e2[l + 1].tool = s
      /\ Uses(e2) = Uses(e) \union {l + 1} /\ Responses(e2) = Responses(e)
  BY DEF Hopped, TEvent
<1> HIDE DEF e, e2, l
<1>4. ASSUME NEW i \in Uses(e2)
      PROVE  /\ e2[i].turn = Cardinality(ResponsesBefore(e2, i)) + 1
             /\ e2[i].turn = 1 <=> e2[i].tool \in ExposureTools
             /\ pc = "exposure" => e2[i].turn = 1
  <2>1. CASE i \in Uses(e)
    <3>1. e2[i] = e[i] /\ ResponsesBefore(e2, i) = ResponsesBefore(e, i)
      BY <1>2, <1>3, <2>1 DEF ResponsesBefore
    <3>2. QED
      BY <2>1, <3>1 DEF TurnsInv, HopsCarryTheirTurn, PhaseDiscipline, e
  <2>2. CASE i = l + 1
    <3>1. ResponsesBefore(e2, i) = Responses(e)
      BY <1>2, <1>3, <2>2 DEF ResponsesBefore
    <3>2. Cardinality(ResponsesBefore(e2, i)) = tw.turn
      BY <1>1, <3>1 DEF Sound, e
    <3>3. QED
      BY <1>1, <1>3, <2>2, <3>2 DEF InLoop
  <2>3. QED
    BY <1>3, <2>1, <2>2
<1>5. QED
  BY <1>1, <1>4 DEF TurnsInv, HopsCarryTheirTurn, PhaseDiscipline, e2

LEMMA TurnsStep == ArmAInv /\ TurnsInv /\ [ArmANext]_armAVars => TurnsInv'
<1> SUFFICES ASSUME ArmAInv, TurnsInv, [ArmANext]_armAVars PROVE TurnsInv'
  OBVIOUS
<1>a. tw \in Trace
  BY DEF ArmAInv, ArmATypeOK
<1>1. CASE StartInvestigation
  <2>1. Uses(tw'.events) = {}
    BY <1>1, StartShape DEF StartInvestigation
  <2>2. QED
    BY <2>1 DEF TurnsInv, HopsCarryTheirTurn, PhaseDiscipline
<1>2. ASSUME NEW c \in calls, HandlerReturns(c) \/ HandlerFails(c) PROVE TurnsInv'
  <2>1. UNCHANGED <<pc, findings>>
    BY <1>2 DEF HandlerReturns, HandlerFails
  <2>2. QED
    BY <1>2, <2>1, StepKinds, HopStep, HopKeepsTurns
<1>3. ASSUME NEW stop \in BOOLEAN, NEW leads \in LeadLists, ExposureReturns(stop, leads)
      PROVE  TurnsInv'
  <2>1. TurnTaken(tw, tw', 0) /\ pc = "exposure" /\ pc' # "exposure"
    BY <1>3, StepKinds, ExposureStep
  <2>2. QED
    BY <1>a, <2>1, SameUses DEF TurnsInv, HopsCarryTheirTurn, PhaseDiscipline
<1>4. CASE ResolutionReturns
  <2>1. TurnTaken(tw, tw', 0) /\ pc' # "exposure" /\ UNCHANGED findings
    BY <1>4, StepKinds, ResolutionStep
  <2>2. QED
    BY <1>a, <2>1, SameUses DEF TurnsInv, HopsCarryTheirTurn, PhaseDiscipline
<1>5. CASE Concluding
  <2>1. Closed(tw, tw') /\ pc' # "exposure" /\ UNCHANGED findings
    BY <1>5, ConcludeStep DEF Concluding
  <2>2. QED
    BY <1>a, <2>1, SameUses DEF TurnsInv, HopsCarryTheirTurn, PhaseDiscipline
<1>6. CASE UNCHANGED <<pc, tw, findings>>
  BY <1>6 DEF TurnsInv, HopsCarryTheirTurn, PhaseDiscipline
<1>7. ASSUME NEW tool \in Tools, CallTool(tool) PROVE UNCHANGED <<pc, tw, findings>>
  BY <1>7 DEF CallTool, runVars
<1>8. ASSUME NEW c \in calls, HandlerRaises(c) PROVE UNCHANGED <<pc, tw, findings>>
  BY <1>8 DEF HandlerRaises, runVars
<1>9. ASSUME AdminActs \/ TimePasses \/ UNCHANGED armAVars
      PROVE  UNCHANGED <<pc, tw, findings>>
  BY <1>9 DEF AdminActs, TimePasses, armAVars, runVars
<1>10. QED
  BY <1>1, <1>2, <1>3, <1>4, <1>5, <1>6, <1>7, <1>8, <1>9, StepKinds DEF ArmAStepKinds

LEMMA TurnsInvariant == ArmASpec => [](ArmAInv /\ TurnsInv)
  BY ArmAInvariant, TurnsInit, TurnsStep, PTL DEF ArmASpec

\* Whatever the contracts and however many leads: each hop carries the turn of
\* the response that asked for it, which is recorded only after it.
THEOREM ArmAHopsCarryTheirTurn == ArmASpec => []HopsCarryTheirTurn
  BY TurnsInvariant, PTL DEF TurnsInv

\* And each phase retrieves only from its own tools, nothing after a stop.
THEOREM ArmAIsDisciplined == ArmASpec => []PhaseDiscipline
  BY TurnsInvariant, PTL DEF TurnsInv

-----------------------------------------------------------------------------
(* The results.                                                            *)

\* One result, as ResultsMatchTraces asks of each.
ResultMatches(r) ==
  /\ r.trace.finished /\ WellFormed(r.trace)
  /\ r.depth = Cardinality(Uses(r.trace.events))
  /\ r.trace.turn \in {r.resolutions + 1, r.resolutions + 2}
  /\ r.error = "none" => /\ r.resolutions = Wanted(r.findings)
                         /\ r.trace.turn = Wanted(r.findings) + 2
                         /\ r.stop = r.findings.stop
  /\ r.error # "none" => ~r.stop /\ r.resolutions <= Wanted(r.findings)

LEMMA ResultsUnfold ==
  ResultsMatchTraces <=> \A k \in 1..Len(results) : ResultMatches(results[k])
BY DEF ResultsMatchTraces, ResultMatches

LEMMA NewResultMatches ==
  ASSUME ArmAInv, Busy, Closed(tw, tw'), NEW error \in Errors, NEW stop \in BOOLEAN,
         error = "none" => pc = "synthesis" /\ stop = findings.stop,
         error # "none" => ~stop
  PROVE  ResultMatches(
           [trace |-> tw', depth |-> DepthReached(tw'), stop |-> stop,
            resolutions |-> resolutions, error |-> error, findings |-> findings])
<1> DEFINE r == [trace |-> tw', depth |-> DepthReached(tw'), stop |-> stop,
                 resolutions |-> resolutions, error |-> error, findings |-> findings]
<1>1. /\ Sound(tw') /\ tw'.finished /\ tw'.turn = tw.turn + 1
      /\ WellFormed(tw') /\ Cardinality(Uses(tw'.events)) = tw'.tool_calls
  BY DEF Closed, Sound
<1>2. /\ resolutions \in Nat /\ pending \in Nat /\ findings \in Findings
      /\ Wanted(findings) \in Nat /\ Wanted(NoFindings) = 0 /\ tw.turn \in Nat
  BY LeadsCounted, NothingWanted, TraceType DEF ArmAInv, ArmATypeOK
<1>3. /\ tw.turn \in {resolutions, resolutions + 1} /\ resolutions <= Wanted(findings)
      /\ pc = "synthesis" => resolutions = Wanted(findings) /\ tw.turn = resolutions + 1
  <2>1. pc = "exposure" => resolutions = 0 /\ tw.turn = 0
    BY DEF ArmAInv, Phases
  <2>2. pc = "resolution" => tw.turn = resolutions + 1 /\ resolutions + pending = Wanted(findings)
    BY DEF ArmAInv, Phases
  <2>3. pc = "synthesis" => tw.turn = resolutions + 1 /\ resolutions = Wanted(findings)
    BY DEF ArmAInv, Phases
  <2>4. QED
    BY <1>2, <2>1, <2>2, <2>3 DEF Busy
<1>4. tw'.turn \in {resolutions + 1, resolutions + 2}
  BY <1>1, <1>2, <1>3
<1>5. pc = "synthesis" => tw'.turn = Wanted(findings) + 2
  BY <1>1, <1>2, <1>3
<1>6. /\ r.trace = tw' /\ r.depth = tw'.tool_calls /\ r.stop = stop
      /\ r.resolutions = resolutions /\ r.error = error /\ r.findings = findings
  BY DEF DepthReached
<1> HIDE DEF r
<1>7. ResultMatches(r)
  BY <1>1, <1>3, <1>4, <1>5, <1>6 DEF ResultMatches
<1>8. QED
  BY <1>7 DEF r

LEMMA ResultsStep ==
  ArmAInv /\ ResultsMatchTraces /\ [ArmANext]_armAVars => ResultsMatchTraces'
<1> SUFFICES ASSUME ArmAInv, ResultsMatchTraces, [ArmANext]_armAVars
             PROVE  ResultsMatchTraces'
  OBVIOUS
<1>1. CASE UNCHANGED results
  BY <1>1 DEF ResultsMatchTraces
<1>2. CASE Concluding
  <2>1. PICK error \in Errors, stop \in BOOLEAN :
          /\ Busy /\ Conclude(error, stop)
          /\ error = "none" => pc = "synthesis" /\ stop = findings.stop
          /\ error # "none" => ~stop
    BY <1>2 DEF Concluding
  <2> DEFINE r == [trace |-> tw', depth |-> DepthReached(tw'), stop |-> stop,
                   resolutions |-> resolutions, error |-> error, findings |-> findings]
  <2>2. ResultMatches(r)
    BY <2>1, ConcludeStep, NewResultMatches
  <2>3. CASE results' = Append(results, r)
    <3> HIDE DEF r
    <3>1. results \in Seq(AgentRunResult) /\ results' \in Seq(AgentRunResult)
      BY StepKinds DEF ArmAInv, ArmATypeOK
    <3>2. /\ Len(results) \in Nat /\ Len(results') = Len(results) + 1
          /\ \A k \in 1..Len(results) : results'[k] = results[k]
          /\ results'[Len(results) + 1] = r
      BY <2>3, <3>1
    <3>3. \A k \in 1..(Len(results) + 1) : k \in 1..Len(results) \/ k = Len(results) + 1
      BY <3>2
    <3>4. \A k \in 1..Len(results') : ResultMatches(results'[k])
      BY <2>2, <3>2, <3>3, ResultsUnfold
    <3>5. QED
      BY <3>4 DEF ResultsMatchTraces, ResultMatches
  <2>4. QED
    BY <1>1, <2>1, <2>3, ConcludeStep
<1>3. ~Concluding => UNCHANGED results
  <2>1. StartInvestigation => UNCHANGED results
    BY DEF StartInvestigation
  <2>2. \A tool \in Tools : CallTool(tool) => UNCHANGED results
    BY DEF CallTool, runVars
  <2>3. \A c \in calls : HandlerReturns(c) \/ HandlerFails(c) \/ HandlerRaises(c) => UNCHANGED results
    BY DEF HandlerReturns, HandlerFails, HandlerRaises, runVars
  <2>4. \A stop \in BOOLEAN, leads \in LeadLists : ExposureReturns(stop, leads) => UNCHANGED results
    BY DEF ExposureReturns
  <2>5. ResolutionReturns \/ AdminActs \/ TimePasses \/ UNCHANGED armAVars => UNCHANGED results
    BY DEF ResolutionReturns, AdminActs, TimePasses, armAVars, runVars
  <2>6. QED
    BY <2>1, <2>2, <2>3, <2>4, <2>5, StepKinds DEF ArmAStepKinds
<1>4. QED
  BY <1>1, <1>2, <1>3

\* What investigate() returns always agrees with the trace it wrote, for every
\* way a run can end and every batch.
THEOREM ArmAResultsMatchTraces == ArmASpec => []ResultsMatchTraces
<1>1. ArmAInit => ResultsMatchTraces
  BY DEF ArmAInit, ResultsMatchTraces
<1>2. QED
  BY <1>1, ArmAInvariant, ResultsStep, PTL DEF ArmASpec

-----------------------------------------------------------------------------
(* Arm A implements Investigation: what is seen of it is whether it        *)
(* investigates, the chain of the current trace and the reports so far.    *)

Seen == IF pc \in {"idle", "halted"} THEN "idle" ELSE "investigating"
Chain == HopTools(tw.events)
Reported ==
  [k \in 1..Len(results) |->
     [chain |-> HopTools(results[k].trace.events), depth |-> results[k].depth]]

LEMMA UnseenStep ==
  ASSUME UNCHANGED <<Seen, Chain, Reported>>
  PROVE  UNCHANGED Arm!investigationVars
BY DEF Seen, Chain, Reported, Arm!investigationVars

\* The chain of a trace is as long as the depth its writer reports.
LEMMA DepthIsChainLength ==
  ASSUME NEW t, Sound(t)
  PROVE  Len(HopTools(t.events)) = DepthReached(t)
<1>1. t.events \in Seq(TraceEvent)
  BY TraceType DEF Sound
<1>2. QED
  BY <1>1, HopToolsType DEF Sound, DepthReached

LEMMA ReportedGrows ==
  ASSUME NEW r \in AgentRunResult, results \in Seq(AgentRunResult), results' = Append(results, r)
  PROVE  Reported' = Append(Reported, [chain |-> HopTools(r.trace.events), depth |-> r.depth])
<1> DEFINE R == [chain : Seq(Sources \union {NoSource}), depth : Nat]
           Report(x) == [chain |-> HopTools(x.trace.events), depth |-> x.depth]
           n == Len(results)
<1>1. \A x \in AgentRunResult : Report(x) \in R
  <2> TAKE x \in AgentRunResult
  <2>1. x.trace \in Trace /\ x.depth \in Nat
    BY DEF AgentRunResult
  <2>2. HopTools(x.trace.events) \in Seq(Sources \union {NoSource})
    BY <2>1, TraceType, HopToolsType
  <2>3. QED
    BY <2>1, <2>2
<1>2. /\ n \in Nat /\ Len(results') = n + 1 /\ results'[n + 1] = r
      /\ \A k \in 1..n : results'[k] = results[k] /\ results[k] \in AgentRunResult
  BY AppendProperties, LenProperties, ElementOfSeq
<1> HIDE DEF R, n
<1>3. Reported = [k \in 1..n |-> Report(results[k])]
  BY DEF Reported, n
<1>4. Reported' = [k \in 1..(n + 1) |-> Report(results'[k])]
  BY <1>2 DEF Reported
<1>5. \A k \in 1..n : results[k] \in AgentRunResult /\ results'[k] = results[k]
  BY <1>2
<1> HIDE DEF Report
<1>6. /\ Reported = [k \in 1..n |-> Reported[k]]
      /\ \A k \in 1..n : Reported[k] = Report(results[k]) /\ Reported[k] \in R
  BY <1>1, <1>3, <1>5
<1>7. /\ Reported' = [k \in 1..(n + 1) |-> Reported'[k]]
      /\ \A k \in 1..(n + 1) : Reported'[k] = Report(results'[k])
  BY <1>4
<1>8. /\ n + 1 \in 1..(n + 1) /\ \A k \in 1..n : k \in 1..(n + 1)
  BY <1>2
<1>9. /\ \A k \in 1..n : Reported'[k] = Reported[k]
      /\ Reported'[n + 1] = Report(r) /\ Report(r) \in R
  BY <1>1, <1>2, <1>6, <1>7, <1>8
<1>10. Reported' = Append(Reported, Reported'[n + 1])
  BY <1>2, <1>6, <1>7, <1>9, LastPlace
<1>11. QED
  BY <1>9, <1>10 DEF Report

LEMMA InvestigationStep ==
  ASSUME ArmAInv, [ArmANext]_armAVars
  PROVE  [Arm!InvestigationNext]_(Arm!investigationVars)
<1>a. /\ tw \in Trace /\ results \in Seq(AgentRunResult) /\ results' \in Seq(AgentRunResult)
      /\ pc \in {"idle", "exposure", "resolution", "synthesis", "halted"}
  BY StepKinds DEF ArmAInv, ArmATypeOK
<1> USE DEF Arm!InvestigationNext
<1>1. CASE StartInvestigation
  <2>1. Chain' = <<>>
    BY <1>1, StartShape DEF StartInvestigation, Chain
  <2>2. Seen = "idle" /\ Seen' = "investigating" /\ Reported' = Reported
    BY <1>1 DEF StartInvestigation, Seen, Reported
  <2>3. Arm!Begin
    BY <2>1, <2>2 DEF Arm!Begin, Seen, Chain, Reported
  <2>4. QED
    BY <2>3
<1>2. ASSUME NEW c \in calls, HandlerReturns(c) \/ HandlerFails(c)
      PROVE  \E source \in Sources : Arm!TakeHop(source)
  <2>1. UNCHANGED <<pc, results>>
    BY <1>2 DEF HandlerReturns, HandlerFails
  <2>2. InLoop /\ c.tool \in Sources /\ Chain' = Append(Chain, c.tool)
    BY <1>2, StepKinds, HopStep DEF Hopped, Chain
  <2>3. Seen = "investigating" /\ Seen' = Seen /\ Reported' = Reported
    BY <2>1, <2>2 DEF Seen, Reported, InLoop
  <2>4. Arm!TakeHop(c.tool)
    BY <2>2, <2>3 DEF Arm!TakeHop, Seen, Chain, Reported
  <2>5. QED
    BY <2>2, <2>4
<1>3. CASE Concluding
  <2>1. PICK error \in Errors, stop \in BOOLEAN : Busy /\ Conclude(error, stop)
    BY <1>3 DEF Concluding
  <2> DEFINE r == [trace |-> tw', depth |-> DepthReached(tw'), stop |-> stop,
                   resolutions |-> resolutions, error |-> error, findings |-> findings]
  <2>2. /\ pc' \in {"idle", "halted"} /\ Closed(tw, tw')
        /\ \/ UNCHANGED results
           \/ pc' = "idle" /\ results' = Append(results, r)
    BY <2>1, ConcludeStep
  <2>3. Sound(tw') /\ Chain' = Chain
    BY <2>2 DEF Closed, Chain
  <2>4. DepthReached(tw') = Len(Chain)
    BY <2>3, DepthIsChainLength DEF Chain
  <2>5. Seen = "investigating" /\ Seen' = "idle"
    BY <2>1, <2>2 DEF Seen, Busy
  <2>6. CASE UNCHANGED results
    <3>1. Reported' = Reported
      BY <2>6 DEF Reported
    <3>2. Arm!GiveUp
      BY <2>3, <2>5, <3>1 DEF Arm!GiveUp, Seen, Chain, Reported
    <3>3. QED
      BY <3>2
  <2>7. CASE results' = Append(results, r)
    <3>1. r \in AgentRunResult
      <4>1. tw' \in Trace /\ DepthReached(tw') \in Nat
        BY <2>3, TraceType DEF Sound, DepthReached
      <4>2. QED
        BY <4>1 DEF AgentRunResult, ArmAInv, ArmATypeOK
    <3>2. r.trace = tw' /\ r.depth = DepthReached(tw')
      OBVIOUS
    <3> HIDE DEF r
    <3>3. Reported' = Append(Reported, [chain |-> Chain, depth |-> Len(Chain)])
      BY <1>a, <2>3, <2>4, <2>7, <3>1, <3>2, ReportedGrows DEF Chain
    <3>4. Arm!Report
      BY <2>3, <2>5, <3>3 DEF Arm!Report, Seen, Chain, Reported
    <3>5. QED
      BY <3>4
  <2>8. QED
    BY <2>2, <2>6, <2>7
<1>4. ASSUME NEW stop \in BOOLEAN, NEW leads \in LeadLists, ExposureReturns(stop, leads)
      PROVE  UNCHANGED <<Seen, Chain, Reported>>
  <2>1. TurnTaken(tw, tw', 0) /\ pc = "exposure" /\ pc' \in {"resolution", "synthesis"}
    BY <1>4, StepKinds, ExposureStep
  <2>2. UNCHANGED results
    BY <1>4 DEF ExposureReturns
  <2>3. QED
    BY <2>1, <2>2 DEF TurnTaken, Seen, Chain, Reported
<1>5. ASSUME ResolutionReturns PROVE UNCHANGED <<Seen, Chain, Reported>>
  <2>1. TurnTaken(tw, tw', 0) /\ pc = "resolution" /\ pc' \in {"resolution", "synthesis"}
    BY <1>5, StepKinds, ResolutionStep
  <2>2. UNCHANGED results
    BY <1>5 DEF ResolutionReturns
  <2>3. QED
    BY <2>1, <2>2 DEF TurnTaken, Seen, Chain, Reported
<1>6. ASSUME UNCHANGED <<pc, tw, results>> PROVE UNCHANGED <<Seen, Chain, Reported>>
  BY <1>6 DEF Seen, Chain, Reported
<1>7. ASSUME NEW tool \in Tools, CallTool(tool) PROVE UNCHANGED <<pc, tw, results>>
  BY <1>7 DEF CallTool, runVars
<1>8. ASSUME NEW c \in calls, HandlerRaises(c) PROVE UNCHANGED <<pc, tw, results>>
  BY <1>8 DEF HandlerRaises, runVars
<1>9. ASSUME AdminActs \/ TimePasses \/ UNCHANGED armAVars
      PROVE  UNCHANGED <<pc, tw, results>>
  BY <1>9 DEF AdminActs, TimePasses, armAVars, runVars
<1>10. QED
  BY <1>1, <1>2, <1>3, <1>4, <1>5, <1>6, <1>7, <1>8, <1>9, StepKinds, UnseenStep DEF ArmAStepKinds

\* Arm A implements the arms' common specification: a hop belongs to the fixture
\* whose sub-agent asked for it, and each result reports its own run's hops, all
\* of them, in order, and their number.
THEOREM ArmAImplementsInvestigation == ArmASpec => ArmAIsInvestigation
<1>1. ArmAInit => Arm!InvestigationInit
  <2> SUFFICES ASSUME ArmAInit PROVE Arm!InvestigationInit
    OBVIOUS
  <2>1. pc = "idle" /\ tw.events = <<>> /\ results = <<>>
    BY DEF ArmAInit, NewTrace
  <2>2. HopTools(tw.events) = <<>>
    <3>1. Uses(tw.events) = {} /\ tw.events \in Seq(TraceEvent)
      BY <2>1 DEF Uses
    <3>2. HopTools(tw.events) \in Seq(Sources \union {NoSource}) /\ Len(HopTools(tw.events)) = 0
      BY <3>1, HopToolsType, FS_EmptySet
    <3>3. QED
      BY <3>2, EmptySeq
  <2>3. Reported = <<>>
    BY <2>1 DEF Reported
  <2>4. QED
    BY <2>1, <2>2, <2>3 DEF Arm!InvestigationInit, Reported
<1>2. ArmAInv /\ [ArmANext]_armAVars => [Arm!InvestigationNext]_(Arm!investigationVars)
  BY InvestigationStep
<1>3. QED
  BY <1>1, <1>2, ArmAInvariant, PTL DEF ArmASpec, ArmAIsInvestigation, Arm!InvestigationSpec

=============================================================================
