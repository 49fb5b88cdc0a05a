---------------------------- MODULE AuthzProofs ----------------------------
(***************************************************************************)
(* What holds of the authority broker for every set of agents, tools,      *)
(* scopes and lifetimes and every length of its log.                       *)
(*                                                                         *)
(* AdminKillWins and LogExplainsGrants speak of the log only; they become  *)
(* inductive with the three facts of LogInv that tie the log to the state  *)
(* decisions are taken from.                                               *)
(***************************************************************************)
EXTENDS Authz, TLAPS

\* An admin revoke in the log is in force.
KillInForce ==
  \A a \in Agents : \A i \in 1..Len(audit) :
    IsAdminRevoke(audit[i], a) => a \in revokedAgents

\* The log is not ahead of the clock.
LogInThePast == \A i \in 1..Len(audit) : audit[i].ts <= now

\* Every token has its mint in the log, and was issued in the past.
IsMintOf(e, token) ==
  /\ e.action = "mint" /\ e.who = {token.agent_id}
  /\ e.lease = [scopes |-> token.scopes, ttl |-> token.ttl]
  /\ e.ts = token.issued_at

TokensAreLogged ==
  \A token \in minted : \E i \in 1..Len(audit) : IsMintOf(audit[i], token)

LogInv == KillInForce /\ LogInThePast /\ TokensAreLogged

-----------------------------------------------------------------------------
(* The shape of a step.                                                    *)

LEMMA EvaluateType ==
  ASSUME NEW token \in ToolToken, NEW tool \in Tools
  PROVE  Evaluate(token, tool) \in Decision
  BY DEF Evaluate, Kill, Refuse, Permit, Decision, Reasons

\* A decision that allows, or that is no admin kill, is about a live agent.
LEMMA EvaluateKilled ==
  ASSUME NEW token \in ToolToken, NEW tool \in Tools,
         token.agent_id \in revokedAgents
  PROVE  ~Evaluate(token, tool).allowed /\ Evaluate(token, tool).revoked
  BY DEF Evaluate, Kill

LEMMA EvaluateAllowed ==
  ASSUME NEW token \in ToolToken, NEW tool \in Tools,
         Evaluate(token, tool).allowed
  PROVE  /\ token.agent_id \notin revokedAgents
         /\ token.nonce \notin revokedNonces
         /\ tool \notin denyList
         /\ ~Expired(token)
         /\ tool \in token.scopes
  BY DEF Evaluate, Kill, Refuse, Permit

LEMMA TypeInit == AuthzInit => AuthzTypeOK
  BY DEF AuthzInit, AuthzTypeOK

\* Every audit event the broker can write is well formed.
LEMMA EventTypes ==
  ASSUME AuthzTypeOK
  PROVE  /\ \A token \in ToolToken : MintEvent(token) \in AuditEvent
         /\ \A token \in ToolToken, tool \in Tools :
              AuthorizeEvent(token.agent_id, tool, Evaluate(token, tool)) \in AuditEvent
         /\ \A a \in Agents, tool \in Tools, reason \in {"", "retrieval failed"} :
              ExecuteEvent(a, tool, reason) \in AuditEvent
         /\ \A who \in SUBSET Agents, tool \in SUBSET Tools,
               action \in {"revoke_agent", "deny_tool"},
               reason \in {"admin revoke", "token revoke", "admin deny"} :
              AdminEvent(who, action, tool, reason) \in AuditEvent
<1> USE AuthzAssumption DEF AuthzTypeOK, AuditEvent, AuditActions, Reasons, NoLease
<1>1. \A token \in ToolToken : MintEvent(token) \in AuditEvent
  BY DEF MintEvent, ToolToken
<1>2. \A token \in ToolToken, tool \in Tools :
        AuthorizeEvent(token.agent_id, tool, Evaluate(token, tool)) \in AuditEvent
  BY EvaluateType DEF AuthorizeEvent, ToolToken, Decision
<1>3. \A a \in Agents, tool \in Tools, reason \in {"", "retrieval failed"} :
        ExecuteEvent(a, tool, reason) \in AuditEvent
  BY DEF ExecuteEvent
<1>4. \A who \in SUBSET Agents, tool \in SUBSET Tools,
         action \in {"revoke_agent", "deny_tool"},
         reason \in {"admin revoke", "token revoke", "admin deny"} :
        AdminEvent(who, action, tool, reason) \in AuditEvent
  BY DEF AdminEvent
<1>5. QED
  BY <1>1, <1>2, <1>3, <1>4

\* Recording an event lengthens the log by it and rewrites nothing.
LEMMA RecordShape ==
  ASSUME audit \in Seq(AuditEvent), NEW e \in AuditEvent, Record(e)
  PROVE  /\ audit' \in Seq(AuditEvent)
         /\ Len(audit') = Len(audit) + 1
         /\ \A i \in 1..Len(audit) : audit'[i] = audit[i]
         /\ audit'[Len(audit) + 1] = e
  BY DEF Record

\* The decomposition of a broker step every proof below goes by: it either
\* leaves the log alone and changes the clock or lifts a deny, or it records
\* one event.
Silent ==
  /\ UNCHANGED <<revokedAgents, revokedNonces, minted, audit>>
  /\ \/ now' = now + 1 /\ UNCHANGED denyList
     \/ (\E tool \in Tools : denyList' = denyList \ {tool}) /\ UNCHANGED now
     \/ UNCHANGED <<denyList, now>>

Mints(e) ==
  \E token \in ToolToken :
    /\ token.issued_at = now
    /\ minted' = minted \union {token}
    /\ e = MintEvent(token)
    /\ UNCHANGED <<revokedAgents, revokedNonces, denyList, now>>

Decides(e) ==
  \E token \in minted, tool \in Tools :
    /\ e = AuthorizeEvent(token.agent_id, tool, Evaluate(token, tool))
    /\ UNCHANGED <<revokedAgents, revokedNonces, denyList, minted, now>>

Executes(e) ==
  \E a \in Agents, tool \in Tools, reason \in {"", "retrieval failed"} :
    /\ e = ExecuteEvent(a, tool, reason)
    /\ UNCHANGED <<revokedAgents, revokedNonces, denyList, minted, now>>

Kills(e) ==
  /\ UNCHANGED <<minted, now>>
  /\ \/ \E a \in Agents :
          /\ revokedAgents' = revokedAgents \union {a}
          /\ e = AdminEvent({a}, "revoke_agent", {}, "admin revoke")
          /\ UNCHANGED <<revokedNonces, denyList>>
     \/ \E token \in minted :
          /\ revokedNonces' = revokedNonces \union {token.nonce}
          /\ e = AdminEvent({token.agent_id}, "revoke_agent", {}, "token revoke")
          /\ UNCHANGED <<revokedAgents, denyList>>
     \/ \E tool \in Tools :
          /\ denyList' = denyList \union {tool}
          /\ e = AdminEvent({}, "deny_tool", {tool}, "admin deny")
          /\ UNCHANGED <<revokedAgents, revokedNonces>>

LEMMA StepShape ==
  ASSUME AuthzTypeOK, [AuthzNext]_authzVars
  PROVE  Silent \/ \E e \in AuditEvent :
                     Record(e) /\ (Mints(e) \/ Decides(e) \/ Executes(e) \/ Kills(e))
<1> USE DEF AuthzTypeOK
<1>1. ASSUME NEW a \in Agents, NEW s \in Scopes, NEW ttl \in TTLs, Mint(a, s, ttl)
      PROVE  \E e \in AuditEvent : Record(e) /\ Mints(e)
  <2>1. PICK n \in Nonces :
          MintToken([agent_id |-> a, scopes |-> s, issued_at |-> now,
                     ttl |-> ttl, nonce |-> n])
    BY <1>1 DEF Mint
  <2> DEFINE token == [agent_id |-> a, scopes |-> s, issued_at |-> now,
                       ttl |-> ttl, nonce |-> n]
  <2>2. token \in ToolToken
    BY DEF ToolToken
  <2>3. MintEvent(token) \in AuditEvent
    BY <2>2, EventTypes
  <2>4. Record(MintEvent(token)) /\ Mints(MintEvent(token))
    BY <2>1, <2>2 DEF MintToken, Mints, postureVars
  <2>5. QED
    BY <2>3, <2>4
<1>2. ASSUME NEW token \in minted, NEW tool \in Tools, Authorize(token, tool)
      PROVE  \E e \in AuditEvent : Record(e) /\ Decides(e)
  <2> DEFINE e == AuthorizeEvent(token.agent_id, tool, Evaluate(token, tool))
  <2>1. e \in AuditEvent
    BY EventTypes
  <2>2. Record(e) /\ Decides(e)
    BY <1>2 DEF Authorize, Decides, postureVars
  <2>3. QED
    BY <2>1, <2>2
<1>3. ASSUME NEW a \in Agents, NEW tool \in Tools,
             NEW reason \in {"", "retrieval failed"}, Execute(a, tool, reason)
      PROVE  \E e \in AuditEvent : Record(e) /\ Executes(e)
  <2>1. ExecuteEvent(a, tool, reason) \in AuditEvent
    BY EventTypes
  <2>2. QED
    BY <1>3, <2>1 DEF Execute, Executes, postureVars
<1>4. ASSUME NEW a \in Agents, RevokeAgent(a)
      PROVE  \E e \in AuditEvent : Record(e) /\ Kills(e)
  <2>1. AdminEvent({a}, "revoke_agent", {}, "admin revoke") \in AuditEvent
    BY EventTypes
  <2>2. QED
    BY <1>4, <2>1 DEF RevokeAgent, Kills
<1>5. ASSUME NEW token \in minted, RevokeToken(token)
      PROVE  \E e \in AuditEvent : Record(e) /\ Kills(e)
  <2>1. {token.agent_id} \in SUBSET Agents
    BY DEF ToolToken
  <2>2. AdminEvent({token.agent_id}, "revoke_agent", {}, "token revoke") \in AuditEvent
    BY <2>1, EventTypes
  <2>3. QED
    BY <1>5, <2>2 DEF RevokeToken, Kills
<1>6. ASSUME NEW tool \in Tools, DenyTool(tool)
      PROVE  \E e \in AuditEvent : Record(e) /\ Kills(e)
  <2>1. AdminEvent({}, "deny_tool", {tool}, "admin deny") \in AuditEvent
    BY EventTypes
  <2>2. QED
    BY <1>6, <2>1 DEF DenyTool, Kills
<1>7. ASSUME NEW tool \in Tools, AllowTool(tool)
      PROVE  Silent
  BY <1>7 DEF AllowTool, Silent
<1>8. ASSUME Tick PROVE Silent
  BY <1>8 DEF Tick, Silent, postureVars
<1>9. ASSUME UNCHANGED authzVars PROVE Silent
  BY <1>9 DEF authzVars, Silent
<1>10. QED
  BY <1>1, <1>2, <1>3, <1>4, <1>5, <1>6, <1>7, <1>8, <1>9 DEF AuthzNext

LEMMA TypeStep == AuthzTypeOK /\ [AuthzNext]_authzVars => AuthzTypeOK'
<1> SUFFICES ASSUME AuthzTypeOK, [AuthzNext]_authzVars PROVE AuthzTypeOK'
  OBVIOUS
<1> USE DEF AuthzTypeOK
<1>1. CASE Silent
  BY <1>1 DEF Silent
<1>2. ASSUME NEW e \in AuditEvent, Record(e),
             Mints(e) \/ Decides(e) \/ Executes(e) \/ Kills(e)
      PROVE  AuthzTypeOK'
  <2>1. audit' \in Seq(AuditEvent)
    BY <1>2, RecordShape
  <2>2. /\ revokedAgents' \subseteq Agents /\ revokedNonces' \subseteq Nonces
        /\ denyList' \subseteq Tools /\ minted' \subseteq ToolToken /\ now' \in Nat
    BY <1>2 DEF Mints, Decides, Executes, Kills, ToolToken
  <2>3. QED
    BY <2>1, <2>2
<1>3. QED
  BY <1>1, <1>2, StepShape

\* The broker's state is well typed, its log holds audit events only.
THEOREM AuthzTypeCorrect == AuthzSpec => []AuthzTypeOK
  BY TypeInit, TypeStep, PTL DEF AuthzSpec

\* Each shape of a recording step writes its own kind of event, dated now.
LEMMA KindOfEvent ==
  ASSUME NEW e
  PROVE  /\ Mints(e) => e.action = "mint" /\ e.ts = now
         /\ Decides(e) => e.action = "authorize" /\ e.ts = now
         /\ Executes(e) => e.action = "execute" /\ e.ts = now
         /\ Kills(e) => e.action \in {"revoke_agent", "deny_tool"} /\ e.ts = now
<1>1. Mints(e) => e.action = "mint" /\ e.ts = now
  <2>1. \A token : MintEvent(token).action = "mint" /\ MintEvent(token).ts = now
    BY DEF MintEvent
  <2>2. QED
    BY <2>1 DEF Mints
<1>2. Decides(e) => e.action = "authorize" /\ e.ts = now
  <2>1. \A a, tool, d : /\ AuthorizeEvent(a, tool, d).action = "authorize"
                        /\ AuthorizeEvent(a, tool, d).ts = now
    BY DEF AuthorizeEvent
  <2>2. QED
    BY <2>1 DEF Decides
<1>3. Executes(e) => e.action = "execute" /\ e.ts = now
  <2>1. \A a, tool, r : /\ ExecuteEvent(a, tool, r).action = "execute"
                        /\ ExecuteEvent(a, tool, r).ts = now
    BY DEF ExecuteEvent
  <2>2. QED
    BY <2>1 DEF Executes
<1>4. Kills(e) => e.action \in {"revoke_agent", "deny_tool"} /\ e.ts = now
  <2>1. ASSUME NEW w, NEW c \in {"revoke_agent", "deny_tool"}, NEW t, NEW r,
               e = AdminEvent(w, c, t, r)
        PROVE  e.action = c /\ e.ts = now
    BY <2>1 DEF AdminEvent
  <2>2. QED
    BY <2>1 DEF Kills
<1>5. QED
  BY <1>1, <1>2, <1>3, <1>4

\* A step that records an agent revoke puts it in force.
LEMMA RevokeTakesEffect ==
  ASSUME NEW e, Kills(e), NEW a \in Agents, IsAdminRevoke(e, a)
  PROVE  a \in revokedAgents'
<1>1. e.action = "revoke_agent" /\ e.reason = "admin revoke" /\ e.who = {a}
  BY DEF IsAdminRevoke
<1>2. ASSUME NEW token, e = AdminEvent({token.agent_id}, "revoke_agent", {}, "token revoke")
      PROVE  FALSE
  BY <1>1, <1>2 DEF AdminEvent
<1>3. ASSUME NEW tool, e = AdminEvent({}, "deny_tool", {tool}, "admin deny")
      PROVE  FALSE
  BY <1>1, <1>3 DEF AdminEvent
<1>4. PICK b \in Agents : /\ revokedAgents' = revokedAgents \union {b}
                          /\ e = AdminEvent({b}, "revoke_agent", {}, "admin revoke")
  BY <1>2, <1>3 DEF Kills
<1>5. e.who = {b}
  BY <1>4 DEF AdminEvent
<1>6. QED
  BY <1>1, <1>4, <1>5

\* What a recorded decision says, and of which token.
LEMMA DecisionEvent ==
  ASSUME NEW e, Decides(e)
  PROVE  \E token \in minted, tool \in Tools :
           /\ e.who = {token.agent_id} /\ e.tool = {tool} /\ e.ts = now
           /\ e.allowed = Evaluate(token, tool).allowed
           /\ e.revoked = Evaluate(token, tool).revoked
<1>1. PICK token \in minted, tool \in Tools :
        e = AuthorizeEvent(token.agent_id, tool, Evaluate(token, tool))
  BY DEF Decides
<1>2. \A a, t, d : /\ AuthorizeEvent(a, t, d).who = {a}
                   /\ AuthorizeEvent(a, t, d).tool = {t}
                   /\ AuthorizeEvent(a, t, d).ts = now
                   /\ AuthorizeEvent(a, t, d).allowed = d.allowed
                   /\ AuthorizeEvent(a, t, d).revoked = d.revoked
  BY DEF AuthorizeEvent
<1>3. QED
  BY <1>1, <1>2

-----------------------------------------------------------------------------
(* The log and the state agree.                                            *)

LEMMA LogInvInit == AuthzInit => LogInv
  BY DEF AuthzInit, LogInv, KillInForce, LogInThePast, TokensAreLogged

LEMMA LogInvStep == AuthzTypeOK /\ LogInv /\ [AuthzNext]_authzVars => LogInv'
<1> SUFFICES ASSUME AuthzTypeOK, LogInv, [AuthzNext]_authzVars PROVE LogInv'
  OBVIOUS
<1> USE DEF AuthzTypeOK
<1>1. CASE Silent
  <2>1. KillInForce'
    BY <1>1 DEF Silent, LogInv, KillInForce, IsAdminRevoke
  <2>2. LogInThePast'
    <3>1. now' \in Nat /\ now <= now'
      BY <1>1 DEF Silent
    <3>2. \A i \in 1..Len(audit) : audit[i].ts \in Nat
      <4>1. \A i \in 1..Len(audit) : audit[i] \in AuditEvent
        OBVIOUS
      <4>2. QED
        BY <4>1 DEF AuditEvent
    <3>3. QED
      BY <1>1, <3>1, <3>2 DEF Silent, LogInv, LogInThePast
  <2>3. TokensAreLogged'
    BY <1>1 DEF Silent, LogInv, TokensAreLogged, IsMintOf
  <2>4. QED
    BY <2>1, <2>2, <2>3 DEF LogInv
<1>2. ASSUME NEW e \in AuditEvent, Record(e),
             Mints(e) \/ Decides(e) \/ Executes(e) \/ Kills(e)
      PROVE  LogInv'
  <2> USE RecordShape, <1>2
  <2>1. e.ts = now /\ now' = now
    BY KindOfEvent DEF Mints, Decides, Executes, Kills
  <2>2. \A a \in Agents : IsAdminRevoke(e, a) => a \in revokedAgents'
    <3> SUFFICES ASSUME NEW a \in Agents, IsAdminRevoke(e, a)
                 PROVE  a \in revokedAgents'
      OBVIOUS
    <3>1. Kills(e)
      BY KindOfEvent DEF IsAdminRevoke
    <3>2. QED
      BY <3>1, RevokeTakesEffect
  <2>3. revokedAgents \subseteq revokedAgents'
    BY DEF Mints, Decides, Executes, Kills
  <2>4. KillInForce'
    <3> SUFFICES ASSUME NEW a \in Agents, NEW i \in 1..Len(audit'),
                        IsAdminRevoke(audit'[i], a)
                 PROVE  a \in revokedAgents'
      BY DEF KillInForce, IsAdminRevoke
    <3>1. CASE i = Len(audit) + 1
      BY <3>1, <2>2
    <3>2. CASE i \in 1..Len(audit)
      BY <3>2, <2>3 DEF LogInv, KillInForce
    <3>3. QED
      BY <3>1, <3>2
  <2>5. LogInThePast'
    BY <2>1 DEF LogInv, LogInThePast
  <2>6. TokensAreLogged'
    <3> SUFFICES ASSUME NEW token \in minted'
                 PROVE  \E i \in 1..Len(audit') : IsMintOf(audit'[i], token)
      BY DEF TokensAreLogged, IsMintOf
    <3>1. CASE token \in minted
      BY <3>1 DEF LogInv, TokensAreLogged
    <3>2. CASE token \notin minted
      <4>1. e = MintEvent(token) /\ token.issued_at = now
        BY <3>2 DEF Mints, Decides, Executes, Kills
      <4>2. IsMintOf(e, token)
        BY <4>1 DEF IsMintOf, MintEvent
      <4>3. QED
        BY <4>2
    <3>3. QED
      BY <3>1, <3>2
  <2>7. QED
    BY <2>4, <2>5, <2>6 DEF LogInv
<1>3. QED
  BY <1>1, <1>2, StepShape

LEMMA LogInvariant == AuthzSpec => [](AuthzTypeOK /\ LogInv)
  BY TypeInit, TypeStep, LogInvInit, LogInvStep, PTL DEF AuthzSpec

-----------------------------------------------------------------------------
(* The two statements about the log.                                       *)

LEMMA AdminKillWinsStep ==
  ASSUME AuthzTypeOK, LogInv, AdminKillWins, [AuthzNext]_authzVars
  PROVE  AdminKillWins'
<1> USE DEF AuthzTypeOK
<1>1. CASE Silent
  BY <1>1 DEF Silent, AdminKillWins, IsAdminRevoke, IsDecision
<1>2. ASSUME NEW e \in AuditEvent, Record(e),
             Mints(e) \/ Decides(e) \/ Executes(e) \/ Kills(e)
      PROVE  AdminKillWins'
  <2> USE RecordShape, <1>2
  <2>1. SUFFICES ASSUME NEW a \in Agents, NEW i \in 1..Len(audit'),
                        NEW j \in 1..Len(audit'), i < j,
                        IsAdminRevoke(audit'[i], a), IsDecision(audit'[j], a)
                 PROVE  ~audit'[j].allowed /\ audit'[j].revoked
    BY DEF AdminKillWins, IsAdminRevoke, IsDecision
  <2>2. i \in 1..Len(audit) /\ IsAdminRevoke(audit[i], a)
    BY <2>1
  <2>3. a \in revokedAgents
    BY <2>2 DEF LogInv, KillInForce
  <2>4. CASE j \in 1..Len(audit)
    BY <2>1, <2>2, <2>4 DEF AdminKillWins
  <2>5. CASE j = Len(audit) + 1
    <3>1. audit'[j] = e /\ e.action = "authorize" /\ e.who = {a}
      BY <2>1, <2>5 DEF IsDecision
    <3>2. Decides(e)
      BY <3>1, KindOfEvent
    <3>3. PICK token \in minted, tool \in Tools :
            /\ e.who = {token.agent_id}
            /\ e.allowed = Evaluate(token, tool).allowed
            /\ e.revoked = Evaluate(token, tool).revoked
      BY <3>2, DecisionEvent
    <3>4. token.agent_id = a
      BY <3>1, <3>3
    <3>5. ~Evaluate(token, tool).allowed /\ Evaluate(token, tool).revoked
      BY <2>3, <3>4, EvaluateKilled
    <3>6. QED
      BY <3>1, <3>3, <3>5
  <2>6. QED
    BY <2>4, <2>5
<1>3. QED
  BY <1>1, <1>2, StepShape

\* An admin revoke is final and outranks every other reason: in no log the
\* broker can write does a decision after it allow the agent a call.
THEOREM AdminKillIsFinal == AuthzSpec => []AdminKillWins
<1>1. AuthzInit => AdminKillWins
  BY DEF AuthzInit, AdminKillWins
<1>2. AuthzTypeOK /\ LogInv /\ AdminKillWins /\ [AuthzNext]_authzVars => AdminKillWins'
  BY AdminKillWinsStep
<1>3. QED
  BY <1>1, <1>2, LogInvariant, PTL DEF AuthzSpec

LEMMA LogExplainsGrantsStep ==
  ASSUME AuthzTypeOK, LogInv, LogExplainsGrants, [AuthzNext]_authzVars
  PROVE  LogExplainsGrants'
<1> USE DEF AuthzTypeOK
<1>1. CASE Silent
  BY <1>1 DEF Silent, LogExplainsGrants, IsGrant, IsDecision, Covers
<1>2. ASSUME NEW e \in AuditEvent, Record(e),
             Mints(e) \/ Decides(e) \/ Executes(e) \/ Kills(e)
      PROVE  LogExplainsGrants'
  <2> USE RecordShape, <1>2
  <2>1. SUFFICES ASSUME NEW a \in Agents, NEW j \in 1..Len(audit'), IsGrant(audit'[j], a)
                 PROVE  \E i \in 1..(j - 1) : Covers(audit'[i], audit'[j], a)
    BY DEF LogExplainsGrants, IsGrant, IsDecision, Covers
  <2>2. CASE j \in 1..Len(audit)
    <3>1. PICK i \in 1..(j - 1) : Covers(audit[i], audit[j], a)
      BY <2>1, <2>2 DEF LogExplainsGrants
    <3>2. i \in 1..Len(audit)
      BY <2>2
    <3>3. QED
      BY <2>2, <3>1, <3>2
  <2>3. CASE j = Len(audit) + 1
    <3>1. audit'[j] = e /\ e.action = "authorize" /\ e.who = {a} /\ e.allowed
      BY <2>1, <2>3 DEF IsGrant, IsDecision
    <3>2. Decides(e)
      BY <3>1, KindOfEvent
    <3>3. PICK token \in minted, tool \in Tools :
            /\ e.who = {token.agent_id} /\ e.tool = {tool} /\ e.ts = now
            /\ e.allowed = Evaluate(token, tool).allowed
      BY <3>2, DecisionEvent
    <3>4. token.agent_id = a /\ Evaluate(token, tool).allowed
      BY <3>1, <3>3
    <3>5. tool \in token.scopes /\ now <= token.issued_at + token.ttl
      <4>1. tool \in token.scopes /\ ~Expired(token)
        BY <3>4, EvaluateAllowed
      <4>2. token.issued_at \in Nat /\ token.ttl \in Nat
        BY AuthzAssumption DEF ToolToken
      <4>3. QED
        BY <4>1, <4>2 DEF Expired
    <3>6. PICK i \in 1..Len(audit) : IsMintOf(audit[i], token)
      BY DEF LogInv, TokensAreLogged
    <3>7. audit[i].ts <= now
      BY DEF LogInv, LogInThePast
    <3>8. Covers(audit[i], e, a)
      BY <3>3, <3>4, <3>5, <3>6, <3>7 DEF Covers, IsMintOf
    <3>9. i \in 1..(j - 1) /\ audit'[i] = audit[i]
      BY <2>3
    <3>10. QED
      BY <3>1, <3>8, <3>9
  <2>4. QED
    BY <2>2, <2>3
<1>3. QED
  BY <1>1, <1>2, StepShape

\* No grant without a mint in the log that covers its tool and its moment.
THEOREM GrantsAreExplained == AuthzSpec => []LogExplainsGrants
<1>1. AuthzInit => LogExplainsGrants
  BY DEF AuthzInit, LogExplainsGrants
<1>2. AuthzTypeOK /\ LogInv /\ LogExplainsGrants /\ [AuthzNext]_authzVars
        => LogExplainsGrants'
  BY LogExplainsGrantsStep
<1>3. QED
  BY <1>1, <1>2, LogInvariant, PTL DEF AuthzSpec

LEMMA LiveTokenStep ==
  ASSUME AuthzTypeOK, [AuthzNext]_authzVars, NEW a \in Agents,
         Len(audit') > Len(audit), IsGrant(audit'[Len(audit')], a)
  PROVE  HasLiveToken(a, audit'[Len(audit')].tool)
<1> USE DEF AuthzTypeOK
<1>1. ~Silent
  BY DEF Silent
<1>2. PICK e \in AuditEvent :
        Record(e) /\ (Mints(e) \/ Decides(e) \/ Executes(e) \/ Kills(e))
  BY <1>1, StepShape
<1>3. audit'[Len(audit')] = e
  BY <1>2, RecordShape
<1>4. e.action = "authorize" /\ e.who = {a} /\ e.allowed
  BY <1>3 DEF IsGrant, IsDecision
<1>5. Decides(e)
  BY <1>2, <1>4, KindOfEvent
<1>6. PICK token \in minted, tool \in Tools :
        /\ e.who = {token.agent_id} /\ e.tool = {tool}
        /\ e.allowed = Evaluate(token, tool).allowed
  BY <1>5, DecisionEvent
<1>7. token.nonce \notin revokedNonces /\ ~Expired(token) /\ tool \in token.scopes
  BY <1>4, <1>6, EvaluateAllowed
<1>8. QED
  BY <1>3, <1>4, <1>6, <1>7 DEF HasLiveToken

\* No step of the broker grants a call on a revoked or expired token.
THEOREM GrantsNeedLiveTokens == AuthzSpec => GrantsRideLiveTokens
<1>1. AuthzTypeOK /\ [AuthzNext]_authzVars
        => [\A a \in Agents :
              (Len(audit') > Len(audit) /\ IsGrant(audit'[Len(audit')], a))
                => HasLiveToken(a, audit'[Len(audit')].tool)]_authzVars
  BY LiveTokenStep
<1>2. QED
  BY <1>1, AuthzTypeCorrect, PTL DEF AuthzSpec, GrantsRideLiveTokens

-----------------------------------------------------------------------------
(* The broker implements the kill-switch.                                  *)

GrantsCall(e) == e.action = "authorize" /\ e.allowed

\* Recording anything but a grant adds no permission.
LEMMA NoGrantNoPermit ==
  ASSUME AuthzTypeOK, NEW e \in AuditEvent, Record(e), ~GrantsCall(e)
  PROVE  GrantedPermits' = GrantedPermits
<1> USE DEF AuthzTypeOK
<1>1. /\ Len(audit') = Len(audit) + 1 /\ Len(audit) \in Nat
      /\ \A i \in 1..Len(audit) : audit'[i] = audit[i]
      /\ audit'[Len(audit) + 1] = e
  BY RecordShape
<1>2. GrantSlots' = GrantSlots
  BY <1>1 DEF GrantSlots, GrantsCall
<1>3. \A j \in GrantSlots : audit'[j] = audit[j]
  BY <1>1 DEF GrantSlots
<1>4. QED
  BY <1>2, <1>3 DEF GrantedPermits

\* Recording a grant adds the permission it gives, in a slot of its own.
LEMMA GrantAddsPermit ==
  ASSUME AuthzTypeOK, NEW e \in AuditEvent, Record(e), GrantsCall(e),
         NEW a \in Agents, NEW tool \in Tools, e.who = {a}, e.tool = {tool}
  PROVE  LET p == [slot |-> Len(audit) + 1, agent |-> a, tool |-> tool]
         IN  /\ GrantedPermits' = GrantedPermits \union {p}
             /\ p.slot \in 1..MaxAudit
             /\ p.slot \notin {q.slot : q \in GrantedPermits}
<1> USE DEF AuthzTypeOK
<1> DEFINE p == [slot |-> Len(audit) + 1, agent |-> a, tool |-> tool]
<1>1. /\ Len(audit') = Len(audit) + 1 /\ Len(audit) \in Nat
      /\ \A i \in 1..Len(audit) : audit'[i] = audit[i]
      /\ audit'[Len(audit) + 1] = e
  BY RecordShape
<1>2. GrantSlots' = GrantSlots \union {Len(audit) + 1}
  BY <1>1 DEF GrantSlots, GrantsCall
<1>3. \A j \in GrantSlots : j # Len(audit) + 1 /\ audit'[j] = audit[j]
  BY <1>1 DEF GrantSlots
<1>4. ASSUME NEW q
      PROVE  q \in GrantedPermits' <=> q \in GrantedPermits \union {p}
  <2>1. CASE q \in [slot : GrantSlots, agent : Agents, tool : Tools]
    BY <1>2, <1>3, <2>1 DEF GrantedPermits
  <2>2. CASE q \in [slot : {Len(audit) + 1}, agent : Agents, tool : Tools]
    <3>1. q = [slot |-> q.slot, agent |-> q.agent, tool |-> q.tool]
            /\ q.slot = Len(audit) + 1
      BY <2>2
    <3>2. q \in GrantedPermits' <=> {a} = {q.agent} /\ {tool} = {q.tool}
      BY <1>1, <1>2, <2>2, <3>1 DEF GrantedPermits
    <3>3. q \notin GrantedPermits
      BY <1>3, <3>1 DEF GrantedPermits
    <3>4. q = p <=> a = q.agent /\ tool = q.tool
      BY <3>1
    <3>5. QED
      BY <3>2, <3>3, <3>4
  <2>3. CASE q \notin [slot : GrantSlots \union {Len(audit) + 1},
                       agent : Agents, tool : Tools]
    <3>1. q \notin GrantedPermits' /\ q \notin GrantedPermits
      BY <1>2, <2>3 DEF GrantedPermits
    <3>2. p \in [slot : GrantSlots \union {Len(audit) + 1}, agent : Agents, tool : Tools]
      OBVIOUS
    <3>3. QED
      BY <2>3, <3>1, <3>2
  <2>4. QED
    BY <2>1, <2>2, <2>3
<1>5. GrantedPermits' = GrantedPermits \union {p}
  BY <1>4
<1>6. p.slot \in 1..MaxAudit
  BY AuthzAssumption DEF Record
<1>7. \A q \in GrantedPermits : q.slot # p.slot
  BY <1>3 DEF GrantedPermits
<1>8. QED
  BY <1>5, <1>6, <1>7

LEMMA KillSwitchStep ==
  ASSUME AuthzTypeOK, [AuthzNext]_authzVars
  PROVE  [KS!KillSwitchNext]_(KS!killSwitchVars)
<1> USE DEF KS!killSwitchVars
<1>1. CASE Silent
  <2>1. GrantedPermits' = GrantedPermits /\ revokedAgents' = revokedAgents
    BY <1>1 DEF Silent, GrantedPermits, GrantSlots
  <2>2. CASE UNCHANGED denyList
    BY <2>1, <2>2
  <2>3. CASE \E tool \in Tools : denyList' = denyList \ {tool}
    BY <2>1, <2>3 DEF KS!KillSwitchNext, KS!DenyOrAllow
  <2>4. QED
    BY <1>1, <2>2, <2>3 DEF Silent
<1>2. ASSUME NEW e \in AuditEvent, Record(e), Mints(e) \/ Executes(e)
      PROVE  UNCHANGED KS!killSwitchVars
  <2>1. ~GrantsCall(e)
    BY <1>2, KindOfEvent DEF GrantsCall
  <2>2. GrantedPermits' = GrantedPermits
    BY <1>2, <2>1, NoGrantNoPermit
  <2>3. QED
    BY <1>2, <2>2 DEF Mints, Executes
<1>3. ASSUME NEW e \in AuditEvent, Record(e), Kills(e)
      PROVE  [KS!KillSwitchNext]_(KS!killSwitchVars)
  <2>1. ~GrantsCall(e)
    BY <1>3, KindOfEvent DEF GrantsCall
  <2>2. GrantedPermits' = GrantedPermits
    BY <1>3, <2>1, NoGrantNoPermit
  <2>3. QED
    BY <1>3, <2>2 DEF Kills, KS!KillSwitchNext, KS!KillAgent, KS!DenyOrAllow
<1>4. ASSUME NEW e \in AuditEvent, Record(e), Decides(e)
      PROVE  [KS!KillSwitchNext]_(KS!killSwitchVars)
  <2>1. UNCHANGED <<revokedAgents, denyList>>
    BY <1>4 DEF Decides
  <2>2. CASE ~GrantsCall(e)
    BY <1>4, <2>1, <2>2, NoGrantNoPermit
  <2>3. CASE GrantsCall(e)
    <3>1. PICK token \in minted, tool \in Tools :
            /\ e.who = {token.agent_id} /\ e.tool = {tool}
            /\ e.allowed = Evaluate(token, tool).allowed
      BY <1>4, DecisionEvent
    <3>2. token \in ToolToken /\ token.agent_id \in Agents
      BY DEF AuthzTypeOK, ToolToken
    <3>3. token.agent_id \notin revokedAgents /\ tool \notin denyList
      BY <2>3, <3>1, <3>2, EvaluateAllowed DEF GrantsCall
    <3> DEFINE p == [slot |-> Len(audit) + 1, agent |-> token.agent_id, tool |-> tool]
    <3>4. /\ GrantedPermits' = GrantedPermits \union {p}
          /\ p.slot \in 1..MaxAudit
          /\ p.slot \notin {q.slot : q \in GrantedPermits}
      BY <1>4, <2>3, <3>1, <3>2, GrantAddsPermit
    <3>5. p \in KS!Permits
      BY <3>2, <3>4 DEF KS!Permits
    <3>6. KS!PermitCall
      BY <2>1, <3>3, <3>4, <3>5 DEF KS!PermitCall
    <3>7. QED
      BY <3>6 DEF KS!KillSwitchNext
  <2>4. QED
    BY <2>2, <2>3
<1>5. QED
  BY <1>1, <1>2, <1>3, <1>4, StepShape

\* Tokens, lifetimes and the log are one way to keep the kill-switch's promise:
\* every behaviour of the broker is a behaviour of the kill-switch.
THEOREM BrokerImplementsKillSwitch == AuthzSpec => BrokerIsKillSwitch
<1>1. AuthzInit => KS!KillSwitchInit
  BY DEF AuthzInit, KS!KillSwitchInit, GrantedPermits, GrantSlots
<1>2. AuthzTypeOK /\ [AuthzNext]_authzVars => [KS!KillSwitchNext]_(KS!killSwitchVars)
  BY KillSwitchStep
<1>3. QED
  BY <1>1, <1>2, AuthzTypeCorrect, PTL
  DEF AuthzSpec, BrokerIsKillSwitch, KS!KillSwitchSpec

=============================================================================
