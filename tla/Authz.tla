------------------------------- MODULE Authz -------------------------------
(***************************************************************************)
(* The authority broker of agent/authz.py: it mints short-lived, scoped    *)
(* tool tokens, decides every tool call and holds the admin kill-switch.   *)
(* Its decisions and its admin acts go to the in-memory audit sink of      *)
(* agent/audit.py, here the sequence `audit`.                              *)
(*                                                                         *)
(* Every broker method runs to completion on the event-loop thread (the    *)
(* class is "thread-unaware by design"), so each method is one action.     *)
(* One clock stands for time.monotonic() and time.time(), whole seconds.   *)
(***************************************************************************)
EXTENDS Naturals, Sequences, FiniteSets

CONSTANTS
  Agents,        \* agent ids
  Tools,         \* tool names an agent may ask for
  Scopes,        \* scope sets tokens are minted with
  TTLs,          \* token lifetimes
  Nonces,        \* values of secrets.token_hex(8); no value is drawn twice
  MaxTime,       \* bound of the clock
  MaxAudit       \* bound of the audit log

ASSUME AuthzAssumption ==
  /\ Scopes \subseteq SUBSET Tools
  /\ TTLs \subseteq Nat
  /\ MaxTime \in Nat
  /\ MaxAudit \in Nat

VARIABLES
  revokedAgents, \* _revoked_agents
  revokedNonces, \* _revoked_nonces
  denyList,      \* _deny_list
  minted,        \* every token handed out so far
  audit,         \* InMemoryAuditSink.events
  now            \* the clock

postureVars == <<revokedAgents, revokedNonces, denyList>>
authzVars == <<revokedAgents, revokedNonces, denyList, minted, audit, now>>

-----------------------------------------------------------------------------
(* Tokens, decisions and audit events.                                     *)

ToolToken == [agent_id : Agents, scopes : Scopes, issued_at : Nat,
              ttl : TTLs, nonce : Nonces]

Reasons == {"", "agent revoked", "token revoked", "deny-list", "expired", "scope",
            "authorized", "admin revoke", "token revoke", "admin deny",
            "retrieval failed"}

Decision == [allowed : BOOLEAN, reason : Reasons, revoked : BOOLEAN]

AuditActions == {"mint", "authorize", "execute", "revoke_agent", "deny_tool"}

\* `who` is empty for the "*" of a deny_tool event and `tool` for the "" of an
\* event about no tool; `lease` is the scopes and lifetime in a mint's detail.
NoLease == [scopes |-> {}, ttl |-> 0]

AuditEvent == [who : SUBSET Agents, action : AuditActions, tool : SUBSET Tools,
               allowed : BOOLEAN, revoked : BOOLEAN, reason : Reasons,
               lease : [scopes : SUBSET Tools, ttl : Nat], ts : Nat]

MintEvent(token) ==
  [who |-> {token.agent_id}, action |-> "mint", tool |-> {}, allowed |-> TRUE,
   revoked |-> FALSE, reason |-> "",
   lease |-> [scopes |-> token.scopes, ttl |-> token.ttl], ts |-> now]

AuthorizeEvent(a, tool, d) ==
  [who |-> {a}, action |-> "authorize", tool |-> {tool}, allowed |-> d.allowed,
   revoked |-> d.revoked, reason |-> d.reason, lease |-> NoLease, ts |-> now]

AdminEvent(who, action, tool, reason) ==
  [who |-> who, action |-> action, tool |-> tool, allowed |-> TRUE,
   revoked |-> TRUE, reason |-> reason, lease |-> NoLease, ts |-> now]

\* What call_tool writes once the handler has run (agent/tools.py).
ExecuteEvent(a, tool, reason) ==
  [who |-> {a}, action |-> "execute", tool |-> {tool}, allowed |-> TRUE,
   revoked |-> FALSE, reason |-> reason, lease |-> NoLease, ts |-> now]

Record(event) ==
  /\ Len(audit) < MaxAudit
  /\ audit' = Append(audit, event)

-----------------------------------------------------------------------------
(* The decision.                                                           *)

Expired(token) == now > token.issued_at + token.ttl

Kill(reason)   == [allowed |-> FALSE, reason |-> reason, revoked |-> TRUE]
Refuse(reason) == [allowed |-> FALSE, reason |-> reason, revoked |-> FALSE]
Permit         == [allowed |-> TRUE, reason |-> "authorized", revoked |-> FALSE]

\* Faulty variant: the lifetime of a token is never looked at.
EvaluateNoExpiry(token, tool) ==
  IF token.agent_id \in revokedAgents THEN Kill("agent revoked")
  ELSE IF token.nonce \in revokedNonces THEN Kill("token revoked")
  ELSE IF tool \in denyList THEN Kill("deny-list")
  ELSE IF tool \notin token.scopes THEN Refuse("scope")
  ELSE Permit

\* Faulty variant: a revoked token is still good for its agent.
EvaluateNoNonce(token, tool) ==
  IF token.agent_id \in revokedAgents THEN Kill("agent revoked")
  ELSE IF tool \in denyList THEN Kill("deny-list")
  ELSE IF Expired(token) THEN Refuse("expired")
  ELSE IF tool \notin token.scopes THEN Refuse("scope")
  ELSE Permit

\* Faulty variant: the deny-list is not consulted.
EvaluateNoDenyList(token, tool) ==
  IF token.agent_id \in revokedAgents THEN Kill("agent revoked")
  ELSE IF token.nonce \in revokedNonces THEN Kill("token revoked")
  ELSE IF Expired(token) THEN Refuse("expired")
  ELSE IF tool \notin token.scopes THEN Refuse("scope")
  ELSE Permit

\* AuthorityBroker._evaluate: the first obstacle in the code's order decides.
Evaluate(token, tool) ==
  IF token.agent_id \in revokedAgents THEN Kill("agent revoked")
  ELSE IF token.nonce \in revokedNonces THEN Kill("token revoked")
  ELSE IF tool \in denyList THEN Kill("deny-list")
  ELSE IF Expired(token) THEN Refuse("expired")
  ELSE IF tool \notin token.scopes THEN Refuse("scope")
  ELSE Permit

-----------------------------------------------------------------------------
(* The operations.                                                         *)

AuthzInit ==
  /\ revokedAgents = {}
  /\ revokedNonces = {}
  /\ denyList = {}
  /\ minted = {}
  /\ audit = <<>>
  /\ now = 0

\* mint() consults no revocation: a revoked agent still gets a token.
MintToken(token) ==
  /\ token.nonce \notin {t.nonce : t \in minted}
  /\ token.issued_at = now
  /\ minted' = minted \union {token}
  /\ Record(MintEvent(token))
  /\ UNCHANGED <<postureVars, now>>

Mint(a, scopes, ttl) ==
  \E n \in Nonces :
    MintToken([agent_id |-> a, scopes |-> scopes, issued_at |-> now,
               ttl |-> ttl, nonce |-> n])

Authorize(token, tool) ==
  /\ Record(AuthorizeEvent(token.agent_id, tool, Evaluate(token, tool)))
  /\ UNCHANGED <<postureVars, minted, now>>

\* ToolRouter.call_tool writing the outcome of a handler to broker.audit.
Execute(a, tool, reason) ==
  /\ Record(ExecuteEvent(a, tool, reason))
  /\ UNCHANGED <<postureVars, minted, now>>

\* Faulty variant: a revoke drops the agent's tokens and forgets the agent.
RevokeAgentTokensOnly(a) ==
  /\ revokedNonces' = revokedNonces \union
       {t.nonce : t \in {u \in minted : u.agent_id = a}}
  /\ Record(AdminEvent({a}, "revoke_agent", {}, "admin revoke"))
  /\ UNCHANGED <<revokedAgents, denyList, minted, now>>

RevokeAgent(a) ==
  /\ revokedAgents' = revokedAgents \union {a}
  /\ Record(AdminEvent({a}, "revoke_agent", {}, "admin revoke"))
  /\ UNCHANGED <<revokedNonces, denyList, minted, now>>

\* Faulty variant: the token goes into the set instead of its nonce.
RevokeTokenWhole(token) ==
  /\ revokedNonces' = revokedNonces \union {token}
  /\ Record(AdminEvent({token.agent_id}, "revoke_agent", {}, "token revoke"))
  /\ UNCHANGED <<revokedAgents, denyList, minted, now>>

\* Audited under the same action name as an agent revoke, with another reason.
RevokeToken(token) ==
  /\ revokedNonces' = revokedNonces \union {token.nonce}
  /\ Record(AdminEvent({token.agent_id}, "revoke_agent", {}, "token revoke"))
  /\ UNCHANGED <<revokedAgents, denyList, minted, now>>

DenyTool(tool) ==
  /\ denyList' = denyList \union {tool}
  /\ Record(AdminEvent({}, "deny_tool", {tool}, "admin deny"))
  /\ UNCHANGED <<revokedAgents, revokedNonces, minted, now>>

\* Lifting a deny leaves no audit event.
AllowTool(tool) ==
  /\ denyList' = denyList \ {tool}
  /\ UNCHANGED <<revokedAgents, revokedNonces, minted, audit, now>>

Tick ==
  /\ now < MaxTime
  /\ now' = now + 1
  /\ UNCHANGED <<postureVars, minted, audit>>

AuthzNext ==
  \/ \E a \in Agents, s \in Scopes, ttl \in TTLs : Mint(a, s, ttl)
  \/ \E token \in minted, tool \in Tools : Authorize(token, tool)
  \/ \E a \in Agents, tool \in Tools, reason \in {"", "retrieval failed"} :
       Execute(a, tool, reason)
  \/ \E a \in Agents : RevokeAgent(a)
  \/ \E token \in minted : RevokeToken(token)
  \/ \E tool \in Tools : DenyTool(tool)
  \/ \E tool \in Tools : AllowTool(tool)
  \/ Tick

AuthzSpec == AuthzInit /\ [][AuthzNext]_authzVars

-----------------------------------------------------------------------------
(* Properties.                                                             *)

AuthzTypeOK ==
  /\ revokedAgents \subseteq Agents
  /\ revokedNonces \subseteq Nonces
  /\ denyList \subseteq Tools
  /\ minted \subseteq ToolToken
  /\ audit \in Seq(AuditEvent)
  /\ now \in Nat

IsAdminRevoke(e, a) ==
  e.action = "revoke_agent" /\ e.reason = "admin revoke" /\ e.who = {a}

IsDecision(e, a) == e.action = "authorize" /\ e.who = {a}
IsGrant(e, a)    == IsDecision(e, a) /\ e.allowed

\* An admin revoke wins over everything that follows: no decision about that
\* agent that the log holds after its revoke allows the call, and each is
\* reported as an admin kill, whatever token it came with, expired or fresh,
\* minted before the revoke or after it (_evaluate's order, mint's silence).
AdminKillWins ==
  \A a \in Agents : \A i, j \in 1..Len(audit) :
    (i < j /\ IsAdminRevoke(audit[i], a) /\ IsDecision(audit[j], a))
      => ~audit[j].allowed /\ audit[j].revoked

\* The log alone explains every grant: an earlier mint for the same agent
\* covers the tool and was still alive at the time of the grant.
Covers(m, e, a) ==
  /\ m.action = "mint" /\ m.who = {a}
  /\ e.tool \subseteq m.lease.scopes
  /\ m.ts <= e.ts /\ e.ts <= m.ts + m.lease.ttl

LogExplainsGrants ==
  \A a \in Agents : \A j \in 1..Len(audit) :
    IsGrant(audit[j], a) => \E i \in 1..(j - 1) : Covers(audit[i], audit[j], a)

\* A grant is recorded only while its agent holds some token that is neither
\* revoked nor expired and that covers the tool: revoke_token takes a token out
\* of play for good, although the log's events name no nonce.
HasLiveToken(a, tools) ==
  \E token \in minted :
    /\ token.agent_id = a /\ tools \subseteq token.scopes
    /\ token.nonce \notin revokedNonces /\ ~Expired(token)

GrantsRideLiveTokens ==
  [][\A a \in Agents :
       (Len(audit') > Len(audit) /\ IsGrant(audit'[Len(audit')], a))
         => HasLiveToken(a, audit'[Len(audit')].tool)]_authzVars

\* The permissions given so far, as the log tells them.
GrantSlots == {j \in 1..Len(audit) : audit[j].action = "authorize" /\ audit[j].allowed}

GrantedPermits ==
  {p \in [slot : GrantSlots, agent : Agents, tool : Tools] :
     audit[p.slot].who = {p.agent} /\ audit[p.slot].tool = {p.tool}}

KS == INSTANCE KillSwitch WITH
        Slots <- 1..MaxAudit, killed <- revokedAgents, denied <- denyList,
        permits <- GrantedPermits

\* The broker with its tokens, lifetimes and log implements the kill-switch:
\* every grant is given to a live agent for a tool that is not denied at that
\* moment, and nothing the broker does revives an agent or rewrites a grant.
BrokerIsKillSwitch == KS!KillSwitchSpec

=============================================================================
