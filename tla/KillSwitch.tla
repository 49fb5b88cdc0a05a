----------------------------- MODULE KillSwitch -----------------------------
(***************************************************************************)
(* What the authority broker promises its operator, without tokens,        *)
(* lifetimes or a log: a call is permitted only for an agent that is not   *)
(* killed and a tool that is not denied at that moment; a kill is for      *)
(* good, a permission once given is never rewritten, and tools may be      *)
(* denied and allowed again (agent/authz.py, module and class docstrings). *)
(***************************************************************************)
CONSTANTS Agents, Tools, Slots   \* Slots number the permissions given

VARIABLES killed, denied, permits

killSwitchVars == <<killed, denied, permits>>

Permits == [slot : Slots, agent : Agents, tool : Tools]

KillSwitchInit ==
  /\ killed = {}
  /\ denied = {}
  /\ permits = {}

KillAgent ==
  /\ \E a \in Agents : killed' = killed \union {a}
  /\ UNCHANGED <<denied, permits>>

DenyOrAllow ==
  /\ \E t \in Tools : denied' \in {denied \union {t}, denied \ {t}}
  /\ UNCHANGED <<killed, permits>>

PermitCall ==
  /\ \E p \in Permits :
       /\ p.slot \notin {q.slot : q \in permits}
       /\ p.agent \notin killed
       /\ p.tool \notin denied
       /\ permits' = permits \union {p}
  /\ UNCHANGED <<killed, denied>>

KillSwitchNext == KillAgent \/ DenyOrAllow \/ PermitCall

KillSwitchSpec == KillSwitchInit /\ [][KillSwitchNext]_killSwitchVars

=============================================================================
