--------------------------- MODULE Investigation ---------------------------
(***************************************************************************)
(* What every arm promises of a fixture: it investigates one at a time,    *)
(* and the trace it leaves to be scored reports the sources retrieved in   *)
(* that investigation, each of them, in order and once, with their number  *)
(* as the depth reached.  An investigation may also end without a report;  *)
(* no report is ever taken back or made twice.                             *)
(***************************************************************************)
EXTENDS Naturals, Sequences

CONSTANT Sources   \* the values of SourceType

VARIABLES
  status,   \* "idle" or "investigating"
  hops,     \* the sources retrieved in the current or the latest investigation
  reports   \* what scoring will read, in the order written: chain and depth

investigationVars == <<status, hops, reports>>

InvestigationInit == status = "idle" /\ hops = <<>> /\ reports = <<>>

Begin ==
  /\ status = "idle"
  /\ status' = "investigating" /\ hops' = <<>>
  /\ UNCHANGED reports

TakeHop(source) ==
  /\ status = "investigating"
  /\ hops' = Append(hops, source)
  /\ UNCHANGED <<status, reports>>

Report ==
  /\ status = "investigating"
  /\ reports' = Append(reports, [chain |-> hops, depth |-> Len(hops)])
  /\ status' = "idle"
  /\ UNCHANGED hops

GiveUp ==
  /\ status = "investigating"
  /\ status' = "idle"
  /\ UNCHANGED <<hops, reports>>

InvestigationNext ==
  \/ Begin \/ Report \/ GiveUp
  \/ \E source \in Sources : TakeHop(source)

InvestigationSpec == InvestigationInit /\ [][InvestigationNext]_investigationVars

=============================================================================
