----------------------------- MODULE ArmAScore -----------------------------
(***************************************************************************)
(* What `score` finds of a trace of Arm A: the checks of evals/checks.py   *)
(* and the verdict of evals/score.py (Checks), taken of the trace of the   *)
(* latest run (ArmA).                                                      *)
(***************************************************************************)
EXTENDS ArmA

CONSTANT Chains   \* the chains of the fixtures a trace may be scored against

ASSUME ArmAScoreAssumption == Chains \subseteq Seq(Sources) \ {<<>>}

Judge == INSTANCE Checks WITH
  RawPaths <- {}, RawDepths <- {}, MaxHops <- 0,
  fixture <- [loaded |-> FALSE, path |-> <<>>, stop |-> 0],
  called <- HopTools(tw.events)

\* The broker's log, which the trace writer never touches, decides the verdict: it
\* passes exactly when the executes of the run name the fixture's chain, whole and in
\* order, however the calls overlapped and whatever failed or was killed
\* (ToolRouter.call_tool, _branch_verdict).
VerdictIsInTheLog ==
  run > 0 => \A path \in Chains :
    Judge!BranchVerdict(Judge!Fixture(path, Len(path)), HopTools(tw.events)) <=>
      /\ Len(Executed(RunLog)) = Len(path)
      /\ \A n \in 1..Len(path) : Executed(RunLog)[n].tool = {path[n]}

=============================================================================
