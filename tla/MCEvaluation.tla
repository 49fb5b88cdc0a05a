---------------------------- MODULE MCEvaluation ----------------------------
(* The four modules about the evaluation, in one run: the checks that score  *)
(* a trace, the baseline with the score command, the comparison of the arms  *)
(* and the Skill experiment.  They share no state, so each behaviour is one  *)
(* of theirs, from that module's own initial states, while the others are at *)
(* rest.                                                                     *)
EXTENDS MCChecks, MCBaseline, MCCompareRuns, MCSkillExperiment

VARIABLE part   \* the module whose behaviour this is

evaluationVars == <<part, checksVars, baselineVars, compareVars, experimentVars>>

EvaluationInit ==
  /\ part \in {"checks", "baseline", "compare", "experiment"}
  /\ ChecksInit /\ BaselineInit /\ CompareInit /\ ExperimentInit
  /\ part # "baseline" => bank = CHOOSE b \in Banks : TRUE

EvaluationNext ==
  \/ /\ part = "checks" /\ ChecksNext
     /\ UNCHANGED <<part, baselineVars, compareVars, experimentVars>>
  \/ /\ part = "baseline" /\ BaselineNext
     /\ UNCHANGED <<part, checksVars, compareVars, experimentVars>>
  \/ /\ part = "compare" /\ CompareNext
     /\ UNCHANGED <<part, checksVars, baselineVars, experimentVars>>
  \/ /\ part = "experiment" /\ ExperimentNext
     /\ UNCHANGED <<part, checksVars, baselineVars, compareVars>>

EvaluationSpec == EvaluationInit /\ [][EvaluationNext]_evaluationVars
=============================================================================
