-------------------------- MODULE SkillExperiment --------------------------
(***************************************************************************)
(* The control plane of Arm B: ensure_skill (skill.py), ensure_roster      *)
(* (roster.py) and the with/without experiment that calls them for one     *)
(* variant after the other and archives what it made                       *)
(* (skill_experiment.py).                                                  *)
(*                                                                         *)
(* The provider keeps the agents, environments and Skills between runs of  *)
(* the experiment, and each of its calls may raise.  The disk keeps each   *)
(* variant's traces, one file for each fixture, and its metrics.json,      *)
(* which --reuse-existing takes for those of a variant that is done.  The  *)
(* operator may have set ids of agents of his own in the environment       *)
(* variables ensure_roster reads, and of an environment.                   *)
(***************************************************************************)
EXTENDS Naturals, Sequences, FiniteSets, Functions

CONSTANTS
  Configurations,  \* the sets of roles, and "environment", the operator may have
                   \* configured ids for
  Selections,      \* the lists of fixtures a run may select
  VariantLists,    \* the lists of variants a run may select
  MaxExperiments,  \* bound of the runs of the experiment, one after the other
  MaxWarnings      \* bound of the archive calls that fail, over all runs

Roles == {"exposure", "entity_resolution", "coordinator"}
VARIANTS == {"no-skill", "skill"}

ASSUME SkillExperimentAssumption ==
  /\ Configurations \subseteq SUBSET (Roles \union {"environment"})
  /\ Selections \subseteq Seq(Nat) /\ VariantLists \subseteq Seq(VARIANTS)
  /\ MaxExperiments \in Nat /\ MaxWarnings \in Nat

VARIABLES
  configured,  \* what has an ARM_B_..._ID set: roles, "environment"
  selections,  \* fixtures selected by each run begun
  reusing,     \* --reuse-existing of this run
  stage,       \* idle, next, skill, environment, roster, run, score, cleanup
  labels,      \* variants not done
  undone,      \* fixtures this variant has not run
  skillId,     \* whether ensure_skill has returned an id for this variant
  env,         \* env_id of this run, 0 while it is None
  draft,       \* ids ensure_roster has so far: role -> agent
  rosters,     \* created_rosters of this run
  results,     \* label -> the variant's roster, scored traces and metrics
  \* on disk
  runOf,       \* label -> fixture -> the run that wrote its trace
  sidecar,     \* label -> metrics.json
  \* the provider's side
  agents,      \* agents there are: created and not archived
  warned,      \* those of them whose archiving failed, with a warning
  uploaded,    \* whether there is a Skill under SKILL_DISPLAY_TITLE
  envs         \* how many environments there are: their ids are 1..envs

planVars == <<configured, selections, reusing>>
rosterVars == <<skillId, env, draft, rosters>>
filesVars == <<runOf, sidecar>>
remoteVars == <<agents, warned, uploaded, envs>>
experimentVars ==
  <<planVars, stage, labels, undone, rosterVars, results, filesVars, remoteVars>>

Experiment == Len(selections)
Label == Head(labels)

\* The custom tools of each role; the coordinator delegates and has none.
CustomTools ==
  [exposure |-> {"edgar_submissions_index", "edgar_filing", "edgar_exhibit"},
   entity_resolution |-> {"companies_house", "external_rating"},
   coordinator |-> {}]

\* A Skill is loaded with the built-in read tool, so _create_agent enables that one on
\* an agent that has a Skill, and on no other.
ToolsOf(role, skill) == CustomTools[role] \union (IF skill THEN {"read"} ELSE {})

\* The operator's agents have number 0 and carry no Skill; his environment is the first.
Operators(role) ==
  [role |-> role, n |-> 0, skill |-> FALSE, tools |-> ToolsOf(role, FALSE)]
Configured == [role \in configured \intersect Roles |-> Operators(role)]
OperatorsEnv == 1
Nothing == [key \in {} |-> {}]
NoSidecar == [experiment |-> 0, fixtures |-> {}]

\* A dict with one more entry, or with another value for one it has.
Put(f, key, value) ==
  [k \in DOMAIN f \union {key} |-> IF k = key THEN value ELSE f[k]]

AgentsOf(roster) == {roster.agents[role] : role \in DOMAIN roster.agents}

\* score_arm takes every trace of the variant's directory; the metrics are those of
\* the run or of the sidecar.
Result(roster, reused, metrics) ==
  [roster |-> roster, reused |-> reused, metrics |-> metrics, traces |-> runOf[Label]]
DiskRoster == [agents |-> Nothing, env |-> 0, skill |-> FALSE]
ThisRoster == [agents |-> draft, env |-> env, skill |-> skillId]

\* A variant is through and its result kept.
NextLabel(result) ==
  /\ results' = Put(results, Label, result)
  /\ labels' = Tail(labels) /\ stage' = "next"
  /\ UNCHANGED <<planVars, undone, rosterVars, filesVars, remoteVars>>

-----------------------------------------------------------------------------

BeginExperiment(fixtures, variants, reuse) ==
  /\ stage = "idle" /\ Experiment < MaxExperiments
  /\ selections' = Append(selections, fixtures)
  /\ labels' = variants /\ reusing' = reuse
  /\ stage' = "next"
  /\ env' = 0 /\ rosters' = <<>> /\ results' = Nothing
  /\ UNCHANGED <<configured, undone, skillId, draft, filesVars, remoteVars>>

\* _variant_on_disk: a sidecar and any trace.
OnDisk == sidecar[Label] # NoSidecar /\ DOMAIN runOf[Label] # {}

\* --reuse-existing: scored from what is on disk, with a blank roster.
ReuseFromDisk ==
  /\ stage = "next" /\ labels # <<>> /\ reusing /\ OnDisk
  /\ NextLabel(Result(DiskRoster, TRUE, sidecar[Label]))

NextVariant ==
  /\ stage = "next" /\ labels # <<>> /\ ~(reusing /\ OnDisk)
  /\ skillId' = FALSE
  /\ stage' = IF Label = "skill" THEN "skill" ELSE "environment"
  /\ UNCHANGED <<planVars, labels, undone, env, draft, rosters, results, filesVars,
                 remoteVars>>

\* ensure_skill: find it by its title, or upload it.
EnsureSkill ==
  /\ stage = "skill"
  /\ uploaded' = TRUE
  /\ skillId' = TRUE
  /\ stage' = "environment"
  /\ UNCHANGED <<planVars, labels, undone, env, draft, rosters, results, filesVars,
                 agents, warned, envs>>

\* _make_env: the configured environment or a new one.
MakesEnv == "environment" \notin configured
FromMakeEnv ==
  IF MakesEnv THEN envs' = envs + 1 /\ env' = envs + 1
              ELSE UNCHANGED envs /\ env' = OperatorsEnv

\* With an environment there, ensure_roster starts from the configured ids.
EnvReady ==
  /\ stage = "environment"
  /\ draft' = Configured
  /\ stage' = "roster"
  /\ UNCHANGED <<planVars, labels, undone, skillId, rosters, results, filesVars, agents,
                 warned, uploaded>>

\* Faulty variant: each variant has an environment made.
MakeEnvPerVariant == EnvReady /\ FromMakeEnv

\* Only the first variant of a run finds env_id None.
MakeEnv ==
  EnvReady /\ (IF env = 0 THEN FromMakeEnv ELSE UNCHANGED <<env, envs>>)

\* The order of creation: the coordinator last, and nothing when it is configured.
NextRole ==
  IF "coordinator" \in DOMAIN draft THEN {}
  ELSE IF "exposure" \notin DOMAIN draft THEN {"exposure"}
  ELSE IF "entity_resolution" \notin DOMAIN draft THEN {"entity_resolution"}
  ELSE {"coordinator"}

\* An id no other agent has.
NewAgent(role, skill) ==
  [role |-> role, skill |-> skill, tools |-> ToolsOf(role, skill),
   n |-> CHOOSE n \in 1..(Cardinality(agents) + 1) : \A agent \in agents : agent.n # n]

Created(agent) ==
  /\ stage = "roster" /\ agent.role \in NextRole
  /\ agents' = agents \union {agent}
  /\ draft' = Put(draft, agent.role, agent)
  /\ UNCHANGED <<planVars, stage, labels, undone, skillId, env, rosters, results,
                 filesVars, warned, uploaded, envs>>

\* Faulty variant: the Skill is attached to the coordinator only.
CreateAgentSkillCoordinator(role) ==
  Created(NewAgent(role, skillId /\ role = "coordinator"))

CreateAgent(role) == Created(NewAgent(role, skillId))

\* ensure_roster returns and the roster joins created_rosters.
RosterReady ==
  /\ stage = "roster" /\ NextRole = {}
  /\ rosters' = Append(rosters, ThisRoster)
  /\ undone' = selections[Experiment]
  /\ stage' = "run"
  /\ UNCHANGED <<planVars, labels, skillId, env, draft, results, filesVars, remoteVars>>

Traced == runOf' = [runOf EXCEPT ![Label] = Put(@, Head(undone), Experiment)]

\* Faulty variant: the sidecar is brought up to date fixture by fixture.
RunFixtureNotingAtOnce ==
  /\ stage = "run" /\ undone # <<>>
  /\ Traced
  /\ undone' = Tail(undone)
  /\ sidecar' = [sidecar EXCEPT ![Label] =
       [experiment |-> Experiment,
        fixtures |-> Range(selections[Experiment]) \ Range(undone')]]
  /\ UNCHANGED <<planVars, stage, labels, rosterVars, results, remoteVars>>

\* One fixture is run on the roster and its trace written.
RunFixture ==
  /\ stage = "run" /\ undone # <<>>
  /\ Traced
  /\ undone' = Tail(undone)
  /\ UNCHANGED <<planVars, stage, labels, rosterVars, results, sidecar, remoteVars>>

\* run_arm_b_metrics returns: the sidecar has the metrics of the fixtures just run.
FinishVariant ==
  /\ stage = "run" /\ undone = <<>>
  /\ sidecar' = [sidecar EXCEPT ![Label] =
       [experiment |-> Experiment, fixtures |-> Range(selections[Experiment])]]
  /\ stage' = "score"
  /\ UNCHANGED <<planVars, labels, undone, rosterVars, results, runOf, remoteVars>>

\* An empty directory raises.
ScoreVariant ==
  /\ stage = "score" /\ DOMAIN runOf[Label] # {}
  /\ NextLabel(Result(ThisRoster, FALSE, sidecar[Label]))

EndOfRun ==
  /\ stage' = "cleanup"
  /\ UNCHANGED <<planVars, labels, undone, rosterVars, results, filesVars>>

\* A control-plane call, a run, the judge or a file that cannot be read raises;
\* nothing can once the roster is complete.
ExperimentRaises ==
  /\ \/ stage \in {"skill", "run", "score"}
     \/ stage = "environment" /\ env = 0 /\ MakesEnv
     \/ stage = "roster" /\ NextRole # {}
     \/ stage = "next" /\ labels # <<>> /\ reusing /\ OnDisk
  /\ EndOfRun /\ UNCHANGED remoteVars

\* A create call does its work but its answer is lost: it raises all the same.
AnswerLost ==
  /\ \/ stage = "skill" /\ uploaded' = TRUE /\ UNCHANGED <<agents, envs>>
     \/ /\ stage = "environment" /\ env = 0 /\ MakesEnv
        /\ envs' = envs + 1 /\ UNCHANGED <<agents, uploaded>>
     \/ /\ stage = "roster" /\ UNCHANGED <<uploaded, envs>>
        /\ \E role \in NextRole : agents' = agents \union {NewAgent(role, skillId)}
  /\ EndOfRun /\ UNCHANGED warned

VariantsDone == stage = "next" /\ labels = <<>> /\ EndOfRun /\ UNCHANGED remoteVars

Archive(used) ==
  /\ stage = "cleanup"
  /\ \E failed \in SUBSET (used \intersect agents) :
       /\ agents' = (agents \ used) \union failed
       /\ warned' = warned \union failed
       /\ Cardinality(warned') <= MaxWarnings
  /\ stage' = "idle"
  /\ UNCHANGED <<planVars, labels, undone, rosterVars, results, filesVars, uploaded,
                 envs>>

\* Faulty variant: only the latest roster is archived.
CleanUpLatest ==
  Archive(IF rosters = <<>> THEN {} ELSE AgentsOf(rosters[Len(rosters)]))

\* The finally: every agent of every roster is archived, as far as that succeeds.
CleanUp == Archive(UNION {AgentsOf(rosters[i]) : i \in 1..Len(rosters)})

ExperimentInit ==
  /\ configured \in Configurations
  /\ selections = <<>> /\ reusing = FALSE
  /\ stage = "idle" /\ labels = <<>> /\ undone = <<>>
  /\ skillId = FALSE /\ env = 0 /\ draft = Nothing /\ rosters = <<>>
  /\ results = Nothing
  /\ runOf = [label \in VARIANTS |-> Nothing]
  /\ sidecar = [label \in VARIANTS |-> NoSidecar]
  /\ agents = {Operators(role) : role \in configured \intersect Roles} /\ warned = {}
  /\ uploaded = FALSE /\ envs = (IF MakesEnv THEN 0 ELSE OperatorsEnv)

ExperimentNext ==
  \/ \E fixtures \in Selections, variants \in VariantLists, reuse \in BOOLEAN :
       BeginExperiment(fixtures, variants, reuse)
  \/ ReuseFromDisk \/ NextVariant
  \/ EnsureSkill \/ MakeEnv
  \/ \E role \in Roles : CreateAgent(role)
  \/ RosterReady \/ RunFixture \/ FinishVariant \/ ScoreVariant
  \/ ExperimentRaises \/ AnswerLost \/ VariantsDone \/ CleanUp

ExperimentSpec == ExperimentInit /\ [][ExperimentNext]_experimentVars

-----------------------------------------------------------------------------
(* Properties.                                                             *)

Live == {label \in DOMAIN results : ~results[label].reused}

\* What the docstring of the module says of the variants, as far as the code keeps it:
\* the Skill is "attached to all three agents" of one variant and to none of the other,
\* they are over "the same environment", and an agent of one has the tools its
\* counterpart in the other has, but for read: _create_agent enables that with a Skill
\* and not without, so the Skill is not, as the docstring has it, "the ONLY
\* difference".  It can be said of the variants this run ran itself: a reused one has a
\* blank roster.
VariantsDifferInSkillAndRead ==
  \A label, other \in Live :
    /\ results[label].roster.env = results[other].roster.env
    /\ \A agent \in AgentsOf(results[label].roster) :
         /\ agent.skill = (label = "skill")
         /\ ("read" \in agent.tools) = agent.skill
         /\ \A twin \in AgentsOf(results[other].roster) :
              agent.role = twin.role => agent.tools \ {"read"} = twin.tools \ {"read"}

\* "TWO rosters" that are "distinct agent sets", says the docstring of the module, and
\* _archive_roster is an "archive of the agents this experiment created": once a run is
\* over that ran both variants, they had no agent in common, and the operator still has
\* the agents he configured.
ExperimentsUseTheirOwnAgents ==
  (stage = "idle" /\ Live = VARIANTS) =>
    /\ AgentsOf(results["no-skill"].roster) \intersect AgentsOf(results["skill"].roster) = {}
    /\ \A role \in configured \intersect Roles : Operators(role) \in agents

\* However a run ends, no agent of a roster that was finished in it is forgotten: it is
\* archived or warned of.  An agent left over from any run without a warning is one
\* whose roster never came to be, three such at most for each run.
FinishedRostersAreArchived ==
  stage = "idle" =>
    /\ \A i \in 1..Len(rosters) : AgentsOf(rosters[i]) \intersect agents \subseteq warned
    /\ Cardinality(agents \ warned) <= 3 * Experiment

\* "Used to resume after a partial run without paying for completed variants again":
\* what is reused was completed once, by an earlier run or by this one when it names
\* the variant again.  Its metrics are those of every fixture that run selected, and
\* each of these has a trace of that run or of a later one that broke off; a variant
\* that was only ever run half way is never reused.
ReusedVariantsWereCompleted ==
  \A label \in DOMAIN results \ Live :
    \E r \in 1..Experiment :
      /\ results[label].metrics = [experiment |-> r, fixtures |-> Range(selections[r])]
      /\ \A f \in Range(selections[r]) :
           f \in DOMAIN results[label].traces /\ results[label].traces[f] >= r

=============================================================================
