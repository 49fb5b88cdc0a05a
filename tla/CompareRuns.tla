----------------------------- MODULE CompareRuns -----------------------------
(***************************************************************************)
(* The build-vs-buy comparison: the `compare` command (cli.py), which runs *)
(* the selected arms over the selected fixtures, or with --skip-run takes  *)
(* what is on disk, scores each arm's trace directory and renders one      *)
(* table (agent_managed/compare.py, agent_managed/metrics.py).             *)
(*                                                                         *)
(* The disk outlives the command: a trace file for each arm and fixture,   *)
(* overwritten in place, and one metrics.json for each arm, written when   *)
(* the arm is through.  An invocation may select other fixtures and arms   *)
(* than the one before it, and may end in an exception anywhere, or be     *)
(* killed in the middle of a write, which is in place: a sidecar cut short *)
(* is no JSON, a trace cut short is either unreadable or, at the end of a  *)
(* line, looks like the trace of a shorter run.                            *)
(***************************************************************************)
EXTENDS Naturals, Sequences

CONSTANTS
  FixtureCount,   \* fixtures in the bank
  ArmLists,       \* the lists of arms an invocation may select, in report order
  MaxRuns         \* bound of the invocations

ASSUME CompareRunsAssumption ==
  /\ FixtureCount \in Nat /\ MaxRuns \in Nat
  /\ ArmLists \subseteq Seq({"baseline", "arm-a", "arm-b"})
  /\ <<>> \notin ArmLists

Fixtures == 1..FixtureCount   \* in the order of the file
ArmLabels == {"baseline", "arm-a", "arm-b"}

VARIABLES
  traces,    \* on disk: arm -> fixture -> the invocation that wrote its trace, and
             \* what there is of it; invocation 0 for none
  sidecars,  \* on disk: arm -> metrics.json: "none", "torn", or "whole" with metrics
  begun,     \* the invocations so far: fixtures, arms, skip
  pc,        \* idle, run, score
  left,      \* arms not yet run or scored
  todo,      \* fixtures the current arm has not run
  out,       \* metrics of the current arm so far
  metrics,   \* metrics of the arms run or loaded: arm -> set of metrics
  scores,    \* arms scored: arm -> fixture -> the trace scored
  table      \* the last table rendered

diskVars == <<traces, sidecars>>
compareVars == <<traces, sidecars, begun, pc, left, todo, out, metrics, scores, table>>

ThisRun == Len(begun)
Now == begun[ThisRun]
Arm == Head(left)
States == {"whole", "short", "garbled"}
File(r, state) == [run |-> r, state |-> state]
NoFile == File(0, "whole")
Sidecar(state, ms) == [state |-> state, metrics |-> ms]
Metric(fixture, r) == [fixture |-> fixture, run |-> r]
NoRows == [arm \in {} |-> {}]
With(rows, arm, row) ==
  [a \in DOMAIN rows \union {arm} |-> IF a = arm THEN row ELSE rows[a]]
NoTable == [run |-> 0, traces |-> NoRows, metrics |-> NoRows]

-----------------------------------------------------------------------------

\* --limit or --only, which may name no fixture of the bank, and --arms.
Begin(fixtures, arms, skip) ==
  /\ pc = "idle" /\ ThisRun < MaxRuns
  /\ begun' = Append(begun, [fixtures |-> fixtures, arms |-> arms, skip |-> skip])
  /\ pc' = "run"
  /\ left' = arms /\ todo' = fixtures /\ out' = {}
  /\ metrics' = NoRows /\ scores' = NoRows
  /\ UNCHANGED <<diskVars, table>>

\* On to the next arm, or to scoring all of them.
NextArm(row) ==
  /\ metrics' = With(metrics, Arm, row)
  /\ IF Tail(left) = <<>> THEN pc' = "score" /\ left' = Now.arms
     ELSE pc' = "run" /\ left' = Tail(left)
  /\ todo' = Now.fixtures /\ out' = {}

LoadMetrics ==
  /\ pc = "run" /\ Now.skip
  /\ sidecars[Arm].state = "whole"
  /\ NextArm(sidecars[Arm].metrics)
  /\ UNCHANGED <<diskVars, begun, scores, table>>

Written(f, state) == traces' = [traces EXCEPT ![Arm][f] = File(ThisRun, state)]

\* Faulty variant: the sidecar is brought up to date fixture by fixture.
InvestigateNotingAtOnce(f) ==
  /\ pc = "run" /\ ~Now.skip
  /\ f \in todo /\ \A g \in todo : f <= g
  /\ Written(f, "whole")
  /\ out' = out \union {Metric(f, ThisRun)}
  /\ sidecars' = [sidecars EXCEPT ![Arm] = Sidecar("whole", out')]
  /\ todo' = todo \ {f}
  /\ UNCHANGED <<begun, pc, left, metrics, scores, table>>

\* One fixture of the arm: its trace, then its metric.
Investigate(f) ==
  /\ pc = "run" /\ ~Now.skip
  /\ f \in todo /\ \A g \in todo : f <= g
  /\ Written(f, "whole")
  /\ out' = out \union {Metric(f, ThisRun)}
  /\ todo' = todo \ {f}
  /\ UNCHANGED <<sidecars, begun, pc, left, metrics, scores, table>>

\* Faulty variant: the sidecar keeps the fixtures this run did not select.
FinishArmMerging ==
  /\ pc = "run" /\ ~Now.skip /\ todo = {}
  /\ sidecars' = [sidecars EXCEPT ![Arm] =
                   Sidecar("whole", sidecars[Arm].metrics \union out)]
  /\ NextArm(sidecars'[Arm].metrics)
  /\ UNCHANGED <<traces, begun, scores, table>>

FinishArm ==
  /\ pc = "run" /\ ~Now.skip /\ todo = {}
  /\ sidecars' = [sidecars EXCEPT ![Arm] = Sidecar("whole", out)]
  /\ NextArm(out)
  /\ UNCHANGED <<traces, begun, scores, table>>

\* The directory is scored as it stands; an empty one raises, and so does a trace
\* that cannot be read.
ScoreArm ==
  /\ pc = "score" /\ left # <<>>
  /\ \E f \in Fixtures : traces[Arm][f] # NoFile
  /\ \A f \in Fixtures : traces[Arm][f].state # "garbled"
  /\ scores' = With(scores, Arm, traces[Arm])
  /\ left' = Tail(left)
  /\ UNCHANGED <<diskVars, begun, pc, todo, out, metrics, table>>

Render ==
  /\ pc = "score" /\ left = <<>>
  /\ table' = [run |-> ThisRun, traces |-> scores, metrics |-> metrics]
  /\ pc' = "idle"
  /\ UNCHANGED <<diskVars, begun, left, todo, out, metrics, scores>>

\* A sidecar or a directory that cannot be read, the judge, or what escapes an arm's
\* run; the trace of the fixture under way may have been written.
Raises ==
  /\ pc # "idle"
  /\ \/ UNCHANGED traces
     \/ /\ pc = "run" /\ ~Now.skip
        /\ \E f \in todo : (\A g \in todo : f <= g) /\ Written(f, "whole")
  /\ pc' = "idle"
  /\ UNCHANGED <<sidecars, begun, left, todo, out, metrics, scores, table>>

\* Killed, or out of disk, in the middle of writing a trace or a sidecar.
TornTrace ==
  /\ pc = "run" /\ ~Now.skip
  /\ \E f \in todo, state \in {"short", "garbled"} :
       (\A g \in todo : f <= g) /\ Written(f, state)
  /\ pc' = "idle"
  /\ UNCHANGED <<sidecars, begun, left, todo, out, metrics, scores, table>>

TornSidecar ==
  /\ pc = "run" /\ ~Now.skip /\ todo = {}
  /\ sidecars' = [sidecars EXCEPT ![Arm] = Sidecar("torn", {})]
  /\ pc' = "idle"
  /\ UNCHANGED <<traces, begun, left, todo, out, metrics, scores, table>>

CompareInit ==
  /\ traces = [arm \in ArmLabels |-> [f \in Fixtures |-> NoFile]]
  /\ sidecars = [arm \in ArmLabels |-> Sidecar("none", {})]
  /\ begun = <<>> /\ pc = "idle" /\ left = <<>> /\ todo = {} /\ out = {}
  /\ metrics = NoRows /\ scores = NoRows /\ table = NoTable

CompareNext ==
  \/ \E fixtures \in SUBSET Fixtures, arms \in ArmLists, skip \in BOOLEAN :
       Begin(fixtures, arms, skip)
  \/ LoadMetrics
  \/ \E f \in Fixtures : Investigate(f)
  \/ FinishArm \/ ScoreArm \/ Render
  \/ Raises \/ TornTrace \/ TornSidecar

CompareSpec == CompareInit /\ [][CompareNext]_compareVars

-----------------------------------------------------------------------------
(* Properties.                                                             *)

Of(r) == begun[r]
MetricsOf(r) == {Metric(f, r) : f \in Of(r).fixtures}

\* An arm selected twice is run twice.
Repeats(r) == \E i, j \in 1..Len(Of(r).arms) : i < j /\ Of(r).arms[i] = Of(r).arms[j]

\* The traces stand for at least run r: each of its fixtures has the trace that run
\* wrote, whole, or one that a later run began to write over it, or run r itself when
\* it ran the arm again.
StandFor(files, r) ==
  \A f \in Of(r).fixtures :
    \/ files[f] = File(r, "whole") \/ files[f].run > r
    \/ files[f].run = r /\ Repeats(r)

\* A sidecar that can be read is all of one run: it holds the metrics of every fixture
\* some run selected, and of no other, and none of them lacks its trace, however many
\* runs broke off or were killed since.
SidecarsAreWhole ==
  \A arm \in ArmLabels :
    sidecars[arm].state = "whole" =>
      \E r \in 1..ThisRun : sidecars[arm].metrics = MetricsOf(r) /\ StandFor(traces[arm], r)

\* A table rendered by a run of the arms shows that run and nothing else: each cell
\* of a selected fixture is from the trace it wrote, whole, although the directories
\* hold older and torn ones, and each arm's totals add up exactly the selected
\* fixtures.  With --skip-run the totals are those of one earlier run that finished
\* the arm, and the cells are that run's or of a run that broke off since.
TablesAreOfTheirRun ==
  table.run > 0 =>
    \A arm \in DOMAIN table.traces :
      IF Of(table.run).skip
      THEN \E r \in 1..(table.run - 1) :
             table.metrics[arm] = MetricsOf(r) /\ StandFor(table.traces[arm], r)
      ELSE /\ \A f \in Of(table.run).fixtures :
                table.traces[arm][f] = File(table.run, "whole")
           /\ table.metrics[arm] = MetricsOf(table.run)

=============================================================================
