------------------------------- MODULE Checks -------------------------------
(***************************************************************************)
(* The branch verdict of one trace: the consistency check a fixture passes *)
(* when it is loaded (fixtures.py), the chain and depth checks             *)
(* (evals/checks.py) and the verdict that combines them (evals/score.py),  *)
(* taken of a run that grows hop by hop, as score_traces would find its    *)
(* trace had the run stopped there.                                        *)
(*                                                                         *)
(* agent-evals reads a trace's tools_called and tool_call_count off its    *)
(* tool_use events, one for each hop in the order they were recorded; a    *)
(* hop that failed has one like any other (tests/test_trace.py).           *)
(***************************************************************************)
EXTENDS TraceWriter

CONSTANTS
  RawPaths,    \* ground_truth_path of the fixtures file: sequences of sources
  RawDepths,   \* the expected_stop_depth written beside it
  MaxHops      \* bound of the run's hops

ASSUME ChecksAssumption ==
  /\ RawPaths \subseteq Seq(Sources) /\ RawDepths \subseteq Nat
  /\ MaxHops \in Nat

VARIABLES
  fixture,  \* the fixture by_id finds for the trace's query_id
  called    \* tools_called of the run's trace

checksVars == <<fixture, called>>

NoFixture == [loaded |-> FALSE, path |-> <<>>, stop |-> 0]
Fixture(path, stop) == [loaded |-> TRUE, path |-> path, stop |-> stop]

-----------------------------------------------------------------------------
(* The checks.                                                             *)

\* Faulty variant: only the latest hop is compared.
ChainOutcomeLatest(fx, actual) ==
  IF ~fx.loaded THEN "na"
  ELSE IF /\ actual # <<>> /\ Len(actual) <= Len(fx.path)
          /\ actual[Len(actual)] = fx.path[Len(actual)]
  THEN "pass" ELSE "fail"

\* chain_correctness: a non-empty prefix of the expected chain.
ChainOutcome(fx, actual) ==
  IF ~fx.loaded THEN "na"
  ELSE IF /\ actual # <<>> /\ Len(actual) <= Len(fx.path)
          /\ \A i \in 1..Len(actual) : actual[i] = fx.path[i]
  THEN "pass" ELSE "fail"

\* depth_correctness.
DepthOutcome(fx, reached) ==
  IF ~fx.loaded THEN "na" ELSE IF reached = fx.stop THEN "pass" ELSE "fail"

\* _branch_verdict: both checks passed; not applicable is not a pass.
BranchVerdict(fx, actual) ==
  /\ ChainOutcome(fx, actual) = "pass"
  /\ DepthOutcome(fx, Len(actual)) = "pass"

-----------------------------------------------------------------------------
(* Loading a fixture and running it.                                       *)

\* Faulty variant: the declared depth is taken as it comes.
LoadFixtureUnchecked(path, stop) ==
  /\ ~fixture.loaded
  /\ path # <<>>
  /\ fixture' = Fixture(path, stop)
  /\ UNCHANGED called

\* _parse_fixture; a file with an empty or inconsistent fixture does not load.
LoadFixture(path, stop) ==
  /\ ~fixture.loaded
  /\ path # <<>> /\ Len(path) = stop
  /\ fixture' = Fixture(path, stop)
  /\ UNCHANGED called

\* One hop, retrieved or failed.
TakeHop(source) ==
  /\ Len(called) < MaxHops
  /\ called' = Append(called, source)
  /\ UNCHANGED fixture

ChecksInit == fixture = NoFixture /\ called = <<>>

ChecksNext ==
  \/ \E path \in RawPaths, stop \in RawDepths : LoadFixture(path, stop)
  \/ \E source \in Sources : TakeHop(source)

ChecksSpec == ChecksInit /\ [][ChecksNext]_checksVars

-----------------------------------------------------------------------------
(* Properties.                                                             *)

\* Two checks that each look at half of the question decide all of it: the
\* verdict passes exactly for the runs whose hops as recorded, failed ones and
\* repeated ones included, are the fixture's chain, whole and in order, and never
\* for a fixture that is not in the registry.  It takes a fixture whose declared depth
\* is the length of its chain, which only _parse_fixture sees to.
VerdictIffExactChain ==
  BranchVerdict(fixture, called) <=> fixture.loaded /\ called = fixture.path

\* A wrong turn is for good: a run that has left the chain, or gone past it, never
\* finds back to a passing verdict, however it goes on; a failed retrieval that is
\* tried again counts as one hop more.
OffChain ==
  fixture.loaded /\ called # <<>> /\ ChainOutcome(fixture, called) = "fail"
WrongTurnIsForGood == [][OffChain => OffChain']_checksVars

=============================================================================
