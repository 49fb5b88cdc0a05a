---------------------------- MODULE ChecksProofs ----------------------------
(***************************************************************************)
(* The branch verdict decides exactly what it is meant to, for every       *)
(* fixture file, every set of sources and every run.                       *)
(*                                                                         *)
(* Neither check alone is enough: chain_correctness passes every prefix    *)
(* and depth_correctness looks at no source.  What ties them together is   *)
(* the consistency check at load time, an invariant here (FixtureInv).     *)
(***************************************************************************)
EXTENDS Checks, TLAPS

FixtureInv ==
  /\ called \in Seq(Sources)
  /\ fixture \in [loaded : BOOLEAN, path : Seq(Sources), stop : Nat]
  /\ fixture.loaded => fixture.path # <<>> /\ Len(fixture.path) = fixture.stop

LEMMA FixtureInvariant == ChecksSpec => []FixtureInv
<1>1. ChecksInit => FixtureInv
  BY DEF ChecksInit, FixtureInv, NoFixture
<1>2. ASSUME FixtureInv, [ChecksNext]_checksVars PROVE FixtureInv'
  <2> USE <1>2, ChecksAssumption DEF FixtureInv
  <2>1. ASSUME NEW path \in RawPaths, NEW stop \in RawDepths, LoadFixture(path, stop)
        PROVE  FixtureInv'
    BY <2>1 DEF LoadFixture, Fixture
  <2>2. ASSUME NEW source \in Sources, TakeHop(source) PROVE FixtureInv'
    BY <2>2 DEF TakeHop
  <2>3. CASE UNCHANGED checksVars
    BY <2>3 DEF checksVars
  <2>4. QED
    BY <2>1, <2>2, <2>3 DEF ChecksNext
<1>3. QED
  BY <1>1, <1>2, PTL DEF ChecksSpec

\* For a fixture that loads, passing both checks means that the recorded hops, failed
\* ones included, are its chain, whole and in order.
LEMMA BothChecks ==
  ASSUME FixtureInv
  PROVE  VerdictIffExactChain
<1> USE DEF FixtureInv, BranchVerdict, ChainOutcome, DepthOutcome
<1>1. ASSUME BranchVerdict(fixture, called)
      PROVE  fixture.loaded /\ called = fixture.path
  <2>1. fixture.loaded
    BY <1>1
  <2>2. Len(called) = fixture.stop /\ \A i \in 1..Len(called) : called[i] = fixture.path[i]
    BY <1>1, <2>1
  <2>3. QED
    BY <2>1, <2>2
<1>2. ASSUME fixture.loaded, called = fixture.path
      PROVE  BranchVerdict(fixture, called)
  BY <1>2
<1>3. QED
  BY <1>1, <1>2 DEF VerdictIffExactChain

\* The verdict of score_traces passes exactly for the runs whose recorded hops, failed
\* ones included, are the fixture's whole chain in order (_branch_verdict over the two
\* checks).
THEOREM VerdictIsExact == ChecksSpec => []VerdictIffExactChain
  BY FixtureInvariant, BothChecks, PTL

\* A run off its chain stays off it, however it goes on.
THEOREM WrongTurnsStay == ChecksSpec => WrongTurnIsForGood
<1>1. ASSUME FixtureInv, [ChecksNext]_checksVars, OffChain PROVE OffChain'
  <2> USE <1>1, ChecksAssumption DEF FixtureInv, OffChain, ChainOutcome
  <2>1. ASSUME NEW source \in Sources, TakeHop(source) PROVE OffChain'
    <3>1. called' = Append(called, source) /\ fixture' = fixture
      BY <2>1 DEF TakeHop
    <3>2. /\ Len(called') = Len(called) + 1 /\ called' # <<>>
          /\ \A i \in 1..Len(called) : called'[i] = called[i]
      BY <3>1
    <3>3. CASE Len(called) > Len(fixture.path)
      BY <3>1, <3>2, <3>3
    <3>4. CASE \E i \in 1..Len(called) : called[i] # fixture.path[i]
      BY <3>1, <3>2, <3>4
    <3>5. QED
      BY <3>3, <3>4
  <2>2. ~ \E path \in RawPaths, stop \in RawDepths : LoadFixture(path, stop)
    BY DEF LoadFixture
  <2>3. CASE UNCHANGED checksVars
    BY <2>3 DEF checksVars
  <2>4. QED
    BY <2>1, <2>2, <2>3 DEF ChecksNext
<1>2. FixtureInv /\ [ChecksNext]_checksVars => [OffChain => OffChain']_checksVars
  BY <1>1
<1>3. QED
  BY <1>2, FixtureInvariant, PTL DEF ChecksSpec, WrongTurnIsForGood

=============================================================================
