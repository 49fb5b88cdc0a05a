-------------------------- MODULE EvaluationProofs --------------------------
(***************************************************************************)
(* What holds of the evaluation for every value of the constants: the      *)
(* comparison of the arms (CompareRuns), the single-shot baseline          *)
(* (Baseline) and the Skill experiment (SkillExperiment).                  *)
(***************************************************************************)
EXTENDS Baseline, CompareRuns, SkillExperiment, TraceWriterProofs

-----------------------------------------------------------------------------
(* Working through a list of arms, one after the other.                    *)

Remains(rest, list) ==
  /\ Len(rest) <= Len(list)
  /\ \A i \in 1..Len(rest) : rest[i] = list[Len(list) - Len(rest) + i]
Before(rest, list) == {list[i] : i \in 1..(Len(list) - Len(rest))}
Members(list) == {list[i] : i \in 1..Len(list)}

LEMMA OneFurther ==
  ASSUME NEW T, NEW list \in Seq(T), NEW rest \in Seq(T), Remains(rest, list), rest # <<>>
  PROVE  /\ Tail(rest) \in Seq(T) /\ Head(rest) \in T /\ Remains(Tail(rest), list)
         /\ Before(Tail(rest), list) = Before(rest, list) \union {Head(rest)}
         /\ Head(rest) \in Members(list)
         /\ Tail(rest) = <<>> => Before(Tail(rest), list) = Members(list)
<1> DEFINE m == Len(list)
           n == Len(rest)
<1>1. m \in Nat /\ n \in Nat /\ n # 0 /\ n <= m
  BY EmptySeq, LenProperties DEF Remains
<1>2. /\ Tail(rest) \in Seq(T) /\ Len(Tail(rest)) = n - 1
      /\ \A i \in 1..(n - 1) : Tail(rest)[i] = rest[i + 1]
      /\ Head(rest) = rest[1] /\ rest[1] \in T
  BY <1>1, HeadTailProperties, ElementOfSeq
<1>3. \A i \in 1..n : rest[i] = list[m - n + i]
  BY DEF Remains
<1>4. /\ Len(list) = m /\ Len(rest) = n
      /\ Before(rest, list) = {list[i] : i \in 1..(m - n)}
      /\ Before(Tail(rest), list) = {list[i] : i \in 1..(m - (n - 1))}
  BY <1>2 DEF Before
<1> HIDE DEF m, n
<1>5. \A i \in 1..(n - 1) : Tail(rest)[i] = list[m - (n - 1) + i]
  <2> SUFFICES ASSUME NEW i \in 1..(n - 1) PROVE Tail(rest)[i] = list[m - (n - 1) + i]
    OBVIOUS
  <2>1. i + 1 \in 1..n /\ m - n + (i + 1) = m - (n - 1) + i
    BY <1>1
  <2>2. QED
    BY <1>2, <1>3, <2>1
<1>6. Remains(Tail(rest), list)
  BY <1>1, <1>2, <1>4, <1>5 DEF Remains
<1>7. m - n + 1 \in 1..m /\ m - n + 1 = m - (n - 1) /\ Head(rest) = list[m - n + 1]
  BY <1>1, <1>2, <1>3
<1>8. \A i : i \in 1..(m - n + 1) <=> (i \in 1..(m - n) \/ i = m - n + 1)
  BY <1>1
<1>9. Before(Tail(rest), list) = Before(rest, list) \union {Head(rest)}
  BY <1>4, <1>7, <1>8
<1>10. Head(rest) \in Members(list)
  BY <1>4, <1>7 DEF Members
<1>11. ASSUME Tail(rest) = <<>> PROVE Before(Tail(rest), list) = Members(list)
  <2>1. n - 1 = 0
    BY <1>2, <1>11
  <2>2. m - (n - 1) = m
    BY <1>1, <2>1
  <2>3. QED
    BY <1>4, <2>2 DEF Members
<1>12. QED
  BY <1>2, <1>6, <1>9, <1>10, <1>11

\* One that comes again has been named twice.
LEMMA AgainIsTwice ==
  ASSUME NEW T, NEW list \in Seq(T), NEW rest \in Seq(T), Remains(rest, list), rest # <<>>,
         Head(rest) \in Before(rest, list)
  PROVE  \E i, j \in 1..Len(list) : i < j /\ list[i] = list[j]
<1> DEFINE m == Len(list)
           n == Len(rest)
<1>1. m \in Nat /\ n \in Nat /\ n # 0 /\ n <= m
  BY EmptySeq, LenProperties DEF Remains
<1>2. Head(rest) = rest[1] /\ rest[1] = list[m - n + 1]
  BY <1>1, HeadTailProperties DEF Remains
<1>3. PICK i \in 1..(m - n) : Head(rest) = list[i]
  BY DEF Before
<1>4. Len(list) = m
  OBVIOUS
<1> HIDE DEF m, n
<1>5. i \in 1..m /\ m - n + 1 \in 1..m /\ i < m - n + 1
  BY <1>1
<1>6. QED
  BY <1>2, <1>3, <1>4, <1>5

-----------------------------------------------------------------------------
(* The comparison of the arms.                                             *)

Invocations == [fixtures : SUBSET Fixtures, arms : ArmLists, skip : BOOLEAN]
Metrics == [fixture : Fixtures, run : Nat]

CompareTypeOK ==
  /\ traces \in [ArmLabels -> [Fixtures -> [run : Nat, state : States]]]
  /\ sidecars \in [ArmLabels -> [state : {"none", "torn", "whole"},
                                 metrics : SUBSET Metrics]]
  /\ begun \in Seq(Invocations)
  /\ pc \in {"idle", "run", "score"} /\ left \in Seq(ArmLabels)
  /\ todo \in SUBSET Fixtures /\ out \in SUBSET Metrics
  /\ pc # "idle" => ThisRun > 0

\* Every fixture of the invocation has the trace it wrote for the arm.
FreshTraces(arm, fixtures) == \A f \in fixtures : traces[arm][f] = File(ThisRun, "whole")

\* Run r wrote the arm's sidecar, and the arm is not run again before the next.
SidecarIsOf(arm, r) ==
  /\ sidecars[arm].metrics = MetricsOf(r) /\ StandFor(traces[arm], r)
  /\ r = ThisRun => ~Now.skip /\ arm \in DOMAIN metrics

SidecarsKept ==
  \A arm \in ArmLabels : sidecars[arm].state = "whole" =>
    \E r \in 1..ThisRun : SidecarIsOf(arm, r)

\* The arms behind have their metrics, and those scored their traces.
ArmsInOrder ==
  pc # "idle" =>
    /\ Remains(left, Now.arms)
    /\ pc = "run" => left # <<>> /\ DOMAIN metrics = Before(left, Now.arms) /\ DOMAIN scores = {}
    /\ pc = "score" => DOMAIN metrics = Members(Now.arms) /\ DOMAIN scores \subseteq DOMAIN metrics
    /\ \A arm \in DOMAIN scores : scores[arm] = traces[arm]

\* What an arm left behind: what this run made of it, or what an earlier run did.
RowsAreSettled ==
  pc # "idle" => \A arm \in DOMAIN metrics :
    /\ ~Now.skip => metrics[arm] = MetricsOf(ThisRun) /\ FreshTraces(arm, Now.fixtures)
    /\ Now.skip => \E r \in 1..(ThisRun - 1) :
                     metrics[arm] = MetricsOf(r) /\ StandFor(traces[arm], r)

\* What there is of the arm under way.
ArmUnderWay ==
  pc = "run" /\ ~Now.skip =>
    /\ todo \subseteq Now.fixtures
    /\ out = {Metric(f, ThisRun) : f \in Now.fixtures \ todo}
    /\ FreshTraces(Arm, Now.fixtures \ todo)

TableKept == table.run \in 0..ThisRun /\ TablesAreOfTheirRun

CompareInv ==
  /\ CompareTypeOK /\ SidecarsKept /\ ArmsInOrder /\ RowsAreSettled /\ ArmUnderWay
  /\ TableKept

LEMMA NowFacts ==
  ASSUME CompareTypeOK, ThisRun > 0
  PROVE  /\ ThisRun \in Nat /\ ThisRun \in 1..ThisRun /\ Now \in Invocations
         /\ Now.fixtures \subseteq Fixtures /\ Now.arms \in ArmLists
         /\ Now.arms \in Seq(ArmLabels) /\ Now.arms # <<>> /\ Now.skip \in BOOLEAN
         /\ Of(ThisRun) = Now
<1>1. ThisRun \in Nat /\ ThisRun \in 1..ThisRun
  BY LenProperties DEF CompareTypeOK, ThisRun
<1>2. Now \in Invocations
  BY <1>1, ElementOfSeq DEF CompareTypeOK, ThisRun, Now
<1>3. /\ Now.fixtures \subseteq Fixtures /\ Now.arms \in ArmLists /\ Now.skip \in BOOLEAN
  BY <1>2 DEF Invocations
<1>4. Now.arms \in Seq(ArmLabels) /\ Now.arms # <<>>
  BY <1>3, CompareRunsAssumption DEF ArmLabels
<1>5. QED
  BY <1>1, <1>2, <1>3, <1>4 DEF Of, Now

\* The arm under way, and that it was named twice if it has a sidecar of this run.
LEMMA ArmFacts ==
  ASSUME CompareInv, pc = "run"
  PROVE  /\ Arm \in ArmLabels /\ Remains(Tail(left), Now.arms) /\ Tail(left) \in Seq(ArmLabels)
         /\ Before(Tail(left), Now.arms) = DOMAIN metrics \union {Arm}
         /\ Tail(left) = <<>> => DOMAIN metrics \union {Arm} = Members(Now.arms)
         /\ Arm \in DOMAIN metrics => Repeats(ThisRun)
<1>1. /\ left \in Seq(ArmLabels) /\ left # <<>> /\ Remains(left, Now.arms)
      /\ DOMAIN metrics = Before(left, Now.arms) /\ ThisRun > 0
  BY DEF CompareInv, CompareTypeOK, ArmsInOrder
<1>2. Now.arms \in Seq(ArmLabels) /\ Of(ThisRun) = Now
  BY <1>1, NowFacts DEF CompareInv
<1>3. /\ Head(left) \in ArmLabels /\ Remains(Tail(left), Now.arms) /\ Tail(left) \in Seq(ArmLabels)
      /\ Before(Tail(left), Now.arms) = Before(left, Now.arms) \union {Head(left)}
      /\ Tail(left) = <<>> => Before(Tail(left), Now.arms) = Members(Now.arms)
  BY <1>1, <1>2, OneFurther
<1>4. Head(left) \in Before(left, Now.arms) => Repeats(ThisRun)
  BY <1>1, <1>2, AgainIsTwice DEF Repeats
<1>5. QED
  BY <1>1, <1>3, <1>4 DEF Arm

\* What writing a trace of the arm under way leaves as it was.
LEMMA TraceWritten ==
  ASSUME CompareInv, pc = "run", ~Now.skip, NEW f \in todo, NEW made \in States,
         Written(f, made), UNCHANGED <<sidecars, begun, metrics>>
  PROVE  /\ traces' \in [ArmLabels -> [Fixtures -> [run : Nat, state : States]]]
         /\ traces'[Arm][f] = File(ThisRun, made)
         /\ \A arm \in ArmLabels, g \in Fixtures :
              arm # Arm \/ g # f => traces'[arm][g] = traces[arm][g]
         /\ SidecarsKept'
<1>1. /\ traces \in [ArmLabels -> [Fixtures -> [run : Nat, state : States]]]
      /\ f \in Fixtures /\ ThisRun > 0
  BY DEF CompareInv, CompareTypeOK
<1>2. /\ Arm \in ArmLabels
      /\ Arm \in DOMAIN metrics => Repeats(ThisRun)
  BY ArmFacts
<1>3. ThisRun \in Nat
  BY <1>1, NowFacts DEF CompareInv
<1>4. File(ThisRun, made) \in [run : Nat, state : States]
  BY <1>3 DEF File
<1>5. traces' = [traces EXCEPT ![Arm][f] = File(ThisRun, made)]
  BY DEF Written
<1>6. traces' \in [ArmLabels -> [Fixtures -> [run : Nat, state : States]]]
  BY <1>1, <1>2, <1>4, <1>5
<1>7. /\ traces'[Arm][f] = File(ThisRun, made)
      /\ \A arm \in ArmLabels, g \in Fixtures :
           arm # Arm \/ g # f => traces'[arm][g] = traces[arm][g]
  <2>1. traces'[Arm] = [traces[Arm] EXCEPT ![f] = File(ThisRun, made)]
    BY <1>1, <1>2, <1>5
  <2>2. \A arm \in ArmLabels : arm # Arm => traces'[arm] = traces[arm]
    BY <1>1, <1>2, <1>5
  <2>3. traces[Arm] \in [Fixtures -> [run : Nat, state : States]]
    BY <1>1, <1>2
  <2>4. traces'[Arm][f] = File(ThisRun, made)
    BY <1>1, <2>1, <2>3
  <2>5. \A g \in Fixtures : g # f => traces'[Arm][g] = traces[Arm][g]
    BY <2>1, <2>3
  <2>6. QED
    BY <2>2, <2>4, <2>5
<1>8. ASSUME NEW arm \in ArmLabels, NEW r \in 1..ThisRun, SidecarIsOf(arm, r)
      PROVE  SidecarIsOf(arm, r)'
  <2>1. /\ ThisRun' = ThisRun /\ Now' = Now /\ Of(r)' = Of(r) /\ MetricsOf(r)' = MetricsOf(r)
        /\ Repeats(r)' = Repeats(r)
    BY DEF ThisRun, Now, Of, MetricsOf, Repeats
  <2>2. r \in Nat /\ r <= ThisRun
    BY <1>3
  <2>3. Of(r).fixtures \subseteq Fixtures
    <3>1. begun \in Seq(Invocations) /\ r \in 1..Len(begun)
      BY DEF CompareInv, CompareTypeOK, ThisRun
    <3>2. begun[r] \in Invocations
      BY <3>1, ElementOfSeq
    <3>3. QED
      BY <3>2 DEF Invocations, Of
  <2>4. arm = Arm => r < ThisRun \/ (r = ThisRun /\ Repeats(r))
    <3>1. r = ThisRun /\ arm = Arm => Repeats(r)
      BY <1>2, <1>8 DEF SidecarIsOf
    <3>2. r < ThisRun \/ r = ThisRun
      BY <1>3, <2>2
    <3>3. QED
      BY <3>1, <3>2
  <2>5. ASSUME NEW g \in Of(r).fixtures
        PROVE  \/ traces'[arm][g] = File(r, "whole") \/ traces'[arm][g].run > r
               \/ traces'[arm][g].run = r /\ Repeats(r)
    <3>1. CASE arm = Arm /\ g = f
      <4>1. traces'[arm][g].run = ThisRun
        BY <1>7, <3>1 DEF File
      <4>2. QED
        BY <1>3, <2>2, <2>4, <3>1, <4>1
    <3>2. CASE ~(arm = Arm /\ g = f)
      <4>1. traces'[arm][g] = traces[arm][g]
        BY <1>7, <2>3, <3>2
      <4>2. QED
        BY <1>8, <4>1 DEF SidecarIsOf, StandFor
    <3>3. QED
      BY <3>1, <3>2
  <2>6. StandFor(traces[arm], r)'
    BY <2>1, <2>5 DEF StandFor
  <2>7. QED
    BY <1>8, <2>1, <2>6 DEF SidecarIsOf
<1>9. SidecarsKept'
  <2>1. ThisRun' = ThisRun
    BY DEF ThisRun
  <2>2. SidecarsKept
    BY DEF CompareInv
  <2>3. QED
    BY <1>8, <2>1, <2>2 DEF SidecarsKept
<1>10. QED
  BY <1>6, <1>7, <1>9

\* The list begins with all of it ahead.
LEMMA AllAhead ==
  ASSUME NEW T, NEW list \in Seq(T)
  PROVE  Remains(list, list) /\ Before(list, list) = {}
<1>1. Len(list) \in Nat /\ Len(list) - Len(list) = 0
  BY LenProperties
<1>2. \A i \in 1..Len(list) : Len(list) - Len(list) + i = i
  BY <1>1
<1>3. 1..0 = {}
  OBVIOUS
<1>4. QED
  BY <1>1, <1>2, <1>3 DEF Remains, Before

\* On to the next arm, or to the scoring.
LEMMA NextArmStep ==
  ASSUME CompareInv, pc = "run", NEW row, NextArm(row), UNCHANGED <<begun, traces, scores>>
  PROVE  /\ pc' \in {"run", "score"} /\ left' \in Seq(ArmLabels)
         /\ todo' \in SUBSET Fixtures /\ out' = {} /\ ThisRun > 0
         /\ ArmsInOrder' /\ ArmUnderWay'
         /\ Arm \in ArmLabels /\ DOMAIN metrics' = DOMAIN metrics \union {Arm}
         /\ metrics'[Arm] = row
         /\ \A arm \in DOMAIN metrics : arm # Arm => metrics'[arm] = metrics[arm]
<1>1. ThisRun > 0
  BY DEF CompareInv, CompareTypeOK
<1>2. /\ Now.fixtures \subseteq Fixtures /\ Now.arms \in Seq(ArmLabels)
      /\ Remains(Now.arms, Now.arms) /\ DOMAIN scores = {}
  BY <1>1, NowFacts, AllAhead DEF CompareInv, ArmsInOrder
<1>3. /\ Arm \in ArmLabels /\ Remains(Tail(left), Now.arms) /\ Tail(left) \in Seq(ArmLabels)
      /\ Before(Tail(left), Now.arms) = DOMAIN metrics \union {Arm}
      /\ Tail(left) = <<>> => DOMAIN metrics \union {Arm} = Members(Now.arms)
  BY ArmFacts
<1>4. /\ DOMAIN metrics' = DOMAIN metrics \union {Arm} /\ metrics'[Arm] = row
      /\ \A arm \in DOMAIN metrics : arm # Arm => metrics'[arm] = metrics[arm]
  BY DEF NextArm, With
<1>5. /\ \/ pc' = "score" /\ left' = Now.arms /\ Tail(left) = <<>>
         \/ pc' = "run" /\ left' = Tail(left) /\ Tail(left) # <<>>
      /\ todo' = Now.fixtures /\ out' = {} /\ Now' = Now /\ scores' = scores
  BY DEF NextArm, Now, ThisRun
<1>6. ArmsInOrder'
  BY <1>2, <1>3, <1>4, <1>5 DEF ArmsInOrder
<1>7. ArmUnderWay'
  <2>1. {Metric(f, ThisRun') : f \in Now.fixtures \ todo'} = {}
    BY <1>5
  <2>2. QED
    BY <1>5, <2>1 DEF ArmUnderWay, FreshTraces
<1>8. QED
  BY <1>1, <1>2, <1>3, <1>4, <1>5, <1>6, <1>7

LEMMA BeginKeeps ==
  ASSUME CompareInv, NEW fixtures \in SUBSET Fixtures, NEW arms \in ArmLists,
         NEW skip \in BOOLEAN, Begin(fixtures, arms, skip)
  PROVE  CompareInv'
<1> DEFINE n == Len(begun)
           call == [fixtures |-> fixtures, arms |-> arms, skip |-> skip]
<1>1. begun \in Seq(Invocations) /\ n \in Nat /\ call \in Invocations
  BY LenProperties DEF CompareInv, CompareTypeOK, Invocations
<1>2. /\ begun' = Append(begun, call) /\ pc' = "run" /\ left' = arms /\ todo' = fixtures /\ out' = {}
      /\ metrics' = NoRows /\ scores' = NoRows /\ UNCHANGED <<traces, sidecars, table>>
  BY DEF Begin, diskVars
<1>3. /\ begun' \in Seq(Invocations) /\ Len(begun') = n + 1 /\ begun'[n + 1] = call
      /\ \A r \in 1..n : begun'[r] = begun[r]
  BY <1>1, <1>2, AppendProperties
<1>4. /\ ThisRun = n /\ ThisRun' = n + 1 /\ Now' = call
  BY <1>3 DEF ThisRun, Now
<1>5. /\ call.fixtures = fixtures /\ call.arms = arms /\ call.skip = skip
      /\ arms \in Seq(ArmLabels) /\ arms # <<>>
  BY CompareRunsAssumption DEF ArmLabels
<1> HIDE DEF n, call
<1>6. \A r \in 1..n : Of(r)' = Of(r) /\ MetricsOf(r)' = MetricsOf(r) /\ Repeats(r)' = Repeats(r)
  BY <1>3 DEF Of, MetricsOf, Repeats
<1>7. \A r \in 1..n : r \in 1..(n + 1) /\ r # n + 1
  BY <1>1
<1>8. CompareTypeOK'
  <2>1. ThisRun' > 0
    BY <1>1, <1>4
  <2>2. QED
    BY <1>2, <1>3, <1>5, <2>1 DEF CompareInv, CompareTypeOK
<1>9. SidecarsKept'
  <2> SUFFICES ASSUME NEW arm \in ArmLabels, sidecars'[arm].state = "whole"
               PROVE  \E r \in 1..ThisRun' : SidecarIsOf(arm, r)'
    BY DEF SidecarsKept
  <2>1. PICK r \in 1..n : SidecarIsOf(arm, r)
    BY <1>2, <1>4 DEF CompareInv, SidecarsKept
  <2>2. /\ r \in 1..ThisRun' /\ r # ThisRun' /\ MetricsOf(r)' = MetricsOf(r) /\ Of(r)' = Of(r)
        /\ Repeats(r)' = Repeats(r)
    BY <1>4, <1>6, <1>7
  <2>3. SidecarIsOf(arm, r)'
    BY <1>2, <2>1, <2>2 DEF SidecarIsOf, StandFor
  <2>4. QED
    BY <2>2, <2>3
<1>10. DOMAIN metrics' = {} /\ DOMAIN scores' = {}
  BY <1>2 DEF NoRows
<1>11. ArmsInOrder' /\ RowsAreSettled'
  BY <1>2, <1>4, <1>5, <1>10, AllAhead DEF ArmsInOrder, RowsAreSettled
<1>12. ArmUnderWay'
  <2>1. /\ {Metric(f, ThisRun') : f \in fixtures \ fixtures} = {}
        /\ fixtures \ fixtures = {}
    OBVIOUS
  <2>2. QED
    BY <1>2, <1>4, <1>5, <2>1 DEF ArmUnderWay, FreshTraces
<1>13. TableKept'
  <2>1. table' = table /\ table.run \in 0..n /\ TablesAreOfTheirRun
    BY <1>2, <1>4 DEF CompareInv, TableKept
  <2>2. table.run \in 0..(n + 1) /\ (table.run > 0 => table.run \in 1..n)
    BY <1>1, <2>1
  <2>3. table.run > 0 => \A r \in 1..(table.run - 1) : r \in 1..n
    BY <1>1, <2>2
  <2>4. TablesAreOfTheirRun'
    <3> SUFFICES ASSUME table.run > 0, NEW arm \in DOMAIN table.traces
                 PROVE  IF Of(table.run)'.skip
                        THEN \E r \in 1..(table.run - 1) :
                               table.metrics[arm] = MetricsOf(r)' /\ StandFor(table.traces[arm], r)'
                        ELSE /\ \A f \in Of(table.run)'.fixtures :
                                  table.traces[arm][f] = File(table.run, "whole")
                             /\ table.metrics[arm] = MetricsOf(table.run)'
      BY <2>1 DEF TablesAreOfTheirRun
    <3>1. Of(table.run)' = Of(table.run) /\ MetricsOf(table.run)' = MetricsOf(table.run)
      BY <1>6, <2>1, <2>2 DEF Of, MetricsOf
    <3>2. CASE Of(table.run).skip
      <4>1. PICK r \in 1..(table.run - 1) :
              table.metrics[arm] = MetricsOf(r) /\ StandFor(table.traces[arm], r)
        BY <2>1, <3>2 DEF TablesAreOfTheirRun
      <4>2. MetricsOf(r)' = MetricsOf(r) /\ Of(r)' = Of(r) /\ Repeats(r)' = Repeats(r)
        BY <1>6, <2>3, <4>1
      <4>3. StandFor(table.traces[arm], r)'
        BY <2>1, <4>1, <4>2 DEF StandFor
      <4>4. QED
        BY <3>1, <3>2, <4>1, <4>2, <4>3
    <3>3. CASE ~Of(table.run).skip
      BY <2>1, <3>1, <3>3 DEF TablesAreOfTheirRun
    <3>4. QED
      BY <3>2, <3>3
  <2>5. QED
    BY <1>4, <2>1, <2>2, <2>4 DEF TableKept
<1>14. QED
  BY <1>8, <1>9, <1>11, <1>12, <1>13 DEF CompareInv

\* The table shows an invocation that is over, whatever is done after it.
LEMMA TableStays ==
  ASSUME CompareInv, UNCHANGED <<begun, table>>
  PROVE  TableKept'
<1>1. TableKept
  BY DEF CompareInv
<1>2. ThisRun' = ThisRun /\ table' = table
  BY DEF ThisRun
<1>3. Of(table.run)' = Of(table.run) /\ MetricsOf(table.run)' = MetricsOf(table.run)
  BY <1>2 DEF Of, MetricsOf
<1>4. TablesAreOfTheirRun'
  <2> SUFFICES ASSUME table.run > 0, NEW arm \in DOMAIN table.traces
               PROVE  IF Of(table.run).skip
                      THEN \E r \in 1..(table.run - 1) :
                             table.metrics[arm] = MetricsOf(r)' /\ StandFor(table.traces[arm], r)'
                      ELSE /\ \A f \in Of(table.run).fixtures :
                                table.traces[arm][f] = File(table.run, "whole")
                           /\ table.metrics[arm] = MetricsOf(table.run)
    BY <1>2, <1>3 DEF TablesAreOfTheirRun
  <2>1. CASE Of(table.run).skip
    <3>1. PICK r \in 1..(table.run - 1) :
            table.metrics[arm] = MetricsOf(r) /\ StandFor(table.traces[arm], r)
      BY <1>1, <2>1 DEF TableKept, TablesAreOfTheirRun
    <3>2. MetricsOf(r)' = MetricsOf(r) /\ StandFor(table.traces[arm], r)'
      BY <3>1 DEF MetricsOf, StandFor, Of, Repeats
    <3>3. QED
      BY <2>1, <3>1, <3>2
  <2>2. CASE ~Of(table.run).skip
    BY <1>1, <2>2 DEF TableKept, TablesAreOfTheirRun
  <2>3. QED
    BY <2>1, <2>2
<1>5. QED
  BY <1>1, <1>2, <1>4 DEF TableKept

LEMMA SidecarsStay ==
  ASSUME CompareInv, UNCHANGED <<begun, traces, sidecars>>,
         \A arm \in DOMAIN metrics : arm \in DOMAIN metrics'
  PROVE  SidecarsKept'
<1>1. SidecarsKept
  BY DEF CompareInv
<1>2. QED
  BY <1>1 DEF SidecarsKept, SidecarIsOf, ThisRun, Now, Of, MetricsOf, StandFor, Repeats

LEMMA RowsStay ==
  ASSUME CompareInv, UNCHANGED <<begun, pc, traces, metrics>>
  PROVE  RowsAreSettled'
<1>1. ThisRun' = ThisRun /\ Now' = Now /\ MetricsOf(ThisRun)' = MetricsOf(ThisRun)
  BY DEF ThisRun, Now, MetricsOf, Of
<1>2. ASSUME pc # "idle", NEW arm \in DOMAIN metrics, ~Now.skip
      PROVE  metrics[arm] = MetricsOf(ThisRun) /\ FreshTraces(arm, Now.fixtures)'
  BY <1>1, <1>2 DEF CompareInv, RowsAreSettled, FreshTraces
<1>3. ASSUME pc # "idle", NEW arm \in DOMAIN metrics, Now.skip
      PROVE  \E r \in 1..(ThisRun - 1) : metrics[arm] = MetricsOf(r)' /\ StandFor(traces[arm], r)'
  <2>1. PICK r \in 1..(ThisRun - 1) : metrics[arm] = MetricsOf(r) /\ StandFor(traces[arm], r)
    BY <1>3 DEF CompareInv, RowsAreSettled
  <2>2. MetricsOf(r)' = MetricsOf(r) /\ StandFor(traces[arm], r)'
    BY <2>1 DEF MetricsOf, Of, StandFor, Repeats
  <2>3. QED
    BY <2>1, <2>2
<1>4. QED
  BY <1>1, <1>2, <1>3 DEF RowsAreSettled

LEMMA LoadKeeps ==
  ASSUME CompareInv, LoadMetrics
  PROVE  CompareInv'
<1>1. /\ pc = "run" /\ Now.skip /\ sidecars[Arm].state = "whole"
      /\ NextArm(sidecars[Arm].metrics)
      /\ UNCHANGED <<traces, sidecars, begun, scores, table>>
  BY DEF LoadMetrics, diskVars
<1>2. /\ pc' \in {"run", "score"} /\ left' \in Seq(ArmLabels)
      /\ todo' \in SUBSET Fixtures /\ out' = {} /\ ThisRun > 0
      /\ ArmsInOrder' /\ ArmUnderWay'
      /\ Arm \in ArmLabels /\ DOMAIN metrics' = DOMAIN metrics \union {Arm}
      /\ metrics'[Arm] = sidecars[Arm].metrics
      /\ \A arm \in DOMAIN metrics : arm # Arm => metrics'[arm] = metrics[arm]
  BY <1>1, NextArmStep
<1>3. /\ ThisRun' = ThisRun /\ Now' = Now /\ \A r : Of(r)' = Of(r) /\ MetricsOf(r)' = MetricsOf(r)
      /\ \A r, arm : StandFor(traces[arm], r)' = StandFor(traces[arm], r)
  BY <1>1 DEF ThisRun, Now, Of, MetricsOf, StandFor, Repeats
<1>4. CompareTypeOK'
  BY <1>1, <1>2, <1>3 DEF CompareInv, CompareTypeOK
<1>5. \E r \in 1..(ThisRun - 1) : sidecars[Arm].metrics = MetricsOf(r) /\ StandFor(traces[Arm], r)
  <2>1. PICK r \in 1..ThisRun : SidecarIsOf(Arm, r)
    BY <1>1, <1>2 DEF CompareInv, SidecarsKept
  <2>2. ThisRun \in Nat /\ r # ThisRun
    BY <1>1, <1>2, <2>1, NowFacts DEF CompareInv, SidecarIsOf
  <2>3. r \in 1..(ThisRun - 1)
    BY <2>2
  <2>4. QED
    BY <2>1, <2>3 DEF SidecarIsOf
<1>6. RowsAreSettled'
  <2>1. RowsAreSettled
    BY DEF CompareInv
  <2>2. ASSUME NEW arm \in DOMAIN metrics'
        PROVE  \E r \in 1..(ThisRun - 1) : metrics'[arm] = MetricsOf(r) /\ StandFor(traces[arm], r)
    <3>1. CASE arm = Arm
      BY <1>2, <1>5, <3>1
    <3>2. CASE arm # Arm
      BY <1>1, <1>2, <2>1, <3>2 DEF RowsAreSettled
    <3>3. QED
      BY <3>1, <3>2
  <2>3. QED
    BY <1>1, <1>3, <2>2 DEF RowsAreSettled
<1>7. SidecarsKept' /\ TableKept'
  BY <1>1, <1>2, SidecarsStay, TableStays
<1>8. QED
  BY <1>2, <1>4, <1>6, <1>7 DEF CompareInv

LEMMA InvestigateKeeps ==
  ASSUME CompareInv, NEW f \in Fixtures, Investigate(f)
  PROVE  CompareInv'
<1>1. /\ pc = "run" /\ ~Now.skip /\ f \in todo /\ Written(f, "whole") /\ "whole" \in States
      /\ out' = out \union {Metric(f, ThisRun)} /\ todo' = todo \ {f}
      /\ UNCHANGED <<sidecars, begun, pc, left, metrics, scores, table>>
  BY DEF Investigate, States
<1>2. /\ traces' \in [ArmLabels -> [Fixtures -> [run : Nat, state : States]]]
      /\ traces'[Arm][f] = File(ThisRun, "whole")
      /\ \A arm \in ArmLabels, g \in Fixtures :
           arm # Arm \/ g # f => traces'[arm][g] = traces[arm][g]
      /\ SidecarsKept'
  BY <1>1, TraceWritten
<1>3. /\ ThisRun > 0 /\ todo \subseteq Now.fixtures
      /\ out = {Metric(g, ThisRun) : g \in Now.fixtures \ todo}
      /\ FreshTraces(Arm, Now.fixtures \ todo) /\ DOMAIN scores = {}
  BY <1>1 DEF CompareInv, CompareTypeOK, ArmUnderWay, ArmsInOrder
<1>4. ThisRun \in Nat /\ Now.fixtures \subseteq Fixtures
  BY <1>3, NowFacts DEF CompareInv
<1>5. /\ ThisRun' = ThisRun /\ Now' = Now /\ Arm' = Arm /\ MetricsOf(ThisRun)' = MetricsOf(ThisRun)
  BY <1>1 DEF ThisRun, Now, Arm, MetricsOf, Of
<1>6. Metric(f, ThisRun) \in Metrics
  BY <1>4 DEF Metric, Metrics
<1>7. CompareTypeOK'
  BY <1>1, <1>2, <1>5, <1>6 DEF CompareInv, CompareTypeOK
<1>8. ArmsInOrder'
  BY <1>1, <1>3, <1>5 DEF CompareInv, ArmsInOrder
<1>9. DOMAIN metrics \subseteq ArmLabels /\ Arm \in ArmLabels
  <2>1. Now.arms \in Seq(ArmLabels) /\ DOMAIN metrics = Before(left, Now.arms)
    BY <1>1, <1>3, NowFacts DEF CompareInv, ArmsInOrder
  <2>2. Len(Now.arms) \in Nat /\ Len(left) \in Nat
    BY <2>1, LenProperties DEF CompareInv, CompareTypeOK
  <2>3. \A i \in 1..(Len(Now.arms) - Len(left)) : i \in 1..Len(Now.arms)
    BY <2>2
  <2>4. \A i \in 1..(Len(Now.arms) - Len(left)) : Now.arms[i] \in ArmLabels
    BY <2>1, <2>3, ElementOfSeq
  <2>5. QED
    BY <1>1, <2>1, <2>4, ArmFacts DEF Before
<1>10. RowsAreSettled'
  <2>1. ASSUME NEW arm \in DOMAIN metrics
        PROVE  metrics[arm] = MetricsOf(ThisRun) /\ FreshTraces(arm, Now.fixtures)'
    <3>1. metrics[arm] = MetricsOf(ThisRun) /\ FreshTraces(arm, Now.fixtures)
      BY <1>1 DEF CompareInv, RowsAreSettled
    <3>2. ASSUME NEW g \in Now.fixtures PROVE traces'[arm][g] = File(ThisRun, "whole")
      BY <1>2, <1>4, <1>9, <3>1 DEF FreshTraces
    <3>3. QED
      BY <1>5, <3>1, <3>2 DEF FreshTraces
  <2>2. QED
    BY <1>1, <1>5, <2>1 DEF RowsAreSettled
<1>11. ArmUnderWay'
  <2>1. Now.fixtures \ todo' = (Now.fixtures \ todo) \union {f}
    BY <1>1, <1>3
  <2>2. out' = {Metric(g, ThisRun) : g \in Now.fixtures \ todo'}
    BY <1>1, <1>3, <2>1
  <2>3. \A g \in Now.fixtures \ todo' : traces'[Arm][g] = File(ThisRun, "whole")
    BY <1>2, <1>3, <1>4, <1>9, <2>1 DEF FreshTraces
  <2>4. todo' \subseteq Now.fixtures
    BY <1>1, <1>3
  <2>5. QED
    BY <1>5, <2>2, <2>3, <2>4 DEF ArmUnderWay, FreshTraces
<1>12. TableKept'
  BY <1>1, TableStays
<1>13. QED
  BY <1>2, <1>7, <1>8, <1>10, <1>11, <1>12 DEF CompareInv

LEMMA FinishKeeps ==
  ASSUME CompareInv, FinishArm
  PROVE  CompareInv'
<1>1. /\ pc = "run" /\ ~Now.skip /\ todo = {} /\ NextArm(out)
      /\ sidecars' = [sidecars EXCEPT ![Arm] = Sidecar("whole", out)]
      /\ UNCHANGED <<traces, begun, scores, table>>
  BY DEF FinishArm
<1>2. /\ pc' \in {"run", "score"} /\ left' \in Seq(ArmLabels)
      /\ todo' \in SUBSET Fixtures /\ out' = {} /\ ThisRun > 0
      /\ ArmsInOrder' /\ ArmUnderWay'
      /\ Arm \in ArmLabels /\ DOMAIN metrics' = DOMAIN metrics \union {Arm}
      /\ metrics'[Arm] = out
      /\ \A arm \in DOMAIN metrics : arm # Arm => metrics'[arm] = metrics[arm]
  BY <1>1, NextArmStep
<1>3. ThisRun \in Nat /\ ThisRun \in 1..ThisRun /\ Of(ThisRun) = Now
  BY <1>2, NowFacts DEF CompareInv
<1>4. /\ Now.fixtures \ todo = Now.fixtures
      /\ out = {Metric(f, ThisRun) : f \in Now.fixtures \ todo}
      /\ FreshTraces(Arm, Now.fixtures \ todo)
  BY <1>1 DEF CompareInv, ArmUnderWay
<1>5. /\ out = MetricsOf(ThisRun) /\ FreshTraces(Arm, Now.fixtures) /\ StandFor(traces[Arm], ThisRun)
  BY <1>3, <1>4 DEF MetricsOf, FreshTraces, StandFor
<1>6. /\ ThisRun' = ThisRun /\ Now' = Now /\ MetricsOf(ThisRun)' = MetricsOf(ThisRun)
      /\ \A arm : FreshTraces(arm, Now.fixtures)' <=> FreshTraces(arm, Now.fixtures)
  BY <1>1 DEF ThisRun, Now, Of, MetricsOf, FreshTraces
<1>7. CompareTypeOK'
  <2>1. Sidecar("whole", out) \in [state : {"none", "torn", "whole"}, metrics : SUBSET Metrics]
    BY DEF CompareInv, CompareTypeOK, Sidecar
  <2>2. sidecars' \in [ArmLabels -> [state : {"none", "torn", "whole"}, metrics : SUBSET Metrics]]
    BY <1>1, <2>1 DEF CompareInv, CompareTypeOK
  <2>3. QED
    BY <1>1, <1>2, <1>6, <2>2 DEF CompareInv, CompareTypeOK
<1>8. SidecarsKept'
  <2> SUFFICES ASSUME NEW arm \in ArmLabels, sidecars'[arm].state = "whole"
               PROVE  \E r \in 1..ThisRun : SidecarIsOf(arm, r)'
    BY <1>6 DEF SidecarsKept
  <2>1. CASE arm = Arm
    <3>1. sidecars'[arm].metrics = out
      BY <1>1, <1>2, <2>1 DEF Sidecar, CompareInv, CompareTypeOK
    <3>2. StandFor(traces[arm], ThisRun)'
      BY <1>1, <1>5, <1>6, <2>1 DEF StandFor, Of, Repeats
    <3>3. SidecarIsOf(arm, ThisRun)'
      BY <1>1, <1>2, <1>5, <1>6, <2>1, <3>1, <3>2 DEF SidecarIsOf
    <3>4. QED
      BY <1>3, <1>6, <3>3 DEF SidecarIsOf, MetricsOf, StandFor
  <2>2. CASE arm # Arm
    <3>1. sidecars'[arm] = sidecars[arm]
      BY <1>1, <2>2 DEF CompareInv, CompareTypeOK
    <3>2. PICK r \in 1..ThisRun : SidecarIsOf(arm, r)
      BY <3>1 DEF CompareInv, SidecarsKept
    <3>3. SidecarIsOf(arm, r)'
      BY <1>1, <1>2, <1>6, <3>1, <3>2 DEF SidecarIsOf, MetricsOf, StandFor, Of, Repeats
    <3>4. QED
      BY <3>3
  <2>3. QED
    BY <2>1, <2>2
<1>9. RowsAreSettled'
  <2>1. ASSUME NEW arm \in DOMAIN metrics'
        PROVE  metrics'[arm] = MetricsOf(ThisRun) /\ FreshTraces(arm, Now.fixtures)
    <3>1. CASE arm = Arm
      BY <1>2, <1>5, <3>1
    <3>2. CASE arm # Arm
      BY <1>1, <1>2, <3>2 DEF CompareInv, RowsAreSettled
    <3>3. QED
      BY <3>1, <3>2
  <2>2. QED
    BY <1>1, <1>6, <2>1 DEF RowsAreSettled
<1>10. TableKept'
  BY <1>1, TableStays
<1>11. QED
  BY <1>2, <1>7, <1>8, <1>9, <1>10 DEF CompareInv

LEMMA ScoreKeeps ==
  ASSUME CompareInv, ScoreArm
  PROVE  CompareInv'
<1>1. /\ pc = "score" /\ left # <<>> /\ scores' = With(scores, Arm, traces[Arm])
      /\ left' = Tail(left) /\ UNCHANGED <<traces, sidecars, begun, pc, todo, out, metrics, table>>
  BY DEF ScoreArm, diskVars
<1>2. ThisRun > 0 /\ left \in Seq(ArmLabels) /\ Remains(left, Now.arms)
  BY <1>1 DEF CompareInv, CompareTypeOK, ArmsInOrder
<1>3. Now.arms \in Seq(ArmLabels)
  BY <1>2, NowFacts DEF CompareInv
<1>4. /\ Remains(Tail(left), Now.arms) /\ Tail(left) \in Seq(ArmLabels) /\ Arm \in Members(Now.arms)
  BY <1>1, <1>2, <1>3, OneFurther DEF Arm
<1>5. /\ ThisRun' = ThisRun /\ Now' = Now
  BY <1>1 DEF ThisRun, Now
<1>6. CompareTypeOK'
  BY <1>1, <1>4, <1>5 DEF CompareInv, CompareTypeOK
<1>7. ArmsInOrder'
  <2>1. /\ DOMAIN scores' = DOMAIN scores \union {Arm} /\ scores'[Arm] = traces[Arm]
        /\ \A arm \in DOMAIN scores : arm # Arm => scores'[arm] = scores[arm]
    BY <1>1 DEF With
  <2>2. QED
    BY <1>1, <1>4, <1>5, <2>1 DEF CompareInv, ArmsInOrder
<1>8. RowsAreSettled' /\ ArmUnderWay'
  BY <1>1, RowsStay DEF ArmUnderWay
<1>9. SidecarsKept' /\ TableKept'
  BY <1>1, SidecarsStay, TableStays
<1>10. QED
  BY <1>6, <1>7, <1>8, <1>9 DEF CompareInv

\* A table is rendered of arms that all were scored, and whose rows are settled.
LEMMA RenderKeeps ==
  ASSUME CompareInv, Render
  PROVE  CompareInv'
<1>1. /\ pc = "score" /\ left = <<>> /\ pc' = "idle"
      /\ table' = [run |-> ThisRun, traces |-> scores, metrics |-> metrics]
      /\ UNCHANGED <<traces, sidecars, begun, left, todo, out, metrics, scores>>
  BY DEF Render, diskVars
<1>2. /\ ThisRun > 0 /\ DOMAIN scores \subseteq DOMAIN metrics
      /\ \A arm \in DOMAIN scores : scores[arm] = traces[arm]
  BY <1>1 DEF CompareInv, CompareTypeOK, ArmsInOrder
<1>3. ThisRun \in Nat /\ Of(ThisRun) = Now
  BY <1>2, NowFacts DEF CompareInv
<1>4. /\ ThisRun' = ThisRun /\ Of(ThisRun)' = Now
  BY <1>1, <1>3 DEF ThisRun, Now, Of
<1>5. CompareTypeOK'
  BY <1>1, <1>4 DEF CompareInv, CompareTypeOK
<1>6. ArmsInOrder' /\ RowsAreSettled' /\ ArmUnderWay'
  BY <1>1 DEF ArmsInOrder, RowsAreSettled, ArmUnderWay
<1>7. table'.run = ThisRun /\ table'.traces = scores /\ table'.metrics = metrics
  BY <1>1
<1>8. TablesAreOfTheirRun'
  <2> SUFFICES ASSUME NEW arm \in DOMAIN scores
               PROVE  IF Now.skip
                      THEN \E r \in 1..(ThisRun - 1) :
                             metrics[arm] = MetricsOf(r)' /\ StandFor(scores[arm], r)'
                      ELSE /\ \A f \in Now.fixtures : scores[arm][f] = File(ThisRun, "whole")
                           /\ metrics[arm] = MetricsOf(ThisRun)'
    BY <1>1, <1>4, <1>7 DEF TablesAreOfTheirRun
  <2>1. arm \in DOMAIN metrics /\ scores[arm] = traces[arm]
    BY <1>2
  <2>2. CASE Now.skip
    <3>1. PICK r \in 1..(ThisRun - 1) : metrics[arm] = MetricsOf(r) /\ StandFor(traces[arm], r)
      BY <1>1, <2>1, <2>2 DEF CompareInv, RowsAreSettled
    <3>2. MetricsOf(r)' = MetricsOf(r) /\ StandFor(scores[arm], r)'
      BY <1>1, <2>1, <3>1 DEF MetricsOf, Of, StandFor, Repeats
    <3>3. QED
      BY <2>2, <3>1, <3>2
  <2>3. CASE ~Now.skip
    <3>1. metrics[arm] = MetricsOf(ThisRun) /\ FreshTraces(arm, Now.fixtures)
      BY <1>1, <2>1, <2>3 DEF CompareInv, RowsAreSettled
    <3>2. MetricsOf(ThisRun)' = MetricsOf(ThisRun)
      BY <1>1, <1>4 DEF MetricsOf, Of, ThisRun
    <3>3. QED
      BY <2>1, <2>3, <3>1, <3>2 DEF FreshTraces
  <2>4. QED
    BY <2>2, <2>3
<1>9. TableKept'
  BY <1>3, <1>4, <1>7, <1>8 DEF TableKept
<1>10. SidecarsKept'
  BY <1>1, SidecarsStay
<1>11. QED
  BY <1>5, <1>6, <1>9, <1>10 DEF CompareInv

\* Whatever breaks an invocation off leaves nothing but a trace or a sidecar.
LEMMA BreaksOffKeeps ==
  ASSUME CompareInv, Raises \/ TornTrace \/ TornSidecar
  PROVE  CompareInv'
<1>1. /\ pc' = "idle" /\ UNCHANGED <<begun, left, todo, out, metrics, scores, table>>
  BY DEF Raises, TornTrace, TornSidecar
<1>2. ArmsInOrder' /\ RowsAreSettled' /\ ArmUnderWay'
  BY <1>1 DEF ArmsInOrder, RowsAreSettled, ArmUnderWay
<1>3. TableKept'
  BY <1>1, TableStays
<1>4. /\ traces' \in [ArmLabels -> [Fixtures -> [run : Nat, state : States]]]
      /\ sidecars' \in [ArmLabels -> [state : {"none", "torn", "whole"}, metrics : SUBSET Metrics]]
      /\ SidecarsKept'
  <2>1. CASE Raises /\ UNCHANGED traces
    <3>1. UNCHANGED sidecars
      BY <2>1 DEF Raises
    <3>2. QED
      BY <1>1, <2>1, <3>1, SidecarsStay DEF CompareInv, CompareTypeOK
  <2>2. CASE (Raises /\ ~UNCHANGED traces) \/ TornTrace
    <3>1. PICK f \in todo, made \in States : Written(f, made)
      BY <2>2 DEF Raises, TornTrace, States
    <3>2. pc = "run" /\ ~Now.skip /\ UNCHANGED sidecars
      BY <2>2 DEF Raises, TornTrace
    <3>3. QED
      BY <1>1, <3>1, <3>2, TraceWritten DEF CompareInv, CompareTypeOK
  <2>3. CASE TornSidecar
    <3>1. /\ pc = "run" /\ UNCHANGED traces
          /\ sidecars' = [sidecars EXCEPT ![Arm] = Sidecar("torn", {})]
      BY <2>3 DEF TornSidecar
    <3>2. Sidecar("torn", {}) \in [state : {"none", "torn", "whole"}, metrics : SUBSET Metrics]
      BY DEF Sidecar
    <3>3. sidecars' \in [ArmLabels -> [state : {"none", "torn", "whole"}, metrics : SUBSET Metrics]]
      BY <3>1, <3>2 DEF CompareInv, CompareTypeOK
    <3>4. ASSUME NEW arm \in ArmLabels, sidecars'[arm].state = "whole"
          PROVE  sidecars'[arm] = sidecars[arm]
      <4>1. arm # Arm
        BY <3>1, <3>4 DEF CompareInv, CompareTypeOK, Sidecar
      <4>2. QED
        BY <3>1, <4>1 DEF CompareInv, CompareTypeOK
    <3>5. ThisRun' = ThisRun /\ Now' = Now
      BY <1>1 DEF ThisRun, Now
    <3>6. ASSUME NEW arm \in ArmLabels, sidecars'[arm].state = "whole"
          PROVE  \E r \in 1..ThisRun : SidecarIsOf(arm, r)'
      <4>1. sidecars'[arm] = sidecars[arm]
        BY <3>4, <3>6
      <4>2. PICK r \in 1..ThisRun : SidecarIsOf(arm, r)
        BY <3>6, <4>1 DEF CompareInv, SidecarsKept
      <4>3. SidecarIsOf(arm, r)'
        BY <1>1, <3>1, <3>5, <4>1, <4>2 DEF SidecarIsOf, MetricsOf, StandFor, Of, Repeats
      <4>4. QED
        BY <4>3
    <3>7. QED
      BY <3>1, <3>3, <3>5, <3>6 DEF SidecarsKept, CompareInv, CompareTypeOK
  <2>4. QED
    BY <2>1, <2>2, <2>3
<1>5. CompareTypeOK'
  BY <1>1, <1>4 DEF CompareInv, CompareTypeOK
<1>6. QED
  BY <1>2, <1>3, <1>4, <1>5 DEF CompareInv

LEMMA CompareInvHolds == CompareSpec => []CompareInv
<1>1. CompareInit => CompareInv
  <2> SUFFICES ASSUME CompareInit PROVE CompareInv
    OBVIOUS
  <2>1. NoFile \in [run : Nat, state : States]
    BY DEF NoFile, File, States
  <2>2. traces \in [ArmLabels -> [Fixtures -> [run : Nat, state : States]]]
    BY <2>1 DEF CompareInit
  <2>3. Sidecar("none", {}) \in [state : {"none", "torn", "whole"}, metrics : SUBSET Metrics]
    BY DEF Sidecar
  <2>4. sidecars \in [ArmLabels -> [state : {"none", "torn", "whole"}, metrics : SUBSET Metrics]]
    BY <2>3 DEF CompareInit
  <2>5. CompareTypeOK
    BY <2>2, <2>4 DEF CompareInit, CompareTypeOK
  <2>6. \A arm \in ArmLabels : sidecars[arm].state # "whole"
    BY DEF CompareInit, Sidecar
  <2>7. ThisRun = 0 /\ table.run = 0 /\ pc = "idle"
    BY DEF CompareInit, ThisRun, NoTable
  <2>8. QED
    BY <2>5, <2>6, <2>7
    DEF CompareInv, SidecarsKept, ArmsInOrder, RowsAreSettled, ArmUnderWay, TableKept,
        TablesAreOfTheirRun
<1>2. CompareInv /\ [CompareNext]_compareVars => CompareInv'
  <2> SUFFICES ASSUME CompareInv, [CompareNext]_compareVars PROVE CompareInv'
    OBVIOUS
  <2>1. CASE UNCHANGED compareVars
    <3>1. UNCHANGED <<traces, sidecars, begun, pc, left, todo, out, metrics, scores, table>>
      BY <2>1 DEF compareVars
    <3>2. SidecarsKept' /\ TableKept'
      BY <3>1, SidecarsStay, TableStays
    <3>3. CompareTypeOK' /\ ArmsInOrder'
      BY <3>1 DEF CompareInv, CompareTypeOK, ArmsInOrder, ThisRun, Now
    <3>4. RowsAreSettled' /\ ArmUnderWay'
      BY <3>1, RowsStay DEF CompareInv, ArmUnderWay, FreshTraces, ThisRun, Now, Arm
    <3>5. QED
      BY <3>2, <3>3, <3>4 DEF CompareInv
  <2>2. QED
    BY <2>1, BeginKeeps, LoadKeeps, InvestigateKeeps, FinishKeeps, ScoreKeeps, RenderKeeps,
       BreaksOffKeeps DEF CompareNext
<1>3. QED
  BY <1>1, <1>2, PTL DEF CompareSpec

\* For any bank, any lists of arms and any number of invocations, finished, broken off
\* or killed: metrics.json, if it can be read, is all of one run and its traces are there.
THEOREM SidecarsAreOfOneRun == CompareSpec => []SidecarsAreWhole
<1>1. CompareInv => SidecarsAreWhole
  BY DEF CompareInv, SidecarsKept, SidecarIsOf, SidecarsAreWhole
<1>2. QED
  BY <1>1, CompareInvHolds, PTL

\* A table shows the run it was rendered by, or with --skip-run earlier ones that finished
\* their arms, whatever else the directories hold.
THEOREM TablesShowTheirRun == CompareSpec => []TablesAreOfTheirRun
<1>1. CompareInv => TablesAreOfTheirRun
  BY DEF CompareInv, TableKept
<1>2. QED
  BY <1>1, CompareInvHolds, PTL

-----------------------------------------------------------------------------
(* The Skill experiment.                                                   *)

\* An agent has its role's tools, and read if it carries the Skill.
Agents ==
  {[role |-> role, n |-> n, skill |-> skill, tools |-> ToolsOf(role, skill)] :
     role \in Roles, n \in Nat, skill \in BOOLEAN}
Drafts == UNION {[D -> Agents] : D \in SUBSET Roles}
Rosters == [agents : Drafts, env : Nat, skill : BOOLEAN]
TraceRuns == UNION {[D -> Nat] : D \in SUBSET Nat}
VariantMetrics == [experiment : Nat, fixtures : SUBSET Nat]
OnVariant == {"skill", "environment", "roster", "run", "score"}

ExperimentTypeOK ==
  /\ selections \in Seq(Seq(Nat))
  /\ stage \in {"idle", "next", "cleanup"} \union OnVariant
  /\ labels \in Seq(VARIANTS) /\ undone \in Seq(Nat)
  /\ skillId \in BOOLEAN /\ env \in Nat /\ envs \in Nat /\ draft \in Drafts /\ rosters \in Seq(Rosters)
  /\ runOf \in [VARIANTS -> TraceRuns] /\ sidecar \in [VARIANTS -> VariantMetrics]
  /\ agents \in SUBSET Agents /\ IsFiniteSet(agents)
  /\ stage \in OnVariant => labels # <<>>
  /\ stage # "idle" => Experiment > 0

DraftAgents == {draft[role] : role \in DOMAIN draft}
ResultAgents(label) == AgentsOf(results[label].roster)
Archivable == UNION {AgentsOf(rosters[i]) : i \in 1..Len(rosters)}

\* The draft is of the variant under way, and a variant's agents carry the Skill if that
\* is what it is about; all of this run's rosters are over its one environment.
VariantsApart ==
  /\ stage = "skill" => Label = "skill"
  /\ stage \in {"environment", "roster", "run", "score"} => skillId = (Label = "skill")
  /\ stage \in {"roster", "run", "score"} =>
       env # 0 /\ \A agent \in DraftAgents : agent.skill = skillId
  /\ \A label \in Live :
       /\ results[label].roster.env = env /\ env # 0
       /\ \A agent \in ResultAgents(label) :
            agent \in Agents /\ agent.skill = (label = "skill")

\* What this run will archive, or has still in hand.
InHand ==
  (IF stage = "idle" THEN {} ELSE Archivable) \union (IF stage = "roster" THEN DraftAgents ELSE {})

\* The agents nobody will archive: three at most for each run that is over.
LeftOver(lost, runs) ==
  /\ IsFiniteSet(lost) /\ Cardinality(lost) <= 3 * runs
  /\ agents \ warned \subseteq lost \union InHand

RunsOver == IF stage \in {"idle", "cleanup"} THEN Experiment ELSE Experiment - 1

NoneIsForgotten ==
  /\ stage = "idle" =>
       \A i \in 1..Len(rosters) : AgentsOf(rosters[i]) \intersect agents \subseteq warned
  /\ \E lost \in SUBSET Agents : LeftOver(lost, RunsOver)

\* Run r wrote the metrics, and its traces have not been lost since.
CompletedBy(found, files, r) ==
  /\ found = [experiment |-> r, fixtures |-> Range(selections[r])]
  /\ \A f \in Range(selections[r]) : f \in DOMAIN files /\ files[f] >= r

DiskIsComplete ==
  /\ \A label \in VARIANTS : sidecar[label] # NoSidecar =>
       \E r \in 1..Experiment : CompletedBy(sidecar[label], runOf[label], r)
  /\ stage = "run" =>
       /\ Remains(undone, selections[Experiment])
       /\ \A f \in Before(undone, selections[Experiment]) :
            f \in DOMAIN runOf[Label] /\ runOf[Label][f] >= Experiment
  /\ \A label \in DOMAIN results \ Live :
       \E r \in 1..Experiment :
         CompletedBy(results[label].metrics, results[label].traces, r)

LEMMA ImageOf ==
  ASSUME NEW S, IsFiniteSet(S), NEW g, DOMAIN g = S
  PROVE  LET T == {g[x] : x \in S} IN
         IsFiniteSet(T) /\ Cardinality(T) \in Nat /\ Cardinality(T) <= Cardinality(S)
<1> DEFINE T == {g[x] : x \in S}
           h == [x \in S |-> g[x]]
<1>1. h \in Surjection(S, T)
  BY DEF Surjection
<1> HIDE DEF T, h
<1>2. IsFiniteSet(T) /\ Cardinality(T) <= Cardinality(S)
  BY <1>1, FS_Surjection
<1>3. Cardinality(T) \in Nat
  BY <1>2, FS_CardinalityType
<1>4. QED
  BY <1>2, <1>3 DEF T

\* What makes an agent: its role and whether it carries the Skill settle its tools.
LEMMA AgentsAreSo ==
  \A role \in Roles, n \in Nat, skill \in BOOLEAN :
    [role |-> role, n |-> n, skill |-> skill, tools |-> ToolsOf(role, skill)] \in Agents
BY DEF Agents

\* There is always a number no agent has.
LEMMA NewAgentIsNew ==
  ASSUME NEW role \in Roles, NEW with \in BOOLEAN, agents \in SUBSET Agents, IsFiniteSet(agents)
  PROVE  /\ NewAgent(role, with) \in Agents /\ NewAgent(role, with) \notin agents
         /\ NewAgent(role, with).role = role /\ NewAgent(role, with).skill = with
<1> DEFINE taken == {agent.n : agent \in agents}
           size == Cardinality(agents)
           Free(n) == \A agent \in agents : agent.n # n
<1>1. size \in Nat
  BY FS_CardinalityType
<1>2. IsFiniteSet(taken) /\ Cardinality(taken) <= size /\ Cardinality(taken) \in Nat
  <2> DEFINE number == [agent \in agents |-> agent.n]
  <2>1. taken = {number[agent] : agent \in agents} /\ DOMAIN number = agents
    OBVIOUS
  <2> HIDE DEF number, taken
  <2>2. QED
    BY <2>1, ImageOf
<1>3. \E n \in 1..(size + 1) : Free(n)
  <2> SUFFICES ASSUME \A n \in 1..(size + 1) : ~Free(n) PROVE FALSE
    OBVIOUS
  <2>1. 1..(size + 1) \subseteq taken
    OBVIOUS
  <2>2. Cardinality(1..(size + 1)) = size + 1
    <3>1. 1 \in Int /\ size + 1 \in Int /\ 1 <= size + 1 /\ (size + 1) - 1 + 1 = size + 1
      BY <1>1
    <3>2. QED
      BY <3>1, FS_Interval
  <2>3. Cardinality(1..(size + 1)) <= Cardinality(taken)
    BY <1>2, <2>1, FS_Subset
  <2>4. QED
    BY <1>1, <1>2, <2>2, <2>3
<1> DEFINE free == CHOOSE n \in 1..(size + 1) : Free(n)
<1>4. free \in 1..(size + 1) /\ Free(free)
  BY <1>3
<1>5. NewAgent(role, with) =
        [role |-> role, skill |-> with, tools |-> ToolsOf(role, with), n |-> free]
  BY DEF NewAgent
<1>6. free \in Nat
  BY <1>1, <1>4
<1> HIDE DEF free
<1>7. NewAgent(role, with).n = free
  BY <1>5
<1>8. NewAgent(role, with) \in Agents
  BY <1>5, <1>6 DEF Agents
<1>9. NewAgent(role, with) \notin agents
  BY <1>4, <1>7
<1>10. QED
  BY <1>5, <1>8, <1>9

LEMMA DraftFacts ==
  ASSUME ExperimentTypeOK
  PROVE  /\ DOMAIN draft \subseteq Roles /\ draft \in [DOMAIN draft -> Agents]
         /\ DraftAgents \subseteq Agents /\ AgentsOf(ThisRoster) = DraftAgents
         /\ NextRole \subseteq Roles \ DOMAIN draft
         /\ ThisRoster \in Rosters
<1>1. PICK D \in SUBSET Roles : draft \in [D -> Agents]
  BY DEF ExperimentTypeOK, Drafts
<1>2. DOMAIN draft \subseteq Roles /\ draft \in [DOMAIN draft -> Agents] /\ DraftAgents \subseteq Agents
  BY <1>1 DEF DraftAgents
<1>3. AgentsOf(ThisRoster) = DraftAgents
  BY DEF AgentsOf, ThisRoster, DraftAgents
<1>4. NextRole \subseteq Roles \ DOMAIN draft
  BY DEF NextRole, Roles
<1>5. ThisRoster \in Rosters
  BY DEF ThisRoster, Rosters, ExperimentTypeOK
<1>6. QED
  BY <1>2, <1>3, <1>4, <1>5

\* Creating an agent makes one that no roster has and adds it to the draft.
LEMMA AgentCreated ==
  ASSUME ExperimentTypeOK, NEW role \in Roles, CreateAgent(role)
  PROVE  \E agent \in Agents \ agents :
           /\ stage = "roster" /\ agent.skill = skillId
           /\ agents' = agents \union {agent}
           /\ draft' \in Drafts /\ DraftAgents' = DraftAgents \union {agent}
           /\ UNCHANGED <<configured, selections, reusing, stage, labels, undone, skillId, env,
                          rosters, results, runOf, sidecar, warned, uploaded, envs>>
<1> DEFINE agent == NewAgent(role, skillId)
<1>1. /\ agent \in Agents /\ agent \notin agents /\ agent.role = role /\ agent.skill = skillId
  BY NewAgentIsNew DEF ExperimentTypeOK
<1>2. /\ stage = "roster" /\ role \in NextRole /\ agents' = agents \union {agent}
      /\ draft' = Put(draft, role, agent)
      /\ UNCHANGED <<configured, selections, reusing, stage, labels, undone, skillId, env,
                     rosters, results, runOf, sidecar, warned, uploaded, envs>>
  BY <1>1 DEF CreateAgent, Created, planVars, filesVars
<1> HIDE DEF agent
<1>3. /\ role \notin DOMAIN draft /\ draft \in [DOMAIN draft -> Agents] /\ DOMAIN draft \subseteq Roles
  BY <1>2, DraftFacts
<1>4. /\ draft' \in [DOMAIN draft \union {role} -> Agents] /\ draft'[role] = agent
      /\ \A k \in DOMAIN draft : k # role => draft'[k] = draft[k]
  <2>1. draft' = [k \in DOMAIN draft \union {role} |-> IF k = role THEN agent ELSE draft[k]]
    BY <1>2 DEF Put
  <2>2. QED
    BY <1>1, <1>3, <2>1
<1>5. draft' \in Drafts
  <2>1. DOMAIN draft \union {role} \in SUBSET Roles
    BY <1>3
  <2>2. QED
    BY <1>4, <2>1 DEF Drafts
<1>6. DraftAgents' = DraftAgents \union {agent}
  BY <1>3, <1>4 DEF DraftAgents
<1>7. QED
  BY <1>1, <1>2, <1>5, <1>6

\* The list of fixtures of the run and the variant under way.
LEMMA RunFacts ==
  ASSUME ExperimentTypeOK
  PROVE  /\ Experiment \in Nat /\ \A r \in 1..Experiment : selections[r] \in Seq(Nat)
         /\ stage # "idle" => Experiment \in 1..Experiment
         /\ labels # <<>> => Label \in VARIANTS /\ Tail(labels) \in Seq(VARIANTS)
         /\ stage \in OnVariant => labels # <<>> /\ Label \in VARIANTS
<1>1. Experiment \in Nat /\ \A r \in 1..Experiment : selections[r] \in Seq(Nat)
  BY LenProperties, ElementOfSeq DEF ExperimentTypeOK, Experiment
<1>2. stage # "idle" => Experiment \in 1..Experiment
  BY <1>1 DEF ExperimentTypeOK
<1>3. labels # <<>> => Label \in VARIANTS /\ Tail(labels) \in Seq(VARIANTS)
  BY HeadTailProperties DEF ExperimentTypeOK, Label
<1>4. QED
  BY <1>1, <1>2, <1>3 DEF ExperimentTypeOK

\* One more trace of the variant under way, or the same again.
LEMMA FixtureTraced ==
  ASSUME ExperimentTypeOK, RunFixture
  PROVE  /\ Head(undone) \in Nat /\ Tail(undone) \in Seq(Nat) /\ undone # <<>> /\ stage = "run"
         /\ runOf' \in [VARIANTS -> TraceRuns]
         /\ \A label \in VARIANTS : label # Label => runOf'[label] = runOf[label]
         /\ DOMAIN runOf'[Label] = DOMAIN runOf[Label] \union {Head(undone)}
         /\ runOf'[Label][Head(undone)] = Experiment
         /\ \A f \in DOMAIN runOf[Label] : f # Head(undone) => runOf'[Label][f] = runOf[Label][f]
<1>1. /\ stage = "run" /\ undone # <<>>
      /\ runOf' = [runOf EXCEPT ![Label] = Put(runOf[Label], Head(undone), Experiment)]
  BY DEF RunFixture, Traced
<1>2. Head(undone) \in Nat /\ Tail(undone) \in Seq(Nat)
  BY <1>1, HeadTailProperties DEF ExperimentTypeOK
<1>3. /\ Experiment \in Nat /\ Label \in VARIANTS /\ runOf \in [VARIANTS -> TraceRuns]
  BY <1>1, RunFacts DEF ExperimentTypeOK, OnVariant
<1>4. PICK D \in SUBSET Nat : runOf[Label] \in [D -> Nat]
  BY <1>3 DEF TraceRuns
<1> DEFINE f0 == Head(undone)
           files == [k \in DOMAIN runOf[Label] \union {f0} |->
                       IF k = f0 THEN Experiment ELSE runOf[Label][k]]
<1>5. Put(runOf[Label], f0, Experiment) = files
  BY DEF Put
<1>6. files \in [D \union {f0} -> Nat] /\ D \union {f0} \in SUBSET Nat
  BY <1>2, <1>3, <1>4
<1>7. files \in TraceRuns
  BY <1>6 DEF TraceRuns
<1>8. /\ DOMAIN files = DOMAIN runOf[Label] \union {f0} /\ files[f0] = Experiment
      /\ \A f \in DOMAIN runOf[Label] : f # f0 => files[f] = runOf[Label][f]
  OBVIOUS
<1> HIDE DEF files
<1>9. runOf' = [runOf EXCEPT ![Label] = files]
  BY <1>1, <1>5
<1>10. /\ runOf' \in [VARIANTS -> TraceRuns] /\ runOf'[Label] = files
       /\ \A label \in VARIANTS : label # Label => runOf'[label] = runOf[label]
  BY <1>3, <1>7, <1>9
<1>11. QED
  BY <1>1, <1>2, <1>8, <1>10

LEMMA ExperimentTypeStep ==
  ASSUME ExperimentTypeOK, [ExperimentNext]_experimentVars
  PROVE  ExperimentTypeOK'
<1> USE DEF planVars, rosterVars, filesVars, remoteVars
<1>0. /\ Experiment \in Nat /\ \A r \in 1..Experiment : selections[r] \in Seq(Nat)
      /\ stage # "idle" => Experiment \in 1..Experiment
      /\ labels # <<>> => Label \in VARIANTS /\ Tail(labels) \in Seq(VARIANTS)
      /\ stage \in OnVariant => labels # <<>> /\ Label \in VARIANTS
  BY RunFacts
<1>1. ASSUME NEW fixtures \in Selections, NEW variants \in VariantLists, NEW reuse \in BOOLEAN,
             BeginExperiment(fixtures, variants, reuse)
      PROVE  ExperimentTypeOK'
  <2>1. fixtures \in Seq(Nat) /\ variants \in Seq(VARIANTS)
    BY SkillExperimentAssumption
  <2>2. /\ selections' = Append(selections, fixtures) /\ labels' = variants /\ stage' = "next"
        /\ env' = 0 /\ rosters' = <<>>
        /\ UNCHANGED <<configured, undone, skillId, draft, runOf, sidecar, agents, envs>>
    BY <1>1 DEF BeginExperiment
  <2>3. selections' \in Seq(Seq(Nat)) /\ Len(selections') = Experiment + 1
    BY <2>1, <2>2, AppendProperties DEF ExperimentTypeOK, Experiment
  <2>4. Experiment' > 0
    BY <1>0, <2>3 DEF Experiment
  <2>5. QED
    BY <2>1, <2>2, <2>3, <2>4 DEF ExperimentTypeOK, OnVariant
<1>2. ASSUME ReuseFromDisk \/ ScoreVariant
      PROVE  ExperimentTypeOK'
  <2>1. /\ stage # "idle" /\ labels # <<>> /\ labels' = Tail(labels) /\ stage' = "next"
        /\ UNCHANGED <<configured, selections, undone, skillId, env, draft, rosters, runOf, sidecar,
                       agents, envs>>
    BY <1>0, <1>2 DEF ReuseFromDisk, ScoreVariant, NextLabel, OnVariant
  <2>2. QED
    BY <1>0, <2>1 DEF ExperimentTypeOK, OnVariant, Experiment
<1>3. ASSUME NextVariant \/ EnsureSkill
      PROVE  ExperimentTypeOK'
  <2>1. /\ stage # "idle" /\ labels # <<>> /\ stage' \in {"skill", "environment"}
        /\ skillId' \in BOOLEAN
        /\ UNCHANGED <<configured, selections, labels, undone, env, draft, rosters, runOf, sidecar,
                       agents, envs>>
    BY <1>0, <1>3 DEF NextVariant, EnsureSkill, OnVariant
  <2>2. QED
    BY <2>1 DEF ExperimentTypeOK, OnVariant, Experiment
<1>4. ASSUME MakeEnv
      PROVE  ExperimentTypeOK'
  <2>1. /\ stage = "environment" /\ stage' = "roster" /\ draft' = Configured
        /\ UNCHANGED <<configured, selections, labels, undone, skillId, rosters, runOf, sidecar,
                       agents>>
    BY <1>4 DEF MakeEnv, EnvReady
  <2>2. \A role \in Roles : Operators(role) \in Agents
    BY AgentsAreSo DEF Operators
  <2>3. /\ Configured \in [configured \intersect Roles -> Agents]
        /\ configured \intersect Roles \in SUBSET Roles
    BY <2>2 DEF Configured
  <2>4. draft' \in Drafts
    BY <2>1, <2>3 DEF Drafts
  <2>5. env' \in Nat /\ envs' \in Nat
    BY <1>4 DEF MakeEnv, FromMakeEnv, OperatorsEnv, ExperimentTypeOK
  <2>6. QED
    BY <1>0, <2>1, <2>4, <2>5 DEF ExperimentTypeOK, OnVariant, Experiment
<1>5. ASSUME NEW role \in Roles, CreateAgent(role)
      PROVE  ExperimentTypeOK'
  <2>1. PICK agent \in Agents \ agents :
          /\ stage = "roster" /\ agents' = agents \union {agent} /\ draft' \in Drafts
          /\ UNCHANGED <<configured, selections, stage, labels, undone, skillId, env,
                         rosters, runOf, sidecar, envs>>
    BY <1>5, AgentCreated
  <2>2. agents' \in SUBSET Agents /\ IsFiniteSet(agents')
    BY <2>1, FS_AddElement DEF ExperimentTypeOK
  <2>3. QED
    BY <2>1, <2>2 DEF ExperimentTypeOK, OnVariant, Experiment
<1>6. ASSUME RosterReady
      PROVE  ExperimentTypeOK'
  <2>1. /\ stage = "roster" /\ stage' = "run" /\ rosters' = Append(rosters, ThisRoster)
        /\ undone' = selections[Experiment]
        /\ UNCHANGED <<configured, selections, labels, skillId, env, draft, runOf, sidecar, agents, envs>>
    BY <1>6 DEF RosterReady
  <2>2. rosters' \in Seq(Rosters)
    BY <2>1, DraftFacts, AppendProperties DEF ExperimentTypeOK
  <2>3. undone' \in Seq(Nat)
    BY <1>0, <2>1
  <2>4. QED
    BY <2>1, <2>2, <2>3 DEF ExperimentTypeOK, OnVariant, Experiment
<1>7. ASSUME RunFixture
      PROVE  ExperimentTypeOK'
  <2>1. /\ stage = "run" /\ undone' = Tail(undone)
        /\ UNCHANGED <<configured, selections, stage, labels, skillId, env, draft, rosters, sidecar,
                       agents, envs>>
    BY <1>7 DEF RunFixture
  <2>2. runOf' \in [VARIANTS -> TraceRuns] /\ Tail(undone) \in Seq(Nat)
    BY <1>7, FixtureTraced
  <2>3. QED
    BY <2>1, <2>2 DEF ExperimentTypeOK, OnVariant, Experiment
<1>8. ASSUME FinishVariant
      PROVE  ExperimentTypeOK'
  <2> DEFINE row == [experiment |-> Experiment, fixtures |-> Range(selections[Experiment])]
  <2>1. /\ stage = "run" /\ stage' = "score" /\ sidecar' = [sidecar EXCEPT ![Label] = row]
        /\ UNCHANGED <<configured, selections, labels, undone, skillId, env, draft, rosters, runOf,
                       agents, envs>>
    BY <1>8 DEF FinishVariant
  <2>2. selections[Experiment] \in Seq(Nat)
    BY <1>0, <2>1
  <2>3. Range(selections[Experiment]) \subseteq Nat
    BY <2>2, LenProperties, ElementOfSeq DEF Range
  <2>4. row \in VariantMetrics
    BY <1>0, <2>3 DEF VariantMetrics
  <2> HIDE DEF row
  <2>5. sidecar' \in [VARIANTS -> VariantMetrics]
    BY <2>1, <2>4 DEF ExperimentTypeOK
  <2>6. QED
    BY <2>1, <2>5 DEF ExperimentTypeOK, OnVariant, Experiment
<1>9. ASSUME ExperimentRaises \/ AnswerLost \/ VariantsDone
      PROVE  ExperimentTypeOK'
  <2>1. /\ stage # "idle" /\ stage' = "cleanup"
        /\ UNCHANGED <<configured, selections, labels, undone, skillId, env, draft, rosters, runOf,
                       sidecar>>
    BY <1>9 DEF ExperimentRaises, AnswerLost, VariantsDone, EndOfRun
  <2>2. agents' \in SUBSET Agents /\ IsFiniteSet(agents')
    <3>1. CASE UNCHANGED agents
      BY <3>1 DEF ExperimentTypeOK
    <3>2. CASE ~UNCHANGED agents
      <4>1. PICK role \in NextRole : agents' = agents \union {NewAgent(role, skillId)}
        BY <1>9, <3>2 DEF ExperimentRaises, AnswerLost, VariantsDone
      <4>2. role \in Roles /\ skillId \in BOOLEAN
        BY DraftFacts DEF ExperimentTypeOK
      <4>3. NewAgent(role, skillId) \in Agents
        BY <4>2, NewAgentIsNew DEF ExperimentTypeOK
      <4>4. QED
        BY <4>1, <4>3, FS_AddElement DEF ExperimentTypeOK
    <3>3. QED
      BY <3>1, <3>2
  <2>3. envs' \in Nat
    BY <1>9 DEF ExperimentRaises, AnswerLost, VariantsDone, ExperimentTypeOK
  <2>4. QED
    BY <2>1, <2>2, <2>3 DEF ExperimentTypeOK, OnVariant, Experiment
<1>10. ASSUME CleanUp
       PROVE  ExperimentTypeOK'
  <2>1. /\ stage' = "idle"
        /\ UNCHANGED <<configured, selections, labels, undone, skillId, env, draft, rosters, runOf,
                       sidecar, envs>>
    BY <1>10 DEF CleanUp, Archive
  <2>2. agents' \subseteq agents
    BY <1>10 DEF CleanUp, Archive
  <2>3. agents' \in SUBSET Agents /\ IsFiniteSet(agents')
    BY <2>2, FS_Subset DEF ExperimentTypeOK
  <2>4. QED
    BY <2>1, <2>3 DEF ExperimentTypeOK, OnVariant, Experiment
<1>11. CASE UNCHANGED experimentVars
  BY <1>11 DEF experimentVars, ExperimentTypeOK, OnVariant, Experiment
<1>12. QED
  BY <1>1, <1>2, <1>3, <1>4, <1>5, <1>6, <1>7, <1>8, <1>9, <1>10, <1>11 DEF ExperimentNext

LEMMA ExperimentTypeStart == ASSUME ExperimentInit PROVE ExperimentTypeOK
<1>1. \A role \in Roles : Operators(role) \in Agents
  BY AgentsAreSo DEF Operators
<1>2. configured \intersect Roles \in SUBSET Roles
  OBVIOUS
<1>3. agents \in SUBSET Agents
  BY <1>1, <1>2 DEF ExperimentInit
<1>4. IsFiniteSet(agents)
  <2> DEFINE ops == Configured
  <2>1. IsFiniteSet(Roles)
    <3>1. IsFiniteSet({}) /\ IsFiniteSet({"exposure"})
      BY FS_EmptySet, FS_Singleton
    <3>2. IsFiniteSet({"exposure"} \union {"entity_resolution"})
      BY <3>1, FS_AddElement
    <3>3. IsFiniteSet(({"exposure"} \union {"entity_resolution"}) \union {"coordinator"})
      BY <3>2, FS_AddElement
    <3>4. Roles = ({"exposure"} \union {"entity_resolution"}) \union {"coordinator"}
      BY DEF Roles
    <3>5. QED
      BY <3>3, <3>4
  <2>2. IsFiniteSet(configured \intersect Roles)
    BY <1>2, <2>1, FS_Subset
  <2>3. /\ agents = {ops[role] : role \in configured \intersect Roles}
        /\ DOMAIN ops = configured \intersect Roles
    BY DEF ExperimentInit, Configured
  <2> HIDE DEF ops
  <2>4. QED
    BY <2>2, <2>3, ImageOf
<1>5. Nothing \in Drafts /\ Nothing \in TraceRuns
  <2>1. Nothing \in [{} -> Agents] /\ Nothing \in [{} -> Nat]
    BY DEF Nothing
  <2>2. {} \in SUBSET Roles /\ {} \in SUBSET Nat
    OBVIOUS
  <2>3. QED
    BY <2>1, <2>2 DEF Drafts, TraceRuns
<1>6. NoSidecar \in VariantMetrics
  BY DEF NoSidecar, VariantMetrics
<1>7. runOf \in [VARIANTS -> TraceRuns] /\ sidecar \in [VARIANTS -> VariantMetrics]
  BY <1>5, <1>6 DEF ExperimentInit
<1>8. /\ selections = <<>> /\ labels = <<>> /\ undone = <<>> /\ rosters = <<>> /\ draft = Nothing
      /\ stage = "idle" /\ skillId \in BOOLEAN /\ env \in Nat /\ envs \in Nat
  BY DEF ExperimentInit, OperatorsEnv
<1>9. /\ selections \in Seq(Seq(Nat)) /\ labels \in Seq(VARIANTS) /\ undone \in Seq(Nat)
      /\ rosters \in Seq(Rosters)
  BY <1>8, EmptySeq
<1>10. stage \in {"idle", "next", "cleanup"} \union OnVariant /\ stage \notin OnVariant
  BY <1>8 DEF OnVariant
<1>11. QED
  BY <1>3, <1>4, <1>5, <1>7, <1>8, <1>9, <1>10 DEF ExperimentTypeOK

LEMMA ExperimentTypeHolds == ExperimentSpec => []ExperimentTypeOK
<1>1. ExperimentInit => ExperimentTypeOK
  BY ExperimentTypeStart
<1>2. ExperimentTypeOK /\ [ExperimentNext]_experimentVars => ExperimentTypeOK'
  BY ExperimentTypeStep
<1>3. QED
  BY <1>1, <1>2, PTL DEF ExperimentSpec

\* What joining the results does to them.
LEMMA ResultJoins ==
  ASSUME NEW result, results' = Put(results, Label, result)
  PROVE  /\ DOMAIN results' = DOMAIN results \union {Label} /\ results'[Label] = result
         /\ \A label \in DOMAIN results : label # Label => results'[label] = results[label]
         /\ \A label \in DOMAIN results' :
              label \in Live' <=> IF label = Label THEN ~result.reused ELSE label \in Live
<1>1. /\ DOMAIN results' = DOMAIN results \union {Label} /\ results'[Label] = result
      /\ \A label \in DOMAIN results : label # Label => results'[label] = results[label]
  BY DEF Put
<1>2. QED
  BY <1>1 DEF Live

-----------------------------------------------------------------------------
(* What is on disk, and what is reused of it.                              *)

LEMMA CompletedStays ==
  ASSUME NEW found, NEW files, NEW r \in 1..Experiment, CompletedBy(found, files, r),
         selections'[r] = selections[r]
  PROVE  CompletedBy(found, files, r)'
BY DEF CompletedBy

\* A step that leaves the disk, the results and the selections alone.
LEMMA DiskStays ==
  ASSUME DiskIsComplete, UNCHANGED <<selections, runOf, sidecar, results>>,
         stage' = "run" => UNCHANGED <<stage, labels, undone>>
  PROVE  DiskIsComplete'
<1>1. Experiment' = Experiment
  BY DEF Experiment
<1>2. \A found, files, r : CompletedBy(found, files, r)' <=> CompletedBy(found, files, r)
  BY DEF CompletedBy
<1>3. ASSUME NEW label \in VARIANTS, sidecar'[label] # NoSidecar
      PROVE  \E r \in 1..Experiment : CompletedBy(sidecar[label], runOf[label], r)'
  BY <1>2, <1>3 DEF DiskIsComplete, CompletedBy
<1>4. ASSUME NEW label \in DOMAIN results' \ Live'
      PROVE  \E r \in 1..Experiment :
               CompletedBy(results[label].metrics, results[label].traces, r)'
  BY <1>2, <1>4 DEF DiskIsComplete, CompletedBy, Live
<1>5. ASSUME stage' = "run"
      PROVE  /\ Remains(undone', selections'[Experiment])
             /\ \A f \in Before(undone', selections'[Experiment]) :
                  f \in DOMAIN runOf'[Label'] /\ runOf'[Label'][f] >= Experiment
  BY <1>5 DEF DiskIsComplete, Label
<1>6. QED
  BY <1>1, <1>3, <1>4, <1>5 DEF DiskIsComplete

LEMMA DiskAtBegin ==
  ASSUME ExperimentTypeOK, DiskIsComplete, NEW fixtures \in Selections,
         NEW variants \in VariantLists, NEW reuse \in BOOLEAN,
         BeginExperiment(fixtures, variants, reuse)
  PROVE  DiskIsComplete'
<1>1. /\ selections' = Append(selections, fixtures) /\ stage' = "next" /\ results' = Nothing
      /\ UNCHANGED <<runOf, sidecar>>
  BY DEF BeginExperiment, filesVars
<1>2. fixtures \in Seq(Nat) /\ selections \in Seq(Seq(Nat)) /\ Experiment \in Nat
  BY SkillExperimentAssumption, RunFacts DEF ExperimentTypeOK
<1>3. Experiment' = Experiment + 1 /\ \A r \in 1..Experiment : selections'[r] = selections[r]
  BY <1>1, <1>2, AppendProperties DEF Experiment
<1>4. ASSUME NEW label \in VARIANTS, sidecar'[label] # NoSidecar
      PROVE  \E r \in 1..Experiment' : CompletedBy(sidecar[label], runOf[label], r)'
  <2>1. PICK r \in 1..Experiment : CompletedBy(sidecar[label], runOf[label], r)
    BY <1>1, <1>4 DEF DiskIsComplete
  <2>2. r \in 1..Experiment' /\ selections'[r] = selections[r]
    BY <1>2, <1>3
  <2>3. CompletedBy(sidecar[label], runOf[label], r)'
    BY <1>1, <2>1, <2>2 DEF CompletedBy
  <2>4. QED
    BY <2>2, <2>3
<1>5. DOMAIN results' = {}
  BY <1>1 DEF Nothing
<1>6. QED
  BY <1>1, <1>4, <1>5 DEF DiskIsComplete

LEMMA DiskWhenReused ==
  ASSUME ExperimentTypeOK, DiskIsComplete, ReuseFromDisk \/ ScoreVariant
  PROVE  DiskIsComplete'
<1> DEFINE result == IF stage = "next" THEN Result(DiskRoster, TRUE, sidecar[Label])
                     ELSE Result(ThisRoster, FALSE, sidecar[Label])
<1>1. /\ results' = Put(results, Label, result) /\ stage' = "next" /\ labels # <<>>
      /\ UNCHANGED <<selections, runOf, sidecar>>
      /\ stage = "next" => sidecar[Label] # NoSidecar
  BY RunFacts DEF ReuseFromDisk, ScoreVariant, NextLabel, planVars, filesVars, OnDisk, OnVariant
<1>2. result.reused <=> stage = "next"
  BY DEF Result
<1>3. result.metrics = sidecar[Label] /\ result.traces = runOf[Label]
  BY DEF Result
<1>4. Label \in VARIANTS
  BY <1>1, RunFacts
<1> HIDE DEF result
<1>5. /\ DOMAIN results' = DOMAIN results \union {Label} /\ results'[Label] = result
      /\ \A label \in DOMAIN results : label # Label => results'[label] = results[label]
      /\ \A label \in DOMAIN results' :
           label \in Live' <=> IF label = Label THEN ~result.reused ELSE label \in Live
  BY <1>1, ResultJoins
<1>6. Experiment' = Experiment
  BY <1>1 DEF Experiment
<1>7. \A found, files, r : CompletedBy(found, files, r)' <=> CompletedBy(found, files, r)
  BY <1>1 DEF CompletedBy
<1>8. ASSUME NEW label \in DOMAIN results' \ Live'
      PROVE  \E r \in 1..Experiment :
               CompletedBy(results'[label].metrics, results'[label].traces, r)
  <2>1. CASE label = Label
    <3>1. sidecar[Label] # NoSidecar
      BY <1>1, <1>2, <1>5, <1>8, <2>1
    <3>2. PICK r \in 1..Experiment : CompletedBy(sidecar[Label], runOf[Label], r)
      BY <1>4, <3>1 DEF DiskIsComplete
    <3>3. results'[label].metrics = sidecar[Label] /\ results'[label].traces = runOf[Label]
      BY <1>3, <1>5, <2>1
    <3>4. QED
      BY <3>2, <3>3
  <2>2. CASE label # Label
    <3>1. label \in DOMAIN results \ Live /\ results'[label] = results[label]
      BY <1>5, <1>8, <2>2
    <3>2. QED
      BY <3>1 DEF DiskIsComplete
  <2>3. QED
    BY <2>1, <2>2
<1>9. \A label \in DOMAIN results' \ Live' :
        \E r \in 1..Experiment : CompletedBy(results[label].metrics, results[label].traces, r)'
  BY <1>1, <1>8 DEF CompletedBy
<1>10. \A label \in VARIANTS : sidecar'[label] # NoSidecar =>
         \E r \in 1..Experiment : CompletedBy(sidecar[label], runOf[label], r)'
  BY <1>1 DEF DiskIsComplete, CompletedBy
<1>11. QED
  BY <1>1, <1>6, <1>9, <1>10 DEF DiskIsComplete

\* The fixtures behind have their traces, and a trace that is written is the latest.
LEMMA DiskWhenRun ==
  ASSUME ExperimentTypeOK, DiskIsComplete, RunFixture
  PROVE  DiskIsComplete'
<1> DEFINE f0 == Head(undone)
           list == selections[Experiment]
<1>1. /\ undone' = Tail(undone) /\ UNCHANGED <<selections, stage, labels, results, sidecar>>
  BY DEF RunFixture, planVars
<1>2. /\ Tail(undone) \in Seq(Nat) /\ undone # <<>> /\ stage = "run"
      /\ runOf' \in [VARIANTS -> TraceRuns]
      /\ \A label \in VARIANTS : label # Label => runOf'[label] = runOf[label]
      /\ DOMAIN runOf'[Label] = DOMAIN runOf[Label] \union {f0}
      /\ runOf'[Label][f0] = Experiment
      /\ \A f \in DOMAIN runOf[Label] : f # f0 => runOf'[Label][f] = runOf[Label][f]
  BY FixtureTraced
<1>3. /\ Experiment \in Nat /\ Experiment \in 1..Experiment /\ list \in Seq(Nat)
      /\ Label \in VARIANTS /\ undone \in Seq(Nat) /\ Remains(undone, list)
  BY <1>2, RunFacts DEF OnVariant, ExperimentTypeOK, DiskIsComplete
<1>4. Experiment' = Experiment /\ Label' = Label /\ selections'[Experiment'] = list
  BY <1>1 DEF Experiment, Label
<1>5. /\ Remains(Tail(undone), list)
      /\ Before(Tail(undone), list) = Before(undone, list) \union {f0}
  BY <1>2, <1>3, OneFurther
<1> HIDE DEF f0, list
<1>6. ASSUME NEW label \in VARIANTS, sidecar'[label] # NoSidecar
      PROVE  \E r \in 1..Experiment : CompletedBy(sidecar[label], runOf[label], r)'
  <2>1. PICK r \in 1..Experiment : CompletedBy(sidecar[label], runOf[label], r)
    BY <1>1, <1>6 DEF DiskIsComplete
  <2>2. r \in Nat /\ r <= Experiment
    BY <1>3
  <2>3. ASSUME NEW f \in Range(selections[r])
        PROVE  f \in DOMAIN runOf'[label] /\ runOf'[label][f] >= r
    <3>1. f \in DOMAIN runOf[label] /\ runOf[label][f] >= r
      BY <2>1 DEF CompletedBy
    <3>2. CASE label # Label
      BY <1>2, <3>1, <3>2
    <3>3. CASE label = Label /\ f = f0
      BY <1>2, <1>3, <2>2, <3>3
    <3>4. CASE label = Label /\ f # f0
      BY <1>2, <3>1, <3>4
    <3>5. QED
      BY <3>2, <3>3, <3>4
  <2>4. CompletedBy(sidecar[label], runOf[label], r)'
    BY <1>1, <2>1, <2>3 DEF CompletedBy
  <2>5. QED
    BY <2>4
<1>7. ASSUME NEW f \in Before(Tail(undone), list)
      PROVE  f \in DOMAIN runOf'[Label] /\ runOf'[Label][f] >= Experiment
  <2>1. CASE f = f0
    BY <1>2, <1>3, <2>1
  <2>2. CASE f # f0
    <3>1. f \in Before(undone, list)
      BY <1>5, <1>7, <2>2
    <3>2. f \in DOMAIN runOf[Label] /\ runOf[Label][f] >= Experiment
      BY <1>2, <3>1 DEF DiskIsComplete, list
    <3>3. QED
      BY <1>2, <2>2, <3>2
  <2>3. QED
    BY <2>1, <2>2
<1>8. \A label \in DOMAIN results' \ Live' :
        \E r \in 1..Experiment : CompletedBy(results[label].metrics, results[label].traces, r)'
  BY <1>1 DEF DiskIsComplete, CompletedBy, Live
<1>9. QED
  BY <1>1, <1>4, <1>5, <1>6, <1>7, <1>8 DEF DiskIsComplete

\* The sidecar is written when no fixture is left.
LEMMA DiskWhenFinished ==
  ASSUME ExperimentTypeOK, DiskIsComplete, FinishVariant
  PROVE  DiskIsComplete'
<1> DEFINE list == selections[Experiment]
           row == [experiment |-> Experiment, fixtures |-> Range(list)]
<1>1. /\ stage = "run" /\ undone = <<>> /\ stage' = "score"
      /\ sidecar' = [sidecar EXCEPT ![Label] = row]
      /\ UNCHANGED <<selections, results, runOf>>
  BY DEF FinishVariant, planVars
<1>2. /\ Experiment \in Nat /\ Experiment \in 1..Experiment /\ list \in Seq(Nat)
      /\ Label \in VARIANTS
  BY <1>1, RunFacts DEF OnVariant
<1>3. Before(undone, list) = Range(list)
  <2>1. Len(undone) = 0 /\ Len(list) \in Nat /\ Len(list) - 0 = Len(list)
    BY <1>1, <1>2, LenProperties
  <2>2. DOMAIN list = 1..Len(list)
    BY <1>2, LenProperties
  <2>3. QED
    BY <2>1, <2>2 DEF Before, Range
<1>4. CompletedBy(row, runOf[Label], Experiment)
  BY <1>1, <1>2, <1>3 DEF DiskIsComplete, CompletedBy
<1> HIDE DEF row, list
<1>5. /\ sidecar'[Label] = row
      /\ \A label \in VARIANTS : label # Label => sidecar'[label] = sidecar[label]
  BY <1>1, <1>2 DEF ExperimentTypeOK
<1>6. Experiment' = Experiment
  BY <1>1 DEF Experiment
<1>7. ASSUME NEW label \in VARIANTS, sidecar'[label] # NoSidecar
      PROVE  \E r \in 1..Experiment : CompletedBy(sidecar'[label], runOf[label], r)
  <2>1. CASE label = Label
    BY <1>2, <1>4, <1>5, <2>1
  <2>2. CASE label # Label
    BY <1>5, <1>7, <2>2 DEF DiskIsComplete
  <2>3. QED
    BY <2>1, <2>2
<1>8. \A label \in VARIANTS : sidecar'[label] # NoSidecar =>
        \E r \in 1..Experiment : CompletedBy(sidecar[label], runOf[label], r)'
  BY <1>1, <1>7 DEF CompletedBy
<1>9. \A label \in DOMAIN results' \ Live' :
        \E r \in 1..Experiment : CompletedBy(results[label].metrics, results[label].traces, r)'
  BY <1>1 DEF DiskIsComplete, CompletedBy, Live
<1>10. QED
  BY <1>1, <1>6, <1>8, <1>9 DEF DiskIsComplete

LEMMA DiskStep ==
  ASSUME ExperimentTypeOK, DiskIsComplete, [ExperimentNext]_experimentVars
  PROVE  DiskIsComplete'
<1> USE DEF planVars, rosterVars, filesVars, remoteVars
<1>1. CASE NextVariant \/ EnsureSkill \/ MakeEnv \/ ExperimentRaises \/ AnswerLost \/ VariantsDone
           \/ CleanUp
  <2>1. UNCHANGED <<selections, runOf, sidecar, results>> /\ stage' # "run"
    BY <1>1 DEF NextVariant, EnsureSkill, MakeEnv, EnvReady, ExperimentRaises, AnswerLost, VariantsDone,
                CleanUp, Archive, EndOfRun
  <2>2. QED
    BY <2>1, DiskStays
<1>2. ASSUME NEW role \in Roles, CreateAgent(role)
      PROVE  DiskIsComplete'
  <2>1. UNCHANGED <<selections, runOf, sidecar, results>> /\ stage' # "run"
    BY <1>2, AgentCreated
  <2>2. QED
    BY <2>1, DiskStays
<1>3. ASSUME RosterReady
      PROVE  DiskIsComplete'
  <2>1. /\ UNCHANGED <<selections, runOf, sidecar, results>> /\ stage = "roster" /\ stage' = "run"
        /\ undone' = selections[Experiment]
    BY <1>3 DEF RosterReady
  <2>2. Experiment' = Experiment
    BY <2>1 DEF Experiment
  <2>3. selections[Experiment] \in Seq(Nat)
    BY <2>1, RunFacts
  <2>4. Remains(undone', selections'[Experiment]) /\ Before(undone', selections'[Experiment]) = {}
    BY <2>1, <2>3, AllAhead
  <2>5. \A label \in VARIANTS : sidecar'[label] # NoSidecar =>
          \E r \in 1..Experiment : CompletedBy(sidecar[label], runOf[label], r)'
    BY <2>1 DEF DiskIsComplete, CompletedBy
  <2>6. \A label \in DOMAIN results' \ Live' :
          \E r \in 1..Experiment : CompletedBy(results[label].metrics, results[label].traces, r)'
    BY <2>1 DEF DiskIsComplete, CompletedBy, Live
  <2>7. QED
    BY <2>2, <2>4, <2>5, <2>6 DEF DiskIsComplete
<1>4. CASE UNCHANGED experimentVars
  BY <1>4, DiskStays DEF experimentVars
<1>5. QED
  BY <1>1, <1>2, <1>3, <1>4, DiskAtBegin, DiskWhenReused, DiskWhenRun, DiskWhenFinished
  DEF ExperimentNext

\* Whatever broke off before and whatever is selected, --reuse-existing takes over the
\* metrics of a run that completed the variant, with all of its traces there.
THEOREM ReuseIsOfCompletedRuns == ExperimentSpec => []ReusedVariantsWereCompleted
<1>1. ExperimentInit => DiskIsComplete
  <2> SUFFICES ASSUME ExperimentInit PROVE DiskIsComplete
    OBVIOUS
  <2>1. DOMAIN results = {} /\ stage = "idle" /\ \A label \in VARIANTS : sidecar[label] = NoSidecar
    BY DEF ExperimentInit, Nothing
  <2>2. QED
    BY <2>1 DEF DiskIsComplete
<1>2. ExperimentTypeOK /\ DiskIsComplete /\ [ExperimentNext]_experimentVars => DiskIsComplete'
  BY DiskStep
<1>3. DiskIsComplete => ReusedVariantsWereCompleted
  BY DEF DiskIsComplete, CompletedBy, ReusedVariantsWereCompleted
<1>4. QED
  BY <1>1, <1>2, <1>3, ExperimentTypeHolds, PTL DEF ExperimentSpec

-----------------------------------------------------------------------------
(* The agents of the variants, when the operator has configured none.      *)

ApartInv == configured \intersect Roles = {} /\ VariantsApart

\* A step that leaves the results and the environment alone.
LEMMA ApartStays ==
  ASSUME ApartInv, UNCHANGED <<configured, env, results>>,
         stage' = "skill" => Label' = "skill",
         stage' = "environment" => skillId' = (Label' = "skill"),
         stage' \in {"roster", "run", "score"} =>
           stage \in {"roster", "run", "score"} /\ UNCHANGED <<labels, skillId, draft>>
  PROVE  ApartInv'
<1>1. Live' = Live /\ \A label : ResultAgents(label)' = ResultAgents(label)
  BY DEF Live, ResultAgents, AgentsOf
<1>2. stage' \in {"roster", "run", "score"} =>
        /\ env' # 0 /\ skillId' = (Label' = "skill")
        /\ \A agent \in DraftAgents' : agent.skill = skillId'
  BY DEF ApartInv, VariantsApart, DraftAgents, Label
<1>3. \A label \in Live' :
        /\ results'[label].roster.env = env' /\ env' # 0
        /\ \A agent \in ResultAgents(label)' :
             agent \in Agents /\ agent.skill = (label = "skill")
  BY <1>1 DEF ApartInv, VariantsApart
<1>4. VariantsApart'
  BY <1>2, <1>3 DEF VariantsApart
<1>5. QED
  BY <1>4 DEF ApartInv

LEMMA ApartWhenCreated ==
  ASSUME ExperimentTypeOK, ApartInv, NEW role \in Roles, CreateAgent(role)
  PROVE  ApartInv'
<1>1. PICK agent \in Agents \ agents :
        /\ stage = "roster" /\ agent.skill = skillId
        /\ DraftAgents' = DraftAgents \union {agent}
        /\ UNCHANGED <<configured, stage, labels, skillId, env, results>>
  BY AgentCreated
<1>2. /\ Live' = Live /\ Label' = Label
      /\ \A label : ResultAgents(label)' = ResultAgents(label)
  BY <1>1 DEF Live, ResultAgents, AgentsOf, Label
<1>3. env' # 0 /\ skillId' = (Label' = "skill") /\ \A a \in DraftAgents' : a.skill = skillId'
  BY <1>1, <1>2 DEF ApartInv, VariantsApart
<1>4. \A label \in Live' :
        /\ results'[label].roster.env = env' /\ env' # 0
        /\ \A a \in ResultAgents(label)' : a \in Agents /\ a.skill = (label = "skill")
  BY <1>1, <1>2 DEF ApartInv, VariantsApart
<1>5. VariantsApart'
  BY <1>1, <1>3, <1>4 DEF VariantsApart
<1>6. QED
  BY <1>1, <1>5 DEF ApartInv

\* Only the first variant of a run has an environment made.
LEMMA ApartWhenEnvMade ==
  ASSUME ExperimentTypeOK, ApartInv, MakeEnv
  PROVE  ApartInv'
<1>1. /\ stage = "environment" /\ stage' = "roster" /\ draft' = Configured
      /\ UNCHANGED <<configured, labels, skillId, results>>
  BY DEF MakeEnv, EnvReady, planVars
<1>2. DraftAgents' = {}
  BY <1>1 DEF DraftAgents, Configured, ApartInv
<1>3. /\ Live' = Live /\ Label' = Label
      /\ \A label : ResultAgents(label)' = ResultAgents(label)
  BY <1>1 DEF Live, ResultAgents, AgentsOf, Label
<1>4. env' # 0
  BY DEF MakeEnv, FromMakeEnv, OperatorsEnv, ExperimentTypeOK
<1>5. env # 0 => env' = env
  BY DEF MakeEnv
<1>6. skillId' = (Label' = "skill")
  BY <1>1, <1>3 DEF ApartInv, VariantsApart
<1>7. \A label \in Live' :
        /\ results'[label].roster.env = env' /\ env' # 0
        /\ \A a \in ResultAgents(label)' : a \in Agents /\ a.skill = (label = "skill")
  <2> SUFFICES ASSUME NEW label \in Live
               PROVE  /\ results[label].roster.env = env'
                      /\ \A a \in ResultAgents(label) : a \in Agents /\ a.skill = (label = "skill")
    BY <1>1, <1>3, <1>4
  <2>1. /\ results[label].roster.env = env /\ env # 0
        /\ \A a \in ResultAgents(label) : a \in Agents /\ a.skill = (label = "skill")
    BY DEF ApartInv, VariantsApart
  <2>2. QED
    BY <1>5, <2>1
<1>8. VariantsApart'
  BY <1>1, <1>2, <1>4, <1>6, <1>7 DEF VariantsApart
<1>9. QED
  BY <1>1, <1>8 DEF ApartInv

LEMMA ApartWhenScored ==
  ASSUME ExperimentTypeOK, ApartInv, ScoreVariant
  PROVE  ApartInv'
<1> DEFINE result == Result(ThisRoster, FALSE, sidecar[Label])
<1>1. /\ stage = "score" /\ results' = Put(results, Label, result) /\ stage' = "next"
      /\ UNCHANGED <<configured, env>>
  BY DEF ScoreVariant, NextLabel, planVars, rosterVars
<1>2. ~result.reused /\ result.roster = ThisRoster
  BY DEF Result
<1> HIDE DEF result
<1>3. /\ DOMAIN results' = DOMAIN results \union {Label} /\ results'[Label] = result
      /\ \A label \in DOMAIN results : label # Label => results'[label] = results[label]
      /\ \A label \in DOMAIN results' :
           label \in Live' <=> IF label = Label THEN ~result.reused ELSE label \in Live
  BY <1>1, ResultJoins
<1>4. AgentsOf(results'[Label].roster) = DraftAgents /\ results'[Label].roster.env = env
  <2>1. results'[Label].roster = ThisRoster
    BY <1>2, <1>3
  <2>2. AgentsOf(ThisRoster) = DraftAgents /\ ThisRoster.env = env
    BY DraftFacts DEF ThisRoster
  <2>3. QED
    BY <2>1, <2>2
<1>5. ASSUME NEW label \in Live', label # Label
      PROVE  label \in Live /\ results'[label] = results[label]
  <2>1. label \in DOMAIN results'
    BY DEF Live
  <2>2. QED
    BY <1>3, <1>5, <2>1 DEF Live
<1>6. /\ env # 0 /\ skillId = (Label = "skill") /\ DraftAgents \subseteq Agents
      /\ \A agent \in DraftAgents : agent.skill = skillId
  BY <1>1, DraftFacts DEF ApartInv, VariantsApart
<1>7. ASSUME NEW label \in Live'
      PROVE  /\ results'[label].roster.env = env
             /\ \A agent \in AgentsOf(results'[label].roster) :
                  agent \in Agents /\ agent.skill = (label = "skill")
  <2>1. CASE label = Label
    BY <1>4, <1>6, <2>1
  <2>2. CASE label # Label
    <3>1. label \in Live /\ results'[label] = results[label]
      BY <1>5, <2>2
    <3>2. /\ results[label].roster.env = env
          /\ \A agent \in ResultAgents(label) : agent \in Agents /\ agent.skill = (label = "skill")
      BY <3>1 DEF ApartInv, VariantsApart
    <3>3. QED
      BY <3>1, <3>2 DEF ResultAgents
  <2>3. QED
    BY <2>1, <2>2
<1>8. VariantsApart'
  <2>1. \A label \in Live' :
          /\ results'[label].roster.env = env' /\ env' # 0
          /\ \A agent \in ResultAgents(label)' :
               agent \in Agents /\ agent.skill = (label = "skill")
    BY <1>1, <1>6, <1>7 DEF ResultAgents
  <2>2. QED
    BY <1>1, <2>1 DEF VariantsApart
<1>9. QED
  BY <1>1, <1>8 DEF ApartInv

LEMMA ApartStep ==
  ASSUME ExperimentTypeOK, ApartInv, [ExperimentNext]_experimentVars
  PROVE  ApartInv'
<1> USE DEF planVars, rosterVars, filesVars, remoteVars
<1>1. ASSUME NEW fixtures, NEW variants, NEW reuse, BeginExperiment(fixtures, variants, reuse)
      PROVE  ApartInv'
  <2>1. /\ results' = Nothing /\ stage' = "next" /\ configured' = configured
    BY <1>1 DEF BeginExperiment
  <2>2. Live' = {}
    BY <2>1 DEF Live, Nothing
  <2>3. QED
    BY <2>1, <2>2 DEF ApartInv, VariantsApart
<1>2. ASSUME ReuseFromDisk
      PROVE  ApartInv'
  <2> DEFINE result == Result(DiskRoster, TRUE, sidecar[Label])
  <2>1. /\ results' = Put(results, Label, result) /\ stage' = "next"
        /\ UNCHANGED <<configured, env>>
    BY <1>2 DEF ReuseFromDisk, NextLabel
  <2>2. result.reused
    BY DEF Result
  <2> HIDE DEF result
  <2>3. /\ \A label \in DOMAIN results : label # Label => results'[label] = results[label]
        /\ \A label \in DOMAIN results' :
             label \in Live' <=> IF label = Label THEN ~result.reused ELSE label \in Live
    BY <2>1, ResultJoins
  <2>4. ASSUME NEW label \in Live'
        PROVE  label \in Live /\ results'[label] = results[label]
    <3>1. label \in DOMAIN results'
      BY DEF Live
    <3>2. label # Label /\ label \in Live
      BY <2>2, <2>3, <3>1
    <3>3. QED
      BY <2>3, <3>2 DEF Live
  <2>5. \A label \in Live' :
          /\ results'[label].roster.env = env' /\ env' # 0
          /\ \A agent \in ResultAgents(label)' :
               agent \in Agents /\ agent.skill = (label = "skill")
    <3> SUFFICES ASSUME NEW label \in Live'
                 PROVE  /\ results'[label].roster.env = env /\ env # 0
                        /\ \A agent \in AgentsOf(results'[label].roster) :
                             agent \in Agents /\ agent.skill = (label = "skill")
      BY <2>1 DEF ResultAgents
    <3>1. label \in Live /\ results'[label] = results[label]
      BY <2>4
    <3>2. /\ results[label].roster.env = env /\ env # 0
          /\ \A agent \in AgentsOf(results[label].roster) :
               agent \in Agents /\ agent.skill = (label = "skill")
      BY <3>1 DEF ApartInv, VariantsApart, ResultAgents
    <3>3. QED
      BY <3>1, <3>2
  <2>6. VariantsApart'
    BY <2>1, <2>5 DEF VariantsApart
  <2>7. QED
    BY <2>1, <2>6 DEF ApartInv
<1>3. ASSUME NextVariant
      PROVE  ApartInv'
  <2>1. /\ skillId' = FALSE /\ stage' = IF Label = "skill" THEN "skill" ELSE "environment"
        /\ UNCHANGED <<configured, labels, env, results>>
    BY <1>3 DEF NextVariant
  <2>2. Label' = Label
    BY <2>1 DEF Label
  <2>3. QED
    BY <2>1, <2>2, ApartStays
<1>4. ASSUME EnsureSkill
      PROVE  ApartInv'
  <2>1. /\ stage = "skill" /\ skillId' = TRUE /\ stage' = "environment"
        /\ UNCHANGED <<configured, labels, env, results>>
    BY <1>4 DEF EnsureSkill
  <2>2. Label' = Label /\ Label = "skill"
    BY <2>1 DEF Label, ApartInv, VariantsApart
  <2>3. QED
    BY <2>1, <2>2, ApartStays
<1>5. ASSUME RosterReady \/ RunFixture \/ FinishVariant
      PROVE  ApartInv'
  <2>1. /\ stage \in {"roster", "run"} /\ stage' \in {"run", "score"}
        /\ UNCHANGED <<configured, labels, skillId, env, draft, results>>
    BY <1>5 DEF RosterReady, RunFixture, FinishVariant
  <2>2. QED
    BY <2>1, ApartStays
<1>6. ASSUME ExperimentRaises \/ AnswerLost \/ VariantsDone \/ CleanUp
      PROVE  ApartInv'
  <2>1. stage' \in {"cleanup", "idle"} /\ UNCHANGED <<configured, env, results>>
    BY <1>6 DEF ExperimentRaises, AnswerLost, VariantsDone, EndOfRun, CleanUp, Archive
  <2>2. QED
    BY <2>1, ApartStays
<1>7. CASE UNCHANGED experimentVars
  <2>1. UNCHANGED <<configured, stage, labels, skillId, env, draft, results>>
    BY <1>7 DEF experimentVars
  <2>2. Label' = Label
    BY <2>1 DEF Label
  <2>3. QED
    BY <2>1, <2>2, ApartStays DEF ApartInv, VariantsApart
<1>8. QED
  BY <1>1, <1>2, <1>3, <1>4, <1>5, <1>6, <1>7, ApartWhenCreated, ApartWhenEnvMade,
     ApartWhenScored
  DEF ExperimentNext

\* An agent's tools follow from its role and from whether it carries the Skill.
LEMMA ToolsOfAgents ==
  ASSUME NEW agent \in Agents
  PROVE  /\ ("read" \in agent.tools) = agent.skill
         /\ agent.tools \ {"read"} = CustomTools[agent.role]
<1>1. PICK role \in Roles, n \in Nat, skill \in BOOLEAN :
        agent = [role |-> role, n |-> n, skill |-> skill, tools |-> ToolsOf(role, skill)]
  BY DEF Agents
<1>2. agent.role = role /\ agent.skill = skill /\ agent.tools = ToolsOf(role, skill)
  BY <1>1
<1>3. "read" \notin CustomTools[role]
  BY DEF CustomTools, Roles
<1>4. CASE skill
  <2>1. agent.tools = CustomTools[role] \union {"read"}
    BY <1>2, <1>4 DEF ToolsOf
  <2>2. QED
    BY <1>2, <1>3, <1>4, <2>1
<1>5. CASE ~skill
  <2>1. agent.tools = CustomTools[role]
    BY <1>2, <1>5 DEF ToolsOf
  <2>2. QED
    BY <1>2, <1>3, <1>5, <2>1
<1>6. QED
  BY <1>4, <1>5

\* Unless the operator has configured agents of his own, the agents of the variants a
\* run ran itself carry the Skill in the one variant and not in the other, are over one
\* environment, made by the run or configured, and differ in their tools by no more than
\* the read tool that goes with the Skill.
THEOREM VariantsDifferBySkill ==
  ExperimentSpec /\ configured \intersect Roles = {} => []VariantsDifferInSkillAndRead
<1>1. ExperimentInit /\ configured \intersect Roles = {} => ApartInv
  BY DEF ExperimentInit, Nothing, ApartInv, VariantsApart, Live
<1>2. ExperimentTypeOK /\ ApartInv /\ [ExperimentNext]_experimentVars => ApartInv'
  BY ApartStep
<1>3. ApartInv => VariantsDifferInSkillAndRead
  <2> SUFFICES ASSUME ApartInv, NEW label \in Live, NEW other \in Live
               PROVE  /\ results[label].roster.env = results[other].roster.env
                      /\ \A agent \in ResultAgents(label) :
                           /\ agent.skill = (label = "skill")
                           /\ ("read" \in agent.tools) = agent.skill
                           /\ \A twin \in ResultAgents(other) : agent.role = twin.role =>
                                agent.tools \ {"read"} = twin.tools \ {"read"}
    BY DEF VariantsDifferInSkillAndRead, ResultAgents
  <2>1. /\ results[label].roster.env = env /\ results[other].roster.env = env
        /\ \A agent \in ResultAgents(label) : agent \in Agents /\ agent.skill = (label = "skill")
        /\ \A twin \in ResultAgents(other) : twin \in Agents
    BY DEF ApartInv, VariantsApart
  <2>2. ASSUME NEW agent \in ResultAgents(label)
        PROVE  /\ ("read" \in agent.tools) = agent.skill
               /\ agent.tools \ {"read"} = CustomTools[agent.role]
    BY <2>1, ToolsOfAgents
  <2>3. ASSUME NEW twin \in ResultAgents(other)
        PROVE  twin.tools \ {"read"} = CustomTools[twin.role]
    BY <2>1, ToolsOfAgents
  <2>4. QED
    BY <2>1, <2>2, <2>3
<1>4. QED
  BY <1>1, <1>2, <1>3, ExperimentTypeHolds, PTL DEF ExperimentSpec

-----------------------------------------------------------------------------
(* The agents that are left over.                                          *)

LEMMA UnionBound ==
  ASSUME NEW S, NEW T, IsFiniteSet(S), IsFiniteSet(T), NEW a \in Nat, NEW b \in Nat,
         Cardinality(S) <= a, Cardinality(T) <= b
  PROVE  IsFiniteSet(S \union T) /\ Cardinality(S \union T) <= a + b
<1> DEFINE s == Cardinality(S)
           t == Cardinality(T)
           both == Cardinality(S \intersect T)
<1>1. s \in Nat /\ t \in Nat /\ s <= a /\ t <= b
  BY FS_CardinalityType
<1>2. IsFiniteSet(S \union T) /\ Cardinality(S \union T) = s + t - both
  BY FS_Union
<1>3. IsFiniteSet(S \intersect T)
  BY FS_Intersection
<1>4. both \in Nat
  BY <1>3, FS_CardinalityType
<1> HIDE DEF s, t, both
<1>5. QED
  BY <1>1, <1>2, <1>4

\* A roster has three agents, and a draft that lacks one has two at most.
LEMMA DraftIsSmall ==
  ASSUME ExperimentTypeOK
  PROVE  /\ IsFiniteSet(DraftAgents) /\ Cardinality(DraftAgents) \in Nat
         /\ Cardinality(DraftAgents) <= 3
         /\ NextRole # {} => Cardinality(DraftAgents) <= 2
<1> DEFINE D == DOMAIN draft
           d == Cardinality(D)
           n == Cardinality(DraftAgents)
<1>1. D \subseteq Roles /\ NextRole \subseteq Roles \ D
  BY DraftFacts
<1>2. IsFiniteSet(Roles) /\ Cardinality(Roles) = 3
  <2>1. IsFiniteSet({"exposure"}) /\ Cardinality({"exposure"}) = 1
    BY FS_Singleton
  <2>2. /\ IsFiniteSet({"exposure"} \union {"entity_resolution"})
        /\ Cardinality({"exposure"} \union {"entity_resolution"}) = 1 + 1
    BY <2>1, FS_AddElement
  <2>3. /\ IsFiniteSet(({"exposure"} \union {"entity_resolution"}) \union {"coordinator"})
        /\ Cardinality(({"exposure"} \union {"entity_resolution"}) \union {"coordinator"}) = 2 + 1
    BY <2>2, FS_AddElement
  <2>4. Roles = ({"exposure"} \union {"entity_resolution"}) \union {"coordinator"}
    BY DEF Roles
  <2>5. QED
    BY <2>3, <2>4
<1>3. IsFiniteSet(D) /\ d \in Nat /\ d <= 3
  <2>1. IsFiniteSet(D) /\ d <= Cardinality(Roles)
    BY <1>1, <1>2, FS_Subset
  <2>2. d \in Nat
    BY <2>1, FS_CardinalityType
  <2>3. QED
    BY <1>2, <2>1, <2>2
<1>4. ASSUME NextRole # {} PROVE d <= 2
  <2>1. PICK missing \in Roles : missing \notin D
    BY <1>1, <1>4
  <2>2. IsFiniteSet(Roles \ {missing}) /\ Cardinality(Roles \ {missing}) = 3 - 1
    BY <1>2, FS_RemoveElement
  <2>3. D \subseteq Roles \ {missing}
    BY <1>1, <2>1
  <2>4. d <= Cardinality(Roles \ {missing})
    BY <2>2, <2>3, FS_Subset
  <2>5. QED
    BY <2>2, <2>4
<1>5. IsFiniteSet(DraftAgents) /\ n \in Nat /\ n <= d
  <2>1. DraftAgents = {draft[role] : role \in D}
    BY DEF DraftAgents
  <2> HIDE DEF D
  <2>2. QED
    BY <1>3, <2>1, ImageOf DEF D
<1> HIDE DEF D, d, n
<1>6. n <= 3 /\ (NextRole # {} => n <= 2)
  BY <1>3, <1>4, <1>5
<1>7. QED
  BY <1>5, <1>6 DEF n

\* A step in which no agent comes to be that is not in hand.
LEMMA NothingLost ==
  ASSUME NoneIsForgotten, stage' # "idle", RunsOver' = RunsOver,
         (agents' \ warned') \ InHand' \subseteq (agents \ warned) \ InHand
  PROVE  NoneIsForgotten'
<1>1. PICK lost \in SUBSET Agents : LeftOver(lost, RunsOver)
  BY DEF NoneIsForgotten
<1>2. agents' \ warned' \subseteq lost \union InHand'
  <2>1. agents \ warned \subseteq lost \union InHand
    BY <1>1 DEF LeftOver
  <2>2. ASSUME NEW a \in agents' \ warned', a \notin InHand'
        PROVE  a \in lost
    <3>1. a \in (agents \ warned) \ InHand
      BY <2>2
    <3>2. QED
      BY <2>1, <3>1
  <2>3. QED
    BY <2>2
<1>3. LeftOver(lost, RunsOver)'
  BY <1>1, <1>2 DEF LeftOver
<1>4. QED
  BY <1>3 DEF NoneIsForgotten

\* The run breaks off, perhaps with a roster that is not complete.
LEMMA DraftLost ==
  ASSUME ExperimentTypeOK, NoneIsForgotten, ExperimentRaises \/ AnswerLost \/ VariantsDone
  PROVE  NoneIsForgotten'
<1>1. PICK lost \in SUBSET Agents : LeftOver(lost, RunsOver)
  BY DEF NoneIsForgotten
<1>2. /\ stage \notin {"idle", "cleanup"} /\ stage' = "cleanup"
      /\ UNCHANGED <<selections, rosters, warned>>
  BY DEF ExperimentRaises, AnswerLost, VariantsDone, EndOfRun, planVars, rosterVars, remoteVars
<1>3. Experiment' = Experiment /\ Experiment \in Nat /\ Experiment > 0
  BY <1>2, RunFacts DEF Experiment, ExperimentTypeOK
<1>4. /\ RunsOver = Experiment - 1 /\ RunsOver' = Experiment
      /\ Archivable' = Archivable /\ InHand' = Archivable
      /\ InHand = Archivable \union (IF stage = "roster" THEN DraftAgents ELSE {})
  BY <1>2, <1>3 DEF RunsOver, Archivable, InHand
<1>5. \E broken \in SUBSET Agents :
        /\ IsFiniteSet(broken) /\ Cardinality(broken) <= 3
        /\ agents' \ warned' \subseteq lost \union Archivable \union broken
  <2>1. agents \ warned \subseteq lost \union InHand
    BY <1>1 DEF LeftOver
  <2>2. /\ IsFiniteSet({}) /\ Cardinality({}) = 0
    BY FS_EmptySet
  <2>3. /\ IsFiniteSet(DraftAgents) /\ Cardinality(DraftAgents) \in Nat
        /\ Cardinality(DraftAgents) <= 3 /\ DraftAgents \in SUBSET Agents
    BY DraftIsSmall, DraftFacts
  <2>4. CASE UNCHANGED agents /\ stage # "roster"
    <3>1. agents' \ warned' \subseteq lost \union Archivable \union {}
      BY <1>2, <1>4, <2>1, <2>4
    <3>2. QED
      BY <2>2, <3>1
  <2>5. CASE UNCHANGED agents /\ stage = "roster"
    <3>1. agents' \ warned' \subseteq lost \union Archivable \union DraftAgents
      BY <1>2, <1>4, <2>1, <2>5
    <3>2. QED
      BY <2>3, <3>1
  <2>6. CASE ~UNCHANGED agents
    <3>1. PICK role \in NextRole : agents' = agents \union {NewAgent(role, skillId)}
      BY <2>6 DEF ExperimentRaises, AnswerLost, VariantsDone, remoteVars
    <3>2. stage = "roster"
      BY <2>6 DEF ExperimentRaises, AnswerLost, VariantsDone, remoteVars
    <3>3. NewAgent(role, skillId) \in Agents
      <4>1. role \in Roles /\ skillId \in BOOLEAN
        BY <3>1, DraftFacts DEF ExperimentTypeOK
      <4>2. QED
        BY <4>1, NewAgentIsNew DEF ExperimentTypeOK
    <3> DEFINE stray == NewAgent(role, skillId)
    <3>4. IsFiniteSet({stray}) /\ Cardinality({stray}) = 1
      BY FS_Singleton
    <3>5. Cardinality(DraftAgents) <= 2
      BY <3>1, DraftIsSmall
    <3> HIDE DEF stray
    <3>6. /\ IsFiniteSet(DraftAgents \union {stray})
          /\ Cardinality(DraftAgents \union {stray}) <= 2 + 1
      <4>1. 2 \in Nat /\ 1 \in Nat /\ Cardinality({stray}) <= 1
        BY <3>4
      <4>2. QED
        BY <2>3, <3>4, <3>5, <4>1, UnionBound
    <3>7. agents' \ warned' \subseteq lost \union Archivable \union (DraftAgents \union {stray})
      BY <1>2, <1>4, <2>1, <3>1, <3>2 DEF stray
    <3>8. DraftAgents \union {stray} \in SUBSET Agents
      BY <2>3, <3>3 DEF stray
    <3>9. QED
      BY <3>6, <3>7, <3>8
  <2>7. QED
    BY <2>4, <2>5, <2>6
<1>6. PICK broken \in SUBSET Agents :
        /\ IsFiniteSet(broken) /\ Cardinality(broken) <= 3
        /\ agents' \ warned' \subseteq lost \union Archivable \union broken
  BY <1>5
<1>7. IsFiniteSet(lost \union broken) /\ Cardinality(lost \union broken) <= 3 * Experiment
  <2>1. IsFiniteSet(lost) /\ Cardinality(lost) <= 3 * (Experiment - 1)
    BY <1>1, <1>4 DEF LeftOver
  <2>2. 3 * (Experiment - 1) \in Nat /\ 3 \in Nat /\ 3 * (Experiment - 1) + 3 = 3 * Experiment
    BY <1>3
  <2>3. /\ IsFiniteSet(lost \union broken)
        /\ Cardinality(lost \union broken) <= 3 * (Experiment - 1) + 3
    BY <1>6, <2>1, <2>2, UnionBound
  <2>4. QED
    BY <2>2, <2>3
<1>8. agents' \ warned' \subseteq (lost \union broken) \union InHand'
  BY <1>4, <1>6
<1>9. LeftOver(lost \union broken, RunsOver)'
  BY <1>4, <1>7, <1>8 DEF LeftOver
<1>10. lost \union broken \in SUBSET Agents
  BY <1>6
<1>11. QED
  BY <1>2, <1>9, <1>10 DEF NoneIsForgotten

\* The archive calls that fail leave agents behind that are warned of.
LEMMA NothingLostAtCleanUp ==
  ASSUME ExperimentTypeOK, NoneIsForgotten, CleanUp
  PROVE  NoneIsForgotten'
<1>1. /\ stage = "cleanup" /\ stage' = "idle" /\ UNCHANGED <<selections, rosters>>
      /\ \E failed \in SUBSET (Archivable \intersect agents) :
           agents' = (agents \ Archivable) \union failed /\ warned' = warned \union failed
  BY DEF CleanUp, Archive, planVars, rosterVars, Archivable
<1>2. PICK failed \in SUBSET (Archivable \intersect agents) :
        agents' = (agents \ Archivable) \union failed /\ warned' = warned \union failed
  BY <1>1
<1>3. PICK lost \in SUBSET Agents : LeftOver(lost, RunsOver)
  BY DEF NoneIsForgotten
<1>4. RunsOver = Experiment /\ RunsOver' = Experiment /\ InHand = Archivable /\ InHand' = {}
  BY <1>1 DEF RunsOver, InHand, Experiment
<1>5. agents' \ warned' \subseteq lost \union InHand'
  <2>1. agents \ warned \subseteq lost \union Archivable
    BY <1>3, <1>4 DEF LeftOver
  <2>2. QED
    BY <1>2, <1>4, <2>1
<1>6. LeftOver(lost, RunsOver)'
  BY <1>3, <1>4, <1>5 DEF LeftOver
<1>7. \A i \in 1..Len(rosters) : AgentsOf(rosters[i]) \subseteq Archivable
  BY DEF Archivable
<1>8. \A i \in 1..Len(rosters') : AgentsOf(rosters'[i]) \intersect agents' \subseteq warned'
  BY <1>1, <1>2, <1>7
<1>9. QED
  BY <1>6, <1>8 DEF NoneIsForgotten

LEMMA NothingLostStep ==
  ASSUME ExperimentTypeOK, NoneIsForgotten, [ExperimentNext]_experimentVars
  PROVE  NoneIsForgotten'
<1> USE DEF planVars, rosterVars, filesVars, remoteVars
<1>1. ASSUME NEW fixtures \in Selections, NEW variants \in VariantLists, NEW reuse \in BOOLEAN,
             BeginExperiment(fixtures, variants, reuse)
      PROVE  NoneIsForgotten'
  <2>1. /\ stage = "idle" /\ stage' = "next" /\ rosters' = <<>>
        /\ selections' = Append(selections, fixtures) /\ UNCHANGED <<agents, warned>>
    BY <1>1 DEF BeginExperiment
  <2>2. fixtures \in Seq(Nat) /\ selections \in Seq(Seq(Nat)) /\ Experiment \in Nat
    BY SkillExperimentAssumption, RunFacts DEF ExperimentTypeOK
  <2>3. Experiment' = Experiment + 1
    BY <2>1, <2>2, AppendProperties DEF Experiment
  <2>4. RunsOver = Experiment /\ RunsOver' = Experiment
    BY <2>1, <2>2, <2>3 DEF RunsOver
  <2>5. InHand = {}
    BY <2>1 DEF InHand
  <2>6. QED
    BY <2>1, <2>4, <2>5, NothingLost
<1>2. ASSUME ReuseFromDisk \/ NextVariant \/ EnsureSkill \/ MakeEnv \/ RunFixture \/ FinishVariant
             \/ ScoreVariant
      PROVE  NoneIsForgotten'
  <2>1. /\ stage \notin {"idle", "cleanup", "roster"} /\ stage' \notin {"idle", "cleanup"}
        /\ UNCHANGED <<selections, rosters, agents, warned>>
    BY <1>2 DEF ReuseFromDisk, NextVariant, EnsureSkill, MakeEnv, EnvReady, RunFixture,
                FinishVariant, ScoreVariant, NextLabel
  <2>2. RunsOver' = RunsOver /\ Archivable' = Archivable
    BY <2>1 DEF RunsOver, Experiment, Archivable
  <2>3. InHand = Archivable /\ Archivable \subseteq InHand'
    BY <2>1, <2>2 DEF InHand
  <2>4. (agents' \ warned') \ InHand' \subseteq (agents \ warned) \ InHand
    BY <2>1, <2>3
  <2>5. QED
    BY <2>1, <2>2, <2>4, NothingLost
<1>3. ASSUME NEW role \in Roles, CreateAgent(role)
      PROVE  NoneIsForgotten'
  <2>1. PICK agent \in Agents \ agents :
          /\ stage = "roster" /\ agents' = agents \union {agent}
          /\ DraftAgents' = DraftAgents \union {agent}
          /\ UNCHANGED <<selections, stage, rosters, warned>>
    BY <1>3, AgentCreated
  <2>2. RunsOver' = RunsOver /\ Archivable' = Archivable /\ stage' = "roster"
    BY <2>1 DEF RunsOver, Experiment, Archivable
  <2>3. InHand = Archivable \union DraftAgents /\ InHand' = Archivable \union DraftAgents'
    BY <2>1, <2>2 DEF InHand
  <2>4. (agents' \ warned') \ InHand' \subseteq (agents \ warned) \ InHand
    BY <2>1, <2>3
  <2>5. QED
    BY <2>2, <2>4, NothingLost
<1>4. ASSUME RosterReady
      PROVE  NoneIsForgotten'
  <2>1. /\ stage = "roster" /\ stage' = "run" /\ rosters' = Append(rosters, ThisRoster)
        /\ UNCHANGED <<selections, draft, agents, warned>>
    BY <1>4 DEF RosterReady
  <2>2. RunsOver' = RunsOver
    BY <2>1 DEF RunsOver, Experiment
  <2>3. ThisRoster \in Rosters /\ AgentsOf(ThisRoster) = DraftAgents /\ rosters \in Seq(Rosters)
    BY DraftFacts DEF ExperimentTypeOK
  <2> DEFINE l == Len(rosters)
  <2>4. /\ l \in Nat /\ Len(rosters') = l + 1 /\ rosters'[l + 1] = ThisRoster
        /\ \A i \in 1..l : rosters'[i] = rosters[i]
    BY <2>1, <2>3, LenProperties, AppendProperties
  <2>5. Archivable = UNION {AgentsOf(rosters[i]) : i \in 1..l}
    BY DEF Archivable
  <2>6. Archivable' = UNION {AgentsOf(rosters'[i]) : i \in 1..Len(rosters')}
    BY DEF Archivable
  <2> HIDE DEF l
  <2>7. ASSUME NEW a \in Archivable
        PROVE  a \in Archivable'
    <3>1. PICK i \in 1..l : a \in AgentsOf(rosters[i])
      BY <2>5
    <3>2. i \in 1..Len(rosters') /\ rosters'[i] = rosters[i]
      BY <2>4
    <3>3. QED
      BY <2>6, <3>1, <3>2
  <2>8. DraftAgents \subseteq Archivable'
    <3>1. l + 1 \in 1..Len(rosters') /\ AgentsOf(rosters'[l + 1]) = DraftAgents
      BY <2>3, <2>4
    <3>2. QED
      BY <2>6, <3>1
  <2>9. InHand = Archivable \union DraftAgents /\ InHand' = Archivable'
    BY <2>1 DEF InHand
  <2>10. (agents' \ warned') \ InHand' \subseteq (agents \ warned) \ InHand
    BY <2>1, <2>7, <2>8, <2>9
  <2>11. QED
    BY <2>1, <2>2, <2>10, NothingLost
<1>5. CASE UNCHANGED experimentVars
  <2>1. UNCHANGED <<selections, stage, draft, rosters, agents, warned>>
    BY <1>5 DEF experimentVars
  <2>2. /\ RunsOver' = RunsOver /\ InHand' = InHand
    BY <2>1 DEF RunsOver, Experiment, InHand, Archivable, DraftAgents
  <2>3. \A lost : LeftOver(lost, RunsOver)' <=> LeftOver(lost, RunsOver)
    BY <2>1, <2>2 DEF LeftOver
  <2>4. QED
    BY <2>1, <2>3 DEF NoneIsForgotten
<1>6. QED
  BY <1>1, <1>2, <1>3, <1>4, <1>5, NothingLostAtCleanUp, DraftLost DEF ExperimentNext

\* However the runs end, in whatever order agents are created and archive calls fail: a
\* finished roster's agents are archived or warned of, and of the others three are left
\* over for each run at most, when the operator has configured none.
THEOREM RostersAreArchived ==
  ExperimentSpec /\ configured \intersect Roles = {} => []FinishedRostersAreArchived
<1>1. ExperimentInit /\ configured \intersect Roles = {} => NoneIsForgotten
  <2> SUFFICES ASSUME ExperimentInit, configured \intersect Roles = {} PROVE NoneIsForgotten
    OBVIOUS
  <2>1. agents = {} /\ stage = "idle" /\ Experiment = 0 /\ InHand = {}
    BY DEF ExperimentInit, Experiment, InHand
  <2>2. RunsOver = 0
    BY <2>1 DEF RunsOver
  <2>3. IsFiniteSet({}) /\ Cardinality({}) = 0
    BY FS_EmptySet
  <2>4. LeftOver({}, RunsOver)
    BY <2>1, <2>2, <2>3 DEF LeftOver
  <2>5. {} \in SUBSET Agents
    OBVIOUS
  <2>6. QED
    BY <2>1, <2>4, <2>5 DEF NoneIsForgotten
<1>2. ExperimentTypeOK /\ NoneIsForgotten /\ [ExperimentNext]_experimentVars => NoneIsForgotten'
  BY NothingLostStep
<1>3. ExperimentTypeOK /\ NoneIsForgotten => FinishedRostersAreArchived
  <2> SUFFICES ASSUME ExperimentTypeOK, NoneIsForgotten, stage = "idle"
               PROVE  Cardinality(agents \ warned) <= 3 * Experiment
    BY DEF NoneIsForgotten, FinishedRostersAreArchived
  <2>1. PICK lost \in SUBSET Agents : LeftOver(lost, RunsOver)
    BY DEF NoneIsForgotten
  <2>2. IsFiniteSet(lost) /\ Cardinality(lost) <= 3 * Experiment /\ agents \ warned \subseteq lost
    BY <2>1 DEF LeftOver, RunsOver, InHand
  <2>3. Cardinality(agents \ warned) <= Cardinality(lost)
    BY <2>2, FS_Subset
  <2>4. IsFiniteSet(agents \ warned)
    BY <2>2, FS_Subset
  <2>5. Cardinality(agents \ warned) \in Nat /\ Cardinality(lost) \in Nat /\ Experiment \in Nat
    BY <2>2, <2>4, FS_CardinalityType, RunFacts
  <2>6. QED
    BY <2>2, <2>3, <2>5
<1>4. QED
  BY <1>1, <1>2, <1>3, ExperimentTypeHolds, PTL DEF ExperimentSpec

-----------------------------------------------------------------------------
(* The baseline and its score.                                             *)

\* A trace that is under way is sound and unfinished, and its hops are the one
\* retrieval, made or yet to be made.
UnderWayInv ==
  /\ phase \in {"idle", "next", "retrieve", "answer"}
  /\ bank \in Seq(Seq(Sources) \ {<<>>})
  /\ phase \in {"retrieve", "answer"} => Sound(tw) /\ ~tw.finished
  /\ phase = "retrieve" => HopTools(tw.events) = <<>>
  /\ phase = "answer" => HopTools(tw.events) = <<Index>>

\* Every trace on disk is a fixture's and has the one hop, whatever became of it.
DiskInv ==
  /\ toRun \subseteq Bank
  /\ phase \in {"retrieve", "answer"} => toRun # {}
  /\ DOMAIN disk \subseteq Bank
  /\ \A f \in DOMAIN disk : HopTools(disk[f]) = <<Index>>

BatchInv == UnderWayInv /\ DiskInv

LEMMA BatchBegins == BaselineInit => BatchInv /\ HopTools(tw.events) = <<>>
<1> SUFFICES ASSUME BaselineInit PROVE BatchInv /\ HopTools(tw.events) = <<>>
  OBVIOUS
<1>1. HopTools(tw.events) = <<>>
  <2>1. tw.events = <<>> /\ <<>> \in Seq(TraceEvent) /\ Len(tw.events) = 0
    BY DEF BaselineInit, NewTrace
  <2>2. Uses(tw.events) = {}
    BY <2>1 DEF Uses
  <2>3. HopTools(tw.events) \in Seq(Sources \union {NoSource}) /\ Len(HopTools(tw.events)) = 0
    BY <2>1, <2>2, HopToolsType, FS_EmptySet
  <2>4. QED
    BY <2>3, EmptySeq
<1>2. UnderWayInv
  BY BaselineAssumption DEF BaselineInit, UnderWayInv
<1>3. DiskInv
  BY DEF BaselineInit, DiskInv
<1>4. QED
  BY <1>1, <1>2, <1>3 DEF BatchInv

\* Of the fixtures still to run there is a first one.
LEMMA FirstFixture ==
  ASSUME DiskInv, toRun # {}
  PROVE  UnderWay \in toRun
<1>1. toRun \subseteq Nat
  BY LenProperties DEF DiskInv, Bank
<1>2. IsWellFoundedOn(OpToRel(<, Nat), Nat)
  BY NatLessThanWellFounded
<1>3. PICK f \in toRun : \A g \in toRun : <<g, f>> \notin OpToRel(<, Nat)
  BY <1>1, <1>2, WFMin
<1>4. ASSUME NEW g \in toRun PROVE f <= g
  <2>1. f \in Nat /\ g \in Nat
    BY <1>1
  <2>2. <<g, f>> \in Nat \X Nat /\ <<g, f>> \notin OpToRel(<, Nat)
    BY <1>3, <2>1
  <2>3. ~ (g < f)
    BY <2>1, <2>2, Zenon DEF OpToRel
  <2>4. QED
    BY <2>1, <2>3
<1>5. QED
  BY <1>3, <1>4 DEF UnderWay

LEMMA FixtureStarts ==
  ASSUME StartFixture
  PROVE  Sound(tw') /\ ~tw'.finished /\ HopTools(tw'.events) = <<>>
<1>1. tw' = RecordTurn(Start(NewTrace), 0)
  BY DEF StartFixture
<1>2. Sound(Start(NewTrace)) /\ ~Start(NewTrace).finished /\ HopTools(Start(NewTrace).events) = <<>>
  BY StartShape
<1>3. Start(NewTrace) \in Trace
  BY <1>2 DEF Sound
<1>4. TurnTaken(Start(NewTrace), tw', 0)
  BY <1>1, <1>3, TurnShape
<1>5. Sound(tw')
  BY <1>1, <1>2, TurnKeepsSound
<1>6. tw'.finished = Start(NewTrace).finished /\ HopTools(tw'.events) = HopTools(Start(NewTrace).events)
  BY <1>4 DEF TurnTaken
<1>7. QED
  BY <1>2, <1>5, <1>6

\* The retrieval is one hop to the index, in the chain even when it fails.
LEMMA RetrievalIsOneHop ==
  ASSUME BatchInv, Retrieve
  PROVE  /\ Sound(tw') /\ ~tw'.finished
         /\ HopTools(tw'.events) = Append(HopTools(tw.events), Index)
<1>1. Sound(tw) /\ ~tw.finished /\ tw \in Trace /\ Index \in Sources
  BY BaselineAssumption DEF BatchInv, UnderWayInv, Retrieve, Sound
<1>2. PICK outcome \in {"tool_result", "tool_error"} : tw' = Hop(tw, Index, 1, outcome)
  BY DEF Retrieve, RecordHop, RecordHopError
<1>3. Hopped(tw, tw', Index, 1, outcome)
  BY <1>1, <1>2, HopShape
<1>4. Sound(tw')
  BY <1>1, <1>2, HopKeepsSound
<1>5. tw'.finished = tw.finished /\ HopTools(tw'.events) = Append(HopTools(tw.events), Index)
  BY <1>3 DEF Hopped
<1>6. QED
  BY <1>1, <1>4, <1>5

\* What is written is what was retrieved, with its number as the depth.
LEMMA AnswerReports ==
  ASSUME BatchInv, Answer
  PROVE  /\ HopTools(tw'.events) = HopTools(tw.events)
         /\ written' = Append(written, [chain |-> HopTools(tw.events),
                                        depth |-> Len(HopTools(tw.events))])
<1>1. Sound(tw) /\ ~tw.finished /\ tw \in Trace
  BY DEF BatchInv, UnderWayInv, Answer, Sound
<1>2. tw' = Finish(RecordTurn(tw, 0))
  BY DEF Answer
<1>3. Closed(tw, tw')
  BY <1>1, <1>2, ClosedShape
<1>4. HopTools(tw'.events) = HopTools(tw.events) /\ tw'.tool_calls = tw.tool_calls
  BY <1>3 DEF Closed
<1>5. Len(HopTools(tw.events)) = tw.tool_calls
  BY <1>1, HopToolsType, TraceType DEF Sound
<1>6. written' = Append(written, [chain |-> HopTools(tw'.events), depth |-> tw'.tool_calls])
  BY <1>2 DEF Answer, DepthReached
<1>7. QED
  BY <1>4, <1>5, <1>6

LEMMA BatchKeeps == BatchInv /\ [BaselineNext]_baselineVars => BatchInv'
<1> SUFFICES ASSUME BatchInv, [BaselineNext]_baselineVars PROVE BatchInv'
  OBVIOUS
<1>1. ASSUME NEW fixtures \in SUBSET Bank, StartBatch(fixtures) PROVE BatchInv'
  BY <1>1 DEF StartBatch, BatchInv, UnderWayInv, DiskInv, Bank
<1>2. CASE StartFixture
  <2>1. Sound(tw') /\ ~tw'.finished /\ HopTools(tw'.events) = <<>>
    BY <1>2, FixtureStarts
  <2>2. /\ phase' = "retrieve" /\ toRun # {} /\ UNCHANGED <<bank, toRun, disk>>
    BY <1>2 DEF StartFixture
  <2>3. UnderWayInv'
    BY <2>1, <2>2 DEF BatchInv, UnderWayInv
  <2>4. DiskInv'
    BY <2>2 DEF BatchInv, DiskInv, Bank
  <2>5. QED
    BY <2>3, <2>4 DEF BatchInv
<1>3. CASE Retrieve
  <2>1. /\ phase = "retrieve" /\ phase' = "answer" /\ UNCHANGED <<bank, toRun, disk>>
    BY <1>3 DEF Retrieve
  <2>2. HopTools(tw.events) = <<>>
    BY <2>1 DEF BatchInv, UnderWayInv
  <2>3. Sound(tw') /\ ~tw'.finished /\ HopTools(tw'.events) = <<Index>>
    BY <1>3, <2>2, RetrievalIsOneHop
  <2>4. UnderWayInv'
    BY <2>1, <2>3 DEF BatchInv, UnderWayInv
  <2>5. DiskInv'
    BY <2>1 DEF BatchInv, DiskInv, Bank
  <2>6. QED
    BY <2>4, <2>5 DEF BatchInv
<1>4. CASE Answer
  <2>1. /\ phase = "answer" /\ phase' = "next" /\ bank' = bank /\ toRun' \subseteq toRun
        /\ disk' = [f \in DOMAIN disk \union {UnderWay} |->
                      IF f = UnderWay THEN tw'.events ELSE disk[f]]
    BY <1>4 DEF Answer
  <2>2. HopTools(tw'.events) = <<Index>>
    BY <1>4, <2>1, AnswerReports DEF BatchInv, UnderWayInv
  <2>3. UnderWay \in Bank
    BY <2>1, FirstFixture DEF BatchInv, DiskInv
  <2>4. UnderWayInv'
    BY <2>1 DEF BatchInv, UnderWayInv
  <2>5. Bank' = Bank
    BY <2>1 DEF Bank
  <2>6. DOMAIN disk' \subseteq Bank
    BY <2>1, <2>3 DEF BatchInv, DiskInv
  <2>7. ASSUME NEW f \in DOMAIN disk' PROVE HopTools(disk'[f]) = <<Index>>
    <3>1. CASE f = UnderWay
      <4>1. disk'[f] = tw'.events
        BY <2>1, <3>1
      <4>2. QED
        BY <2>2, <4>1
    <3>2. CASE f # UnderWay
      <4>1. f \in DOMAIN disk /\ disk'[f] = disk[f]
        BY <2>1, <3>2
      <4>2. QED
        BY <4>1 DEF BatchInv, DiskInv
    <3>3. QED
      BY <3>1, <3>2
  <2>8. DiskInv'
    BY <2>1, <2>5, <2>6, <2>7 DEF BatchInv, DiskInv
  <2>9. QED
    BY <2>4, <2>8 DEF BatchInv
<1>5. CASE EndBatch \/ BatchAborts
  BY <1>5 DEF EndBatch, BatchAborts, BatchInv, UnderWayInv, DiskInv, Bank
<1>6. ASSUME NEW known \in SUBSET Bank, Score(known) PROVE BatchInv'
  <2>1. UNCHANGED <<bank, phase, toRun, tw, disk>>
    BY <1>6 DEF Score
  <2>2. QED
    BY <2>1 DEF BatchInv, UnderWayInv, DiskInv, Bank
<1>7. CASE UNCHANGED baselineVars
  BY <1>7 DEF baselineVars, BatchInv, UnderWayInv, DiskInv, Bank
<1>8. QED
  BY <1>1, <1>2, <1>3, <1>4, <1>5, <1>6, <1>7 DEF BaselineNext

LEMMA BatchInvariant == BaselineSpec => []BatchInv
BY BatchBegins, BatchKeeps, PTL DEF BaselineSpec

LEMMA BaselineStep ==
  ASSUME BatchInv, [BaselineNext]_baselineVars
  PROVE  [Floor!InvestigationNext]_(Floor!investigationVars)
<1> DEFINE state == IF phase \in {"retrieve", "answer"} THEN "investigating" ELSE "idle"
           chain == HopTools(tw.events)
<1> USE DEF Floor!InvestigationNext
<1>1. CASE StartFixture
  <2>1. phase = "next" /\ phase' = "retrieve" /\ written' = written
    BY <1>1 DEF StartFixture
  <2>2. chain' = <<>>
    BY <1>1, FixtureStarts
  <2>3. Floor!Begin
    BY <2>1, <2>2 DEF Floor!Begin
  <2>4. QED
    BY <2>3
<1>2. CASE Retrieve
  <2>1. phase = "retrieve" /\ phase' = "answer" /\ written' = written
    BY <1>2 DEF Retrieve
  <2>2. chain' = Append(chain, Index) /\ Index \in Sources
    BY <1>2, RetrievalIsOneHop, BaselineAssumption
  <2>3. Floor!TakeHop(Index)
    BY <2>1, <2>2 DEF Floor!TakeHop
  <2>4. QED
    BY <2>2, <2>3
<1>3. CASE Answer
  <2>1. phase = "answer" /\ phase' = "next"
    BY <1>3 DEF Answer
  <2>2. chain' = chain /\ written' = Append(written, [chain |-> chain, depth |-> Len(chain)])
    BY <1>3, AnswerReports
  <2>3. Floor!Report
    BY <2>1, <2>2 DEF Floor!Report
  <2>4. QED
    BY <2>3
<1>4. CASE BatchAborts
  <2>1. phase \in {"retrieve", "answer"} /\ phase' = "idle" /\ UNCHANGED <<tw, written>>
    BY <1>4 DEF BatchAborts
  <2>2. Floor!GiveUp
    BY <2>1 DEF Floor!GiveUp
  <2>3. QED
    BY <2>2
<1>5. ASSUME \/ \E fixtures \in SUBSET Bank : StartBatch(fixtures)
             \/ EndBatch
             \/ \E known \in SUBSET Bank : Score(known)
             \/ UNCHANGED baselineVars
      PROVE  UNCHANGED Floor!investigationVars
  <2>1. UNCHANGED <<tw, written>> /\ state' = state
    BY <1>5 DEF StartBatch, EndBatch, Score, baselineVars
  <2>2. QED
    BY <2>1 DEF Floor!investigationVars
<1>6. QED
  BY <1>1, <1>2, <1>3, <1>4, <1>5 DEF BaselineNext

\* The single-shot baseline implements the arms' common specification: one hop to each
\* investigation, reported with its number, and nothing reported of a batch that breaks
\* off in it.
THEOREM BaselineImplementsInvestigation == BaselineSpec => BaselineIsInvestigation
<1>1. BaselineInit => Floor!InvestigationInit
  <2> SUFFICES ASSUME BaselineInit PROVE Floor!InvestigationInit
    OBVIOUS
  <2>1. HopTools(tw.events) = <<>>
    BY BatchBegins
  <2>2. phase = "idle" /\ written = <<>>
    BY DEF BaselineInit
  <2>3. QED
    BY <2>1, <2>2 DEF Floor!InvestigationInit
<1>2. BatchInv /\ [BaselineNext]_baselineVars =>
        [Floor!InvestigationNext]_(Floor!investigationVars)
  BY BaselineStep
<1>3. QED
  BY <1>1, <1>2, BatchInvariant, PTL
     DEF BaselineSpec, BaselineIsInvestigation, Floor!InvestigationSpec

\* What score makes of a trace that holds the one hop to the index.
LEMMA VerdictOnOneHop ==
  ASSUME BatchInv, NEW known \in SUBSET Bank, NEW f \in DOMAIN disk
  PROVE  /\ Judge!BranchVerdict(Entry(f, known), HopTools(disk[f])) => Control(f)
         /\ ~Fails(f, known) <=> Control(f) /\ Retrieved(f)
<1>1. HopTools(disk[f]) = <<Index>> /\ Len(HopTools(disk[f])) = 1
  BY DEF BatchInv, DiskInv
<1>2. bank[f] \in Seq(Sources) /\ Len(bank[f]) \in Nat
  BY LenProperties, ElementOfSeq DEF BatchInv, UnderWayInv, DiskInv, Bank
<1>3. f \in known => Entry(f, known) = [loaded |-> TRUE, path |-> bank[f], stop |-> Len(bank[f])]
  BY DEF Entry, Judge!Fixture
<1>4. f \notin known => ~Entry(f, known).loaded
  BY DEF Entry, Judge!NoFixture
<1>5. Len(bank[f]) = 1 /\ bank[f][1] = Index => bank[f] = <<Index>>
  BY <1>2
<1>6. ASSUME Judge!BranchVerdict(Entry(f, known), HopTools(disk[f])) PROVE Control(f)
  <2>1. f \in known
    BY <1>4, <1>6 DEF Judge!BranchVerdict, Judge!DepthOutcome
  <2>2. Len(bank[f]) = 1
    <3>1. Judge!DepthOutcome(Entry(f, known), Len(HopTools(disk[f]))) = "pass"
      BY <1>6 DEF Judge!BranchVerdict
    <3>2. Entry(f, known).loaded = TRUE /\ Entry(f, known).stop = Len(bank[f])
      BY <1>3, <2>1
    <3>3. Len(HopTools(disk[f])) = Entry(f, known).stop
      BY <3>1, <3>2 DEF Judge!DepthOutcome
    <3>4. QED
      BY <1>1, <3>2, <3>3
  <2>3. bank[f][1] = Index
    BY <1>1, <1>3, <1>6, <2>1 DEF Judge!BranchVerdict, Judge!ChainOutcome
  <2>4. QED
    BY <1>5, <2>2, <2>3 DEF Control
<1>7. ASSUME Control(f)
      PROVE  /\ Judge!ChainOutcome(Entry(f, known), HopTools(disk[f])) # "fail"
             /\ Judge!DepthOutcome(Entry(f, known), Len(HopTools(disk[f]))) # "fail"
  <2>1. bank[f] = <<Index>>
    BY <1>7 DEF Control
  <2>2. CASE f \in known
    BY <1>1, <1>3, <2>1, <2>2 DEF Judge!ChainOutcome, Judge!DepthOutcome
  <2>3. CASE f \notin known
    BY <1>4, <2>3 DEF Judge!ChainOutcome, Judge!DepthOutcome
  <2>4. QED
    BY <2>2, <2>3
<1>8. ~Fails(f, known) <=> Control(f) /\ Retrieved(f)
  BY <1>1, <1>7 DEF Fails, Control, Retrieved
<1>9. QED
  BY <1>6, <1>8

\* score passes no fixture but a control, and it exits with 0 exactly when the
\* directory holds only traces of controls that were retrieved, for every fixtures
\* file that the traces were written from and every one that score is given.
THEOREM ScoreIsHonest == BaselineSpec => GateIsHonest
<1> DEFINE Honest ==
      gate' # gate =>
        /\ \A f \in DOMAIN disk : gate'.verdicts[f] => Control(f)
        /\ gate'.green <=> \A f \in DOMAIN disk : Control(f) /\ Retrieved(f)
<1>1. ASSUME BatchInv, [BaselineNext]_baselineVars PROVE Honest
  <2>1. ASSUME NEW known \in SUBSET Bank, Score(known) PROVE Honest
    <3>1. gate' = [verdicts |-> [f \in DOMAIN disk |->
                     Judge!BranchVerdict(Entry(f, known), HopTools(disk[f]))],
                   green |-> \A f \in DOMAIN disk : ~Fails(f, known)]
      BY <2>1 DEF Score
    <3>2. ASSUME NEW f \in DOMAIN disk, gate'.verdicts[f] PROVE Control(f)
      <4>1. Judge!BranchVerdict(Entry(f, known), HopTools(disk[f]))
        BY <3>1, <3>2
      <4>2. QED
        BY <1>1, <4>1, VerdictOnOneHop
    <3>3. gate'.green <=> \A f \in DOMAIN disk : ~Fails(f, known)
      BY <3>1
    <3>4. (\A f \in DOMAIN disk : ~Fails(f, known)) <=>
            \A f \in DOMAIN disk : Control(f) /\ Retrieved(f)
      BY <1>1, VerdictOnOneHop
    <3>5. QED
      BY <3>2, <3>3, <3>4
  <2>2. ~(\E known \in SUBSET Bank : Score(known)) => UNCHANGED gate
    BY <1>1 DEF BaselineNext, StartBatch, StartFixture, Retrieve, Answer, EndBatch,
         BatchAborts, baselineVars
  <2>3. QED
    BY <2>1, <2>2
<1>2. BatchInv /\ [BaselineNext]_baselineVars => [Honest]_baselineVars
  BY <1>1
<1>3. QED
  BY <1>2, BatchInvariant, PTL DEF BaselineSpec, GateIsHonest

=============================================================================
