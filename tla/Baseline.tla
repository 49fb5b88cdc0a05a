------------------------------ MODULE Baseline ------------------------------
(***************************************************************************)
(* The single-shot baseline (baseline.py) and the `score` command          *)
(* (evals/score.py, cli.py) over the traces it leaves.                     *)
(*                                                                         *)
(* A batch runs its fixtures one after the other: one EDGAR request, one   *)
(* completion, one trace.  What neither of its two exception clauses nor   *)
(* the answerer catches ends the whole batch; the traces written before    *)
(* stay, beside those of earlier batches.                                  *)
(*                                                                         *)
(* Checks gives the verdict on a trace; the other checks of agent-evals    *)
(* (external) compare a trace with the chain stamped into it and with      *)
(* nothing else, and fail a trace that holds an error (tests/).            *)
(***************************************************************************)
EXTENDS TraceWriter

CONSTANTS
  Index,       \* EDGAR_SUBMISSIONS_INDEX
  Banks,       \* fixtures files: sequences of ground-truth paths; a fixture's id
               \* is its place
  MaxBatches   \* bound of the batches run

ASSUME BaselineAssumption ==
  /\ Index \in Sources /\ NoSource \notin Sources
  /\ Banks \subseteq Seq(Seq(Sources) \ {<<>>})
  /\ MaxBatches \in Nat

VARIABLES
  bank,       \* the fixtures file
  batches,    \* batches begun
  phase,      \* idle, next, retrieve, answer
  toRun,      \* fixtures the batch has not run
  tw,         \* the TraceWriter of the fixture under way
  disk,       \* the trace directory: fixture -> the events of its trace
  written,    \* traces written, in order
  gate        \* what score said last: the verdicts, and whether it exits with 0

baselineVars == <<bank, batches, phase, toRun, tw, disk, written, gate>>

Bank == 1..Len(bank)
UnderWay == CHOOSE f \in toRun : \A g \in toRun : f <= g
NoGate == [verdicts |-> [f \in {} |-> FALSE], green |-> FALSE]

\* The checks of one trace against the registry's fixture, if it has one.
Judge == INSTANCE Checks WITH
  RawPaths <- {}, RawDepths <- {}, MaxHops <- 0,
  fixture <- [loaded |-> FALSE, path |-> <<>>, stop |-> 0],
  called <- HopTools(tw.events)

Entry(f, known) ==
  IF f \in known THEN Judge!Fixture(bank[f], Len(bank[f])) ELSE Judge!NoFixture

-----------------------------------------------------------------------------
(* run_baseline.                                                           *)

StartBatch(fixtures) ==
  /\ phase = "idle" /\ batches < MaxBatches
  /\ batches' = batches + 1
  /\ toRun' = fixtures
  /\ phase' = "next"
  /\ UNCHANGED <<bank, tw, disk, written, gate>>

\* The trace is started and the model "decides" on its one retrieval.
StartFixture ==
  /\ phase = "next" /\ toRun # {}
  /\ tw' = RecordTurn(Start(NewTrace), 0)
  /\ phase' = "retrieve"
  /\ UNCHANGED <<bank, batches, toRun, disk, written, gate>>

\* Faulty variant: a failed retrieval is followed by a hop for what it returned.
RetrieveTwice ==
  /\ phase = "retrieve"
  /\ tw' \in {RecordHop(tw, Index, 1), RecordHop(RecordHopError(tw, Index, 1), Index, 1)}
  /\ phase' = "answer"
  /\ UNCHANGED <<bank, batches, toRun, disk, written, gate>>

\* An HTTPError or a ValueError is a failed hop, and the model is asked all the same.
Retrieve ==
  /\ phase = "retrieve"
  /\ tw' \in {RecordHop(tw, Index, 1), RecordHopError(tw, Index, 1)}
  /\ phase' = "answer"
  /\ UNCHANGED <<bank, batches, toRun, disk, written, gate>>

\* The answer, of a provider or of offline_answerer; then finish and write.
Answer ==
  LET done == Finish(RecordTurn(tw, 0)) IN
  /\ phase = "answer"
  /\ tw' = done
  /\ disk' = [f \in DOMAIN disk \union {UnderWay} |->
                IF f = UnderWay THEN done.events ELSE disk[f]]
  /\ written' = Append(written, [chain |-> HopTools(done.events),
                                 depth |-> DepthReached(done)])
  /\ toRun' = toRun \ {UnderWay}
  /\ phase' = "next"
  /\ UNCHANGED <<bank, batches, gate>>

EndBatch ==
  /\ phase = "next" /\ toRun = {}
  /\ phase' = "idle"
  /\ UNCHANGED <<bank, batches, toRun, tw, disk, written, gate>>

\* Another exception of the client, the answerer's, or a write that fails.
BatchAborts ==
  /\ phase \in {"retrieve", "answer"}
  /\ phase' = "idle"
  /\ toRun' = {}
  /\ UNCHANGED <<bank, batches, tw, disk, written, gate>>

-----------------------------------------------------------------------------
(* score.                                                                  *)

Fails(f, known) ==
  LET chain == HopTools(disk[f]) IN
  \/ Judge!ChainOutcome(Entry(f, known), chain) = "fail"
  \/ Judge!DepthOutcome(Entry(f, known), Len(chain)) = "fail"
  \/ chain # bank[f]                       \* tool_selection, tool_count (external)
  \/ \E i \in 1..Len(disk[f]) : disk[f][i].kind = "tool_error"   \* no_tool_errors

\* Faulty variant: the exit status is taken from the verdicts.
ScoreByVerdicts(known) ==
  /\ phase = "idle" /\ DOMAIN disk # {}
  /\ LET verdicts == [f \in DOMAIN disk |->
                        Judge!BranchVerdict(Entry(f, known), HopTools(disk[f]))]
     IN  gate' = [verdicts |-> verdicts, green |-> \A f \in DOMAIN disk : verdicts[f]]
  /\ UNCHANGED <<bank, batches, phase, toRun, tw, disk, written>>

\* Every trace of the directory is scored; the fixtures file given to score may be
\* another, of which these ids are known.  An empty directory raises.
Score(known) ==
  /\ phase = "idle" /\ DOMAIN disk # {}
  /\ gate' = [verdicts |-> [f \in DOMAIN disk |->
                Judge!BranchVerdict(Entry(f, known), HopTools(disk[f]))],
              green |-> \A f \in DOMAIN disk : ~Fails(f, known)]
  /\ UNCHANGED <<bank, batches, phase, toRun, tw, disk, written>>

BaselineInit ==
  /\ bank \in Banks
  /\ batches = 0 /\ phase = "idle" /\ toRun = {} /\ tw = NewTrace
  /\ disk = [f \in {} |-> <<>>] /\ written = <<>> /\ gate = NoGate

BaselineNext ==
  \/ \E fixtures \in SUBSET Bank : StartBatch(fixtures)
  \/ StartFixture \/ Retrieve \/ Answer \/ EndBatch \/ BatchAborts
  \/ \E known \in SUBSET Bank : Score(known)

BaselineSpec == BaselineInit /\ [][BaselineNext]_baselineVars

-----------------------------------------------------------------------------
(* Properties.                                                             *)

\* The baseline investigates as every arm does.
Floor == INSTANCE Investigation WITH
  status <- IF phase \in {"retrieve", "answer"} THEN "investigating" ELSE "idle",
  hops <- HopTools(tw.events),
  reports <- written

\* The weakest arm keeps the arms' common specification too, through failed
\* retrievals and batches that break off.
BaselineIsInvestigation == Floor!InvestigationSpec

Control(f) == bank[f] = <<Index>>
Retrieved(f) == \A i \in 1..Len(disk[f]) : disk[f][i].kind # "tool_error"

\* Module docstring: the baseline is "engineered to pass the single-hop controls and
\* fail the multi-hop fixtures".  Whatever failed and whatever broke off, score passes
\* no fixture but a control, and it exits with 0 exactly when the directory holds only
\* traces of controls that were retrieved; the verdicts alone do not say so much,
\* since a failed retrieval has the hop of a successful one.
GateIsHonest ==
  [][gate' # gate =>
       /\ \A f \in DOMAIN disk : gate'.verdicts[f] => Control(f)
       /\ gate'.green <=> \A f \in DOMAIN disk : Control(f) /\ Retrieved(f)]_baselineVars

=============================================================================
