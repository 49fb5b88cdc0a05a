# credit-risk-monitoring in TLA+

The repository compares two builds of the same credit-risk investigator. *Arm A*
orchestrates two model-driven sub-agents itself and puts an authority broker in
front of every tool call; *Arm B* lets a managed multi-agent session do the
orchestration and only serves its tool calls. Both write a trace per fixture, which
mechanical checks and a judge score. The modules here model the state machines of
that code, TLC checks them on small instances, and TLAPS proves nearly all of their
safety properties, and that all three arms implement one specification, for every
instance.

`PROJECT.json` lists the components, runs, mutants, hazards, findings and theorems,
and maps each definition to the lines it stands for. Paths below are relative to
`src/src/credit_risk_monitoring/`.

## Inventory

| part (source) | state | operations | what makes it correct |
|---|---|---|---|
| authority broker (`agent/authz.py`) | revoked agents and nonces, deny list | mint, authorize, revoke_agent, revoke_token, deny_tool, allow_tool | a kill is final and wins over every token; a grant needs a live token that covers the tool; the log explains every grant |
| audit sinks (`agent/audit.py`) | event list; connection and table | record, close | nothing is lost without a warning, rows keep the order of the events |
| trace writer (`trace.py`) | event list, turn, finished | start, record_turn, record_hop(_error), finish | well-formed traces whose depth counts the hops |
| tool router and handlers (`agent/tools.py`) | token, allowed tools, turn | call_tool | a hop and an audit event for each call that ran, for no other |
| Arm A orchestrator, sub-agents, contracts (`agent/orchestrator.py`, `subagents.py`, `contracts.py`) | phase, turn, findings, resolutions | investigate: exposure, resolutions, synthesis, errors | phases keep to their tools, a stop is obeyed, every run ends with a trace |
| Arm B driver (`agent_managed/orchestrator.py`) | trace, usage, counts, bounds | investigate, drive the session, run a tool, close | never waits on a session that waits on it; trace and result tell what the session did |
| roster, Skill, experiment (`agent_managed/roster.py`, `skill.py`, `skill_experiment.py`) | agents, environments, Skills on the provider's side; rosters in memory | ensure_skill, ensure_roster, run_skill_experiment, archive; traces and sidecars on disk, reused | variants differ in the Skill and the read tool that comes with it, over one environment; what was created is archived, what is reused was completed |
| HTTP primitives (`sources.py`) | the limiter's lock and next slot, the attempt | acquire, request_with_retry | spacing, a bounded budget, no thread stuck |
| EDGAR client and handlers (`sources.py`, `agent/tools.py`) | loaded filings, older files, a filing's directory | fetch_submissions_index, find_filings, fetch_filing | a lookup finds the filings it asks for, and the filing opened is the newest of them, at a document that is there |
| Companies House client and handler (`agent/companies_house.py`, `agent/tools.py`) | items, start index | search, profile, charges, officers, filing_history; a name resolved to a number | the company asked for is the one told of, its list is read whole |
| rating client (`agent/rating.py`) | none | a single request | – |
| fixtures (`fixtures.py`) | none | load, select | only consistent fixtures load |
| checks and score (`evals/checks.py`, `evals/score.py`) | none | chain and depth checks, branch verdict, score | the verdict passes when the hops recorded, failed and repeated ones included, are the expected chain, and for no other run; the exit status is not kinder |
| metrics and comparison (`agent_managed/metrics.py`, `compare.py`) | trace directories, sidecars | run an arm, score, render | a table shows the runs it claims to show |
| baseline (`baseline.py`) | trace writer of the fixture under way, trace directory | run_one, run_baseline | passes the controls and nothing else |
| judge criteria (`evals/criteria.py`), CLI (`cli.py`), Docker, terraform, CI | none of their own | | |

How they interact. `cli.py` builds one broker per command and hands it to Arm A's
orchestrator, which mints a token and a router per phase; the router asks the broker
before each handler, and writes to the trace and the audit sink after it. Handlers
run in worker threads (`asyncio.to_thread`), so an administrator's call, other tool
calls and a lease's end may fall between the authorisation and the hop; everything
else runs on one event loop. Arm B reads a stream of events from a remote session,
which waits for the driver's answers. The clients share a rate limiter between
threads. Comparison and scoring meet the arms only through files, which outlive the
commands.

What is hard to test: a kill racing calls in flight; exceptions no `except` names;
the bookkeeping of turns across phases; who waits on whom in Arm B; late wake-ups in
the limiter; outages between two inserts; registers that grow while they are paged;
files of earlier commands, whole or cut short; remote creations that succeed and then
raise; sessions that fall silent; names and documents that are nearly the right ones. The hazards
of `PROJECT.json` give each at its line.

## Modules

* `KillSwitch` is what the broker promises an operator: permits are given only to
  agents that are not killed, for tools not denied at that moment.
* `Authz` is the broker with its tokens, leases and audit log. Each method is one
  action, as the class runs on the event-loop thread. The reasons and their order in
  `_evaluate` are kept, the event's `detail` keeps only scopes and lifetime.
* `Investigation` is what every arm promises of a fixture: one investigation at a
  time, and a report whose chain and depth are the retrievals of that investigation,
  each once and in order. `ArmA`, `ArmB` and `Baseline` implement it, each through a
  refinement mapping of its own variables.
* `TraceWriter` holds the trace writer's operations as operators on a record; the
  arms and the baseline use it. What a reader takes out of a trace, its hops or
  its outcomes, is given by places: `Select(seq, places)` is what a sequence has at a
  set of places, in order.
* `ArmA` extends `Authz` and `TraceWriter`: the code between two awaits is one
  action. `CallTool` is `call_tool` up to its await, `HandlerReturns`,
  `HandlerFails` and `HandlerRaises` are what follows; `ExposureReturns`,
  `ResolutionReturns`, `SynthesisReturns`, `ContractFails` and
  `InvestigationCrashes` are the phases' ends. The agent loop and the model are
  external: any tool by any name, any contract the parser accepts, at any time.
  A trace directory that cannot be written halts the batch.
* `ArmAScore` puts the branch verdict of `Checks` on the trace of an Arm A run.
* `ArmB` puts the driver beside the session, which is external. A call's id is its
  place in `asked`; `usage` (inside the drive loop) and `streamUsage` (after it) are
  two variables because the code has two.
* `Checks` has the two mechanical checks, the branch verdict and the consistency
  check at load time, taken of a run that grows hop by hop.
* `RetryLimiter` has threads that share one limiter, with real waiting: a sleeper
  wakes at its time or up to `MaxLag` late.
* `EdgarLookup` has the submissions index beside a filing history in a recent window
  and older files; `FilingHop` extends it by the two handlers that use it: the index
  handler, and the one that opens a filing by url, by accession or by form and dates,
  with the pin of its document. A document is what its name and type tell of it. What
  a lookup finds is the set of places, in the list of filings loaded, of those that
  match; the filing taken is the one at the least place, as the handler takes the first,
  and a directory's listing is searched by places in the same way.
* `CHPagination` reads a list page by page while it grows; `RegistryHop` extends it by
  the register handler: search, profile and lists, of a company given by number or
  by name, or none of it when there is no client. A name is its core and the words the normalisation drops.
* `AuditSink` puts the Postgres sink beside a database that goes down.
* `Baseline` has batches of the single-shot baseline over one trace directory, and the
  `score` command on it, with the checks of `Checks` on the traces of `TraceWriter`.
* `CompareRuns` is a sequence of `compare` invocations over one data directory, each
  free to select other fixtures and arms, to skip running, to break off, or to be
  killed in the middle of a write. A trace cut short is either unreadable or looks
  like a shorter run; a sidecar cut short is no JSON.
* `SkillExperiment` is a sequence of experiments in one workspace at the provider and
  over one data directory; every remote call may raise, before or after it took
  effect, and an experiment may reuse the variants it finds on disk. Of an agent's
  definition the tools and the Skill are kept, as an agent created with a Skill gets a
  tool the others have not; prompts and model are left out. The operator may have
  configured ids of agents, and of an environment. How a single
  trace or sidecar can be torn is the subject of `CompareRuns` and is left out here: a
  torn file only makes a reuse raise, which it may do anyway.
* `AuthzProofs`, `TraceWriterProofs`, `ArmAProofs`, `ArmALogProofs`, `ArmBProofs`,
  `ChecksProofs`, `ServicesProofs` and `EvaluationProofs` hold the theorems, each about
  the modules it extends. The `MC` modules give TLC its constants. `MCServices` and `MCEvaluation` put modules that share no
  state in one run: each behaviour belongs to one of them and the others rest.

Definitions named as faulty variants are mutations of the code's definitions, used
to see that each property can fail; no specification uses them.

## Runs

| run | properties | what it shows |
|---|---|---|
| `authz` | `AuthzTypeOK`, `AdminKillWins`, `LogExplainsGrants`, `GrantsRideLiveTokens`, `BrokerIsKillSwitch` | every order of mints, decisions, kills and expiry in a log of four events |
| `arm_a` | `ArmATypeOK`, `TraceMatchesLog`, `GrantsAreAccounted`, `HopsCarryTheirTurn`, `PhaseDiscipline`, `ResultsMatchTraces`, `VerdictIsInTheLog` | one investigation: trace, log, phases, result and verdict agree |
| `arm_a_operator` | `KillLatency`, `InvestigationsConclude` | kills and expiry during an investigation: what may still finish, and that it ends |
| `arm_a_batch` | `ArmAUsesBroker`, `ArmAIsInvestigation` | the posture survives from one fixture to the next, and nothing of a trace does |
| `arm_b` | `ArmBTypeOK`, `SessionIsServed`, `TraceFollowsSession`, `ResultMatchesTrace`, `TokensNeverOvercounted`, `ArmBIsInvestigation`, `InvestigationEnds` | driver against session, with crashes at every blocking call |
| `services` | limiter and retry: `BudgetIsKept`, `SlotsAreSpaced`, `RequestsEnd`; EDGAR: `DatedLookupsAreExact`, `RightFilingIsOpened`; Companies House: `NamedCompanyIsResolved`, `ListsAreReadWhole`, `RegistryHopEnds`; audit table: `TableIsLogLessFailures` | the clients of outside services and the handlers over them, one after the other |
| `evaluation` | `VerdictIffExactChain`; `GateIsHonest`, `BaselineIsInvestigation`; `TablesAreOfTheirRun`, `SidecarsAreWhole`; `VariantsDifferInSkillAndRead`, `FinishedRostersAreArchived`, `ReusedVariantsWereCompleted` | checks, baseline and score, comparison, Skill experiment |
| `arm_a_audit`, `arm_b_fallback`, `arm_b_silence`, `registry_exact`, `experiment_configured` | one each | violations: what a doc or comment says and the code does not do (below) |

Bounds, and why they are enough:

* `authz`: two agents, two tools, two nonces, a log of four. Properties relate at most
  a mint, a kill and a decision about one agent; a fourth event and a second agent
  leave room for something unrelated in between. The proofs have no bound.
* `arm_a`: contracts with no resolvable lead and with two around one that is not, two
  calls per sub-agent, a tool each phase has and a name nobody serves, and four
  chains of up to three hops that such a run can take and be scored against. The second
  lead is the first at which a router's turn can be stale. `arm_a_operator` has an
  act of the administrator at any point, a lease that expires (its length is 0, so one
  tick ends it) and the two leads with one call each, so that a kill during one lead's
  call must stop the next lead's;
  `arm_a_batch` has a second fixture and four tokens. Nonces are symmetric in `arm_a`
  and `arm_a_batch`, as in `authz`; `arm_a_operator` checks liveness and uses none.
* `arm_b`: an event bound of 4 and up to 5 emitted events (and the last one), so that
  the bound is met, passed and not met; that suffices for two tool calls, a message,
  an idle and usage in any order.
* `services`: two threads, two retries, a Retry-After below and above the cap, the
  limiter on and off; histories of up to four filings over three days and a window of
  two, so that a day can lie on both sides of the window's edge; directories with the
  filing's own document behind one that looks like it, without it, and empty; searches
  of up to three hits with names that are equal, equal but for dropped words, contained
  and unlike; lists of up to eight entries and pages of three, two entries added; four
  audit events, two outages. `registry_exact` needs no pages.
* `evaluation`: chains up to three hops and runs up to five; banks of two fixtures,
  each a control, a chain that starts at the index or one that does not, and two
  batches, so that a trace of the first lies beside one of the second; for `compare`
  two fixtures, one arm, two, or one named twice, three invocations (an older full
  one, a narrower one, one that breaks off); three experiments over one fixture or two
  and over both variants, the second alone or the second twice, so that a variant is
  completed, then run again half way, then reused; one archive call that fails (`MaxWarnings`). The properties of the
  experiment are checked with no ids configured, so that each run makes an environment
  and its agents; `experiment_configured` has every set of configured ids, and shows
  why.

Deadlock checking is off in all runs: a finished batch, session, lookup or
comparison stops.

Fairness. Arm A: weak fairness of `Investigate` only, because the event loop runs
what is ready, handlers have HTTP timeouts, and loops end at `max_turns`; nothing is
assumed of the administrator or of time. Arm B: weak fairness of the driver, one
thread that runs when it is not blocked, and of a session's ending its turn once
nothing is owed to it; a session that waits for an answer need do nothing. This is an
assumption about the provider and not about the code: the wall-clock bound is only
looked at when an event arrives. `arm_b_silence` drops that assumption and keeps the
driver's. `RetryLimiter`: time goes on and each thread runs when it can; the lock needs
no stronger fairness as it is asked for finitely often. `RegistryHop`: a request
that does not fail is answered; none need fail, so no failure ends a loop that would
not end by itself, and the register need not grow.

External assumptions. Of agent-evals: `tools_called` is the sequence of a trace's
retrievals, failed ones included, and its other checks compare a trace with the chain
stamped into it and fail one that holds an error (the tests under `tests/` rely on
both). Of the Managed Agents SDK: what it may send to keep a connection alive is not
handed to the caller as an event, so it ends no wait of the loop; a read timeout in the
SDK, which the code does not set, would be the only end of a silent session.

## Proofs

All are about every value of the constants, from the named assumptions of the modules:
types of the constants; for Arm A that the two roles' tools are disjoint and that
scopes are the roles' tools (`EXPOSURE_TOOLS`, `RESOLUTION_TOOLS`); for Arm B that the source recorded for an
unknown tool, an EDGAR one, is not one of the resolution tools; for the register
that a name contains itself; for EDGAR that a history is listed newest first and its
recent window holds at least one filing. The two theorems about the Skill experiment's rosters
have the hypothesis that the operator has configured no agents, though he may have
configured an environment; the run `experiment_configured` shows that it is needed.

* `AuthzProofs`. `StepShape` reduces each step to one that leaves the log alone or
  appends one event of a known kind; every other proof splits on that.
  `AuthzTypeCorrect` is inductive alone. `AdminKillWins` is not: it says nothing of
  the broker's sets. The strengthening `LogInv` says that an agent with an
  administrator's revoke in the log is in `revokedAgents` (`KillInForce`), that log
  entries are not in the future (`LogInThePast`) and that each token in circulation
  has its mint in the log (`TokensAreLogged`). From it follow `AdminKillIsFinal`,
  `GrantsAreExplained` and, with the types, `GrantsNeedLiveTokens`.
  `BrokerImplementsKillSwitch` maps each step to a step of `KillSwitch` or a stutter;
  permits are the log's grants by place.
* `TraceWriterProofs` has the lemmas the arms' proofs share: what `Select` returns for
  a sequence that grows at its end, what each method of the writer does to the events
  and to `HopTools` (`HopShape`, `TurnShape`, `FinishShape`), and that each keeps a
  trace `Sound`: well formed, its counters the numbers of its events. That an ordered
  set of places has an n-th needs an induction; it is made over a set of numbers, from
  the well-foundedness of the naturals (`SetInduction`), since the library's induction
  theorems take an operator.
* `ArmAProofs`. `ArmAImplementsAuthz`: every step of Arm A is a step of the broker or
  leaves it alone. It needs that the router's token was minted whenever a call is
  possible (`RouterInv`). `ArmAKillIsFinal` and `ArmAGrantsAreExplained` follow, for
  batches of any length with any number of calls in flight. `ArmAInv` adds to the types
  what each phase may rely on (`Phases`: the leads pending, the turn of the trace, the
  router's tools) and that calls exist only inside a loop; from it `ArmATypeCorrect`,
  and with `TurnsInv` (while exposure runs all hops are of turn 1, although its contract
  may yet say stop) `ArmAHopsCarryTheirTurn` and `ArmAIsDisciplined`.
  `ArmAResultsMatchTraces` and `ArmAImplementsInvestigation` rest on `Sound`. Because Arm
  A implements the broker, what is proved of the broker alone is true of Arm A:
  `ArmAGrantsNeedLiveTokens`, and by two refinements in a row `ArmAImplementsKillSwitch`.
* `ArmALogProofs`. `ArmATraceMatchesLog` and `ArmAGrantsAreAccounted` need each other and
  one thing more: a router serves exactly the tools its token is good for
  (`ScopesServed`), as a grant for a tool that is not served would be dropped before it
  runs. `ArmAKillIsQuick` is inductive only with the calls still in flight counted in
  (`LatencyInv`): executes since the revoke and calls running are together no more than
  may run at once. `ArmAVerdictIsInTheLog` puts three modules together: for a fixture of
  any chain, the branch verdict of `Checks` on a run's trace passes exactly when the
  executes in the broker's log are that chain. The hops that the verdict reads and the
  outcomes that the log agrees with are different events of the trace; `ToolsInv` keeps
  them in one order although calls overlap.
* `ArmBProofs`. The properties say what the driver has made of the session so far; they
  become inductive with what is still in the stream (`ArmBInv`): the calls not yet read
  are the next ones of the session in its order (`HopsInv`), an answer owed is to a call
  in the stream or to the one in hand (`AnswerInv`), a turn's end is in the stream
  only when nothing is owed (`SessionInv`), tokens to be reported are tokens spent
  already (`UsageInv`). A run left on idle has missed no call, because a call that is
  not read yet is still waited on (`CompleteInv`). From these follow `ArmBTypeCorrect`, `ArmBServesTheSession`,
  `ArmBTraceFollowsSession`, `ArmBResultMatchesTrace`, `ArmBTokensNeverOvercounted` and
  `ArmBImplementsInvestigation`.
* `ChecksProofs`. `VerdictIsExact`, about the hops as recorded, failed ones among
  them, and `WrongTurnsStay` (a run off its chain stays off
  it, which is proved only, and no run checks): neither check alone decides
  the chain, and what ties them together is that a fixture loads only if its depth is
  the length of its chain (`FixtureInv`).
* `ServicesProofs`. `RetryInv`: the lock is held by the one thread that sleeps, which
  wakes no sooner than an interval after the last slot (`SlotInv`), and what a thread
  has sent and slept is bounded by its attempts (`Budget`). From it
  `LimiterSpacesItsSlots` and `RetriesKeepTheirBudget`, where 2^n is a natural number
  because it counts subsets. `SinkInv` (no row is of an event yet to come) for
  `TableMissesNothingSilently`. `PagesInv` for `PagesPassNothingOver`: entries come in at
  the front of the list, so what was there at the start and is not yet read lies at
  or behind the place where the next page starts. `RegistryInv` for
  `NamesAreResolvedAmongHits`: nothing is the subject until the register has answered.
  For EDGAR, `LookupInv` says that what is loaded and what is left are the two parts of
  the history (`Split`) and `found` the matches among the first. A match that a lookup
  with a lower date leaves unread is of the day on which the window ends
  (`MissedByTheWindow`), and none that it loads is loaded twice (`FoundOnce`):
  `LookupsWithALowerDateAreExact`. `HandlersKeepToTheLookup` carries that over to the two
  handlers. `OpeningInv` ties a handler's stage to the filing and the listing it has in
  hand; that the first of what was found is the newest there is, or all there is is in
  older files listed the other way round (`FirstFoundIsNewest`), and that a document is
  picked whenever the listing has one, give `TheRightFilingIsOpened`.
* `EvaluationProofs`. `CompareInv` says which run each file and each row in memory is
  of; `SidecarsAreOfOneRun` and `TablesShowTheirRun` are parts of it. For the Skill
  experiment `DiskIsComplete` (a sidecar is the work of a run that completed the variant,
  and its traces are of that run or a later one) gives `ReuseIsOfCompletedRuns`;
  `VariantsApart` (the agents of the roster being made and of each result carry the
  Skill if their variant is the one with it and not otherwise, and all are over the
  run's one environment) gives `VariantsDifferBySkill`, as an agent's role and Skill
  settle its tools (`ToolsOfAgents`); `NoneIsForgotten` gives `RostersAreArchived`: apart from three
  agents at most for each run that is over, those neither archived nor warned of are in
  the hands of the run under way. `BatchInv` (every trace on disk has one hop, to the
  index) gives `BaselineImplementsInvestigation` and `ScoreIsHonest`.

Every one of these invariants was checked by TLC on the run's instance before it was
proved, and two properties were corrected on the way: `compare` and the experiment may
be given the same arm or variant twice, which the constants of the runs had not
allowed for and the proofs did (below). `SlotsAreSpaced` is now about the step that
passes the limiter. `TraceFollowsSession` says more than it did: that a run left on idle
has every call of the session in its trace.

Every invariant of the runs is proved, and every action property and refinement. Only
model-checked is liveness: `InvestigationsConclude`, `InvestigationEnds`, `RequestsEnd`
and `RegistryHopEnds`, as fairness and ENABLED are out of the prover's reach. What
recursive definitions of the library compute cannot be proved for every input, so the
modules say by places what the code filters, reverses and picks.

The properties that the violation runs refute are theorems of nothing, of course.
No module declares a recursive operator.

## Findings

* `arm_a_audit`: an exception that `call_tool` does not catch leaves an allowed call
  with no execute event, against "every tool execution ... is recorded"
  (`agent/audit.py`). `GrantsAreAccounted` is what does hold.
* `arm_b_fallback`: when the drive loop raises, its token count goes with its frame,
  and the fallback "to the sum accumulated off the stream" is 0.
  `TokensNeverOvercounted` is what does hold.
* `arm_b_silence`: both "safety bounds" are looked at when an event arrives, so a
  session that stays open and says nothing more is waited for without end.
  `InvestigationEnds` is what does hold, of a session that goes on.
* `registry_exact`: names are compared after Group, Holdings, Limited and the like are
  dropped, and the first equal one is taken: "Wejo Limited" may be resolved to a
  "Wejo Group Limited" listed before it. `NamedCompanyIsResolved` is what does hold.
* `experiment_configured`: with ids set in `ARM_B_..._ID` variables both variants run the
  operator's agents, so the Skill is no difference at all, and the cleanup "of the agents
  this experiment created" archives the operator's: it archives each roster's ids without
  a look at `Roster.created`. Without such ids, `VariantsDifferInSkillAndRead` and
  `FinishedRostersAreArchived` are what does hold.

Conditions that other properties need, and that are worth knowing:

* EDGAR: only `date_from` makes a lookup read the older files; an upper date alone
  below the recent window finds nothing, and so does a lower date equal to the day on
  which the window ends when the rest of that day is in the older files (`OlderUnread`,
  `WindowSplitsADay`). The older files are merged in the order the index names them,
  not "in date order" as the docstring of `fetch_submissions_index` has it, so the
  newest of matches that are all older is the first only if the index lists its files
  newest first (`newestFirst`). A wrong guess of a document's name sets aside the name
  in the index row too, and the directory's heuristic decides.
* A register that serves fewer rows per page than asked for ends `_paginate` early
  (`HonoursPageSize`). A company without a number that matches best makes the hop
  fail, although a lower hit may have one.
* After an outage the audit sink keeps its dead connection until it is closed
  (`DeadConnection`): every event since then is missing from the table, with a warning
  each.
* Rosters: one whose creation raises half way is in no list, so the agents made for it
  are not archived ("so the experiment leaves no orphaned agents" in the docstring of
  `skill_experiment.py` is about finished rosters). Environments are never archived,
  although that docstring speaks of "the MA resources it created". A reused variant is the metrics of one earlier
  run and the traces that lie there now, which may be of other fixtures than this run
  selects, or of a later run that broke off.
* Variants: an agent created with a Skill also has the built-in `read` tool, which loads
  it (`_create_agent` in `roster.py`, and `docs/skills-experiment.md` says so), so the
  Skill is not quite "the ONLY difference" of the docstring of `skill_experiment.py`,
  even with agents of the experiment's own.
* Comparison: with `--skip-run` the totals are those of an earlier run, while the cells
  may be of one that broke off since; a trace cut short at the end of a line is scored
  as a shorter run until it is written again.
* `--arms` and `--variants` take the same name twice (argparse checks each against the
  choices, not the list). The arm or variant is then run twice and pays twice; while the
  second run is under way the first one's sidecar lies beside traces of the same
  invocation that are being written again (`Repeats` in `StandFor`), and a repeated
  variant with `--reuse-existing` is reused from the very run that names it.
* Baseline: a failed retrieval counts as a hop, so a control passes its verdict with
  it; the exit status of `score` tells the difference. What the answerer raises ends
  the batch, where the other arms go on to the next fixture.
* Arm B records a call of an unknown tool as a failed hop of the default source, Arm A
  leaves no hop.

## Not modelled

The rating client is one request without state, through the `request_with_retry` that
`RetryLimiter` models, and a blank result when no provider is configured; the exhibit
handler is one request too. HTML extraction, the names by which a document is
recognised as a wrapper or an exhibit, and what handlers and reports render are text:
`FilingHop` has the outcome of that recognition. Prompts, contract parsing, the judge,
its criteria and Braintrust are text or outside services; a phase returns any contract
instead. YAML parsing of fixtures is left out but for its consistency check.
`--no-cleanup` leaves every agent on purpose. Terraform, the Docker image and CI are
declarative.

## Plan

Written in this order: broker and kill switch, trace writer and Arm A, Arm B, checks,
limiter and retry, audit sink, EDGAR, Companies House, Skill experiment, comparison;
then the specification common to the arms, the handlers over EDGAR and the register,
the baseline with `score`, torn writes and reuse from disk. The proofs were
made in the same order.

Left for the proofs: that a batch of Arm A answers every fixture once; that what
`score` says of a trace of any arm is what `Investigation` reports of it, of which
`ArmAVerdictIsInTheLog` is the part for Arm A's branch verdict.

Left for the models: Arm A's log written through the Postgres sink while it is down,
and the comparison with its arms' own state machines inside, in place of one step for
each fixture.
