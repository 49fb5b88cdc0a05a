---------------------------- MODULE TraceWriter ----------------------------
(***************************************************************************)
(* The scored trace of one investigation (trace.py): the writer's buffered *)
(* events and its counters as a value, and each of its methods as an       *)
(* operator on that value.  Every driver of the system (the baseline, Arm  *)
(* A's ToolRouter and Orchestrator, Arm B's session driver) writes its     *)
(* trace through these operators and nothing else.                         *)
(*                                                                         *)
(* An event keeps its kind, turn, source type and tool_use_id; locators,   *)
(* previews, findings and answer text are left out, token counts are kept. *)
(***************************************************************************)
EXTENDS Naturals, Sequences, FiniteSets

CONSTANT Sources   \* the values of SourceType

NoSource == "none"

TraceEventKinds == {"query_meta", "loop_start", "claude_response", "tool_use",
               "tool_result", "tool_error", "loop_end"}

TraceEvent == [kind : TraceEventKinds, turn : Nat, tool : Sources \union {NoSource},
               id : Nat, tokens : Nat]

Trace == [events : Seq(TraceEvent), turn : Nat, tool_calls : Nat,
          finished : BOOLEAN]

TEvent(kind, turn, tool, id) ==
  [kind |-> kind, turn |-> turn, tool |-> tool, id |-> id, tokens |-> 0]

\* The writer as constructed, before start().
NewTrace == [events |-> <<>>, turn |-> 0, tool_calls |-> 0, finished |-> FALSE]

Start(tw) ==
  [tw EXCEPT !.events = @ \o << TEvent("query_meta", 0, NoSource, 0),
                                TEvent("loop_start", 0, NoSource, 0) >>]

RecordTurn(tw, tokens) ==
  [tw EXCEPT !.turn = @ + 1,
             !.events = Append(@, [kind |-> "claude_response", turn |-> tw.turn + 1,
                                   tool |-> NoSource, id |-> 0, tokens |-> tokens])]

\* One hop is a tool_use and its outcome, written together under one fresh id.
Hop(tw, source, turn, outcome) ==
  [tw EXCEPT !.tool_calls = @ + 1,
             !.events = @ \o << TEvent("tool_use", turn, source, tw.tool_calls + 1),
                                TEvent(outcome, turn, source, tw.tool_calls + 1) >>]

RecordHop(tw, source, turn)      == Hop(tw, source, turn, "tool_result")
RecordHopError(tw, source, turn) == Hop(tw, source, turn, "tool_error")

\* loop_end carries the number of turns and, as its id, the number of hops.
Finish(tw) ==
  [tw EXCEPT !.finished = TRUE,
             !.events = Append(@, TEvent("loop_end", tw.turn, NoSource, tw.tool_calls))]

DepthReached(tw) == tw.tool_calls

-----------------------------------------------------------------------------
(* What a reader of the trace relies on.                                   *)

Uses(events) == {i \in 1..Len(events) : events[i].kind = "tool_use"}
Outcomes(events) ==
  {i \in 1..Len(events) : events[i].kind \in {"tool_result", "tool_error"}}

\* Each retrieval is answered by the very next event, under its id, source and
\* turn, and no outcome stands alone.
Paired(events) ==
  /\ \A i \in Uses(events) :
       /\ i + 1 \in Outcomes(events)
       /\ events[i + 1].id = events[i].id
       /\ events[i + 1].tool = events[i].tool
       /\ events[i + 1].turn = events[i].turn
  /\ \A i \in Outcomes(events) : i - 1 \in Uses(events)

\* Ids count the hops: each of 1..tool_calls names exactly one tool_use, in order.
IdsCount(tw) ==
  /\ \A i \in Uses(tw.events) : tw.events[i].id \in 1..tw.tool_calls
  /\ \A i, j \in Uses(tw.events) : i < j => tw.events[i].id < tw.events[j].id
  /\ \A n \in 1..tw.tool_calls : \E i \in Uses(tw.events) : tw.events[i].id = n

\* Model responses are numbered 1, 2, ... without gap or repetition.
Responses(events) == {i \in 1..Len(events) : events[i].kind = "claude_response"}
TurnsCount(tw) ==
  /\ \A i \in Responses(tw.events) : tw.events[i].turn \in 1..tw.turn
  /\ \A i, j \in Responses(tw.events) : i < j => tw.events[i].turn < tw.events[j].turn
  /\ \A n \in 1..tw.turn : \E i \in Responses(tw.events) : tw.events[i].turn = n

\* Nothing follows the end, and the end reports the counters.
EndsOnce(tw) ==
  /\ \A i \in 1..Len(tw.events) :
       tw.events[i].kind = "loop_end" =>
         /\ i = Len(tw.events) /\ tw.finished
         /\ tw.events[i].turn = tw.turn /\ tw.events[i].id = tw.tool_calls
  /\ tw.finished => \E i \in 1..Len(tw.events) : tw.events[i].kind = "loop_end"

\* The n-th of a finite set of places, and what a sequence has at such places.
Rank(places, n) == {i \in places : Cardinality({j \in places : j <= i}) = n}
Nth(places, n) == CHOOSE i \in Rank(places, n) : TRUE
Select(seq, places) == [n \in 1..Cardinality(places) |-> seq[Nth(places, n)]]

\* tools_called: the source of each hop, failed ones included, in order.
HopTools(events) ==
  LET hops == Select(events, Uses(events)) IN [n \in 1..Len(hops) |-> hops[n].tool]

WellFormed(tw) == Paired(tw.events) /\ IdsCount(tw) /\ TurnsCount(tw) /\ EndsOnce(tw)

=============================================================================
