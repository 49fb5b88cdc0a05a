--------------------------- MODULE ArmALogProofs ---------------------------
(***************************************************************************)
(* Arm A's trace and the broker's audit log are written by different hands *)
(* at different moments.  Here is shown, for every batch, contract, tool   *)
(* set and schedule, that they tell one story (TraceMatchesLog), that no   *)
(* grant disappears (GrantsAreAccounted), that a revoke lets no more run   *)
(* than was already running (KillLatency), and that the log alone decides  *)
(* the verdict on the trace.                                               *)
(***************************************************************************)
EXTENDS ArmAProofs, ArmAScore

-----------------------------------------------------------------------------
(* A log with one more event.                                              *)

IsGrantEvent(e) == e.action = "authorize" /\ e.allowed

LEMMA LogPlaces ==
  ASSUME NEW log \in Seq(AuditEvent), NEW e \in AuditEvent
  PROVE  LET log2 == Append(log, e) IN
         /\ IsGrantEvent(e) => GrantedIn(log2) = GrantedIn(log) \union {Len(log) + 1}
         /\ ~IsGrantEvent(e) => GrantedIn(log2) = GrantedIn(log)
         /\ e.action = "execute" => ExecutedIn(log2) = ExecutedIn(log) \union {Len(log) + 1}
         /\ e.action # "execute" => ExecutedIn(log2) = ExecutedIn(log)
<1> DEFINE log2 == Append(log, e)
<1>1. /\ log2 \in Seq(AuditEvent) /\ Len(log) \in Nat /\ Len(log2) = Len(log) + 1
      /\ log2[Len(log) + 1] = e /\ \A i \in 1..Len(log) : log2[i] = log[i]
  BY AppendProperties, LenProperties
<1> HIDE DEF log2
<1>2. 1..Len(log2) = (1..Len(log)) \union {Len(log) + 1}
  BY <1>1
<1>3. /\ IsGrantEvent(e) => GrantedIn(log2) = GrantedIn(log) \union {Len(log) + 1}
      /\ ~IsGrantEvent(e) => GrantedIn(log2) = GrantedIn(log)
  BY <1>1, <1>2 DEF GrantedIn, IsGrantEvent
<1>4. /\ e.action = "execute" => ExecutedIn(log2) = ExecutedIn(log) \union {Len(log) + 1}
      /\ e.action # "execute" => ExecutedIn(log2) = ExecutedIn(log)
  BY <1>1, <1>2 DEF ExecutedIn
<1>5. QED
  BY <1>3, <1>4 DEF log2

LEMMA LogCounts ==
  ASSUME NEW log \in Seq(AuditEvent), NEW e \in AuditEvent
  PROVE  LET log2 == Append(log, e) IN
         /\ Cardinality(GrantedIn(log)) \in Nat /\ Cardinality(ExecutedIn(log)) \in Nat
         /\ IsGrantEvent(e) => Cardinality(GrantedIn(log2)) = Cardinality(GrantedIn(log)) + 1
         /\ ~IsGrantEvent(e) => Cardinality(GrantedIn(log2)) = Cardinality(GrantedIn(log))
         /\ e.action = "execute" =>
              Cardinality(ExecutedIn(log2)) = Cardinality(ExecutedIn(log)) + 1
         /\ e.action # "execute" =>
              Cardinality(ExecutedIn(log2)) = Cardinality(ExecutedIn(log))
<1> DEFINE G == GrantedIn(log)
           X == ExecutedIn(log)
<1>1. Len(log) \in Nat /\ G \subseteq 1..Len(log) /\ X \subseteq 1..Len(log)
  BY LenProperties DEF GrantedIn, ExecutedIn
<1>2. IsFiniteSet(1..Len(log))
  BY <1>1, FS_Interval
<1>3. /\ IsFiniteSet(G) /\ Cardinality(G) \in Nat
      /\ IsFiniteSet(X) /\ Cardinality(X) \in Nat
  BY <1>1, <1>2, FS_Subset, FS_CardinalityType
<1>4. Len(log) + 1 \notin G /\ Len(log) + 1 \notin X
  BY <1>1
<1>5. /\ Cardinality(G \union {Len(log) + 1}) = Cardinality(G) + 1
      /\ Cardinality(X \union {Len(log) + 1}) = Cardinality(X) + 1
  BY <1>3, <1>4, FS_AddElement
<1> DEFINE log2 == Append(log, e)
<1>6. /\ IsGrantEvent(e) => GrantedIn(log2) = G \union {Len(log) + 1}
      /\ ~IsGrantEvent(e) => GrantedIn(log2) = G
      /\ e.action = "execute" => ExecutedIn(log2) = X \union {Len(log) + 1}
      /\ e.action # "execute" => ExecutedIn(log2) = X
  BY LogPlaces
<1>7. QED
  BY <1>3, <1>5, <1>6

\* What a reader of the log, or of the trace, gets from one more outcome.
Outcome(tool, ok) == [tool |-> tool, ok |-> ok]
OutcomeType == [tool : SUBSET (Tools \union {NoSource}), ok : BOOLEAN]

LEMMA ExecutedGrows ==
  ASSUME NEW log \in Seq(AuditEvent), NEW e \in AuditEvent
  PROVE  /\ e.action # "execute" => Executed(Append(log, e)) = Executed(log)
         /\ e.action = "execute" =>
              Executed(Append(log, e)) = Append(Executed(log), Outcome(e.tool, e.reason = ""))
<1> DEFINE log2 == Append(log, e)
           old == Select(log, ExecutedIn(log))
           new == Select(log2, ExecutedIn(log2))
<1>1. /\ log2 \in Seq(AuditEvent) /\ Len(log) \in Nat /\ Len(log2) = Len(log) + 1
      /\ log2[Len(log) + 1] = e /\ \A i \in 1..Len(log) : log2[i] = log[i]
  BY AppendProperties, LenProperties
<1>2. ExecutedIn(log) \in SUBSET (1..Len(log)) /\ Len(log) <= Len(log2)
  BY <1>1 DEF ExecutedIn
<1>3. /\ e.action = "execute" => ExecutedIn(log2) = ExecutedIn(log) \union {Len(log) + 1}
      /\ e.action # "execute" => ExecutedIn(log2) = ExecutedIn(log)
  BY LogPlaces
<1>4. old \in Seq(AuditEvent) /\ Len(old) \in Nat
  BY <1>2, SelectType, LenProperties
<1> HIDE DEF log2
<1>5. CASE e.action # "execute"
  <2>1. new = old
    BY <1>1, <1>2, <1>3, <1>5, SelectSame
  <2>2. Executed(log2) = Executed(log)
    BY <2>1 DEF Executed
  <2>3. QED
    BY <1>5, <2>2 DEF log2
<1>6. CASE e.action = "execute"
  <2>1. new = Append(old, e)
    <3>1. Len(log) + 1 \in (Len(log) + 1)..Len(log2)
      BY <1>1
    <3>2. QED
      BY <1>1, <1>2, <1>3, <1>6, <3>1, SelectGrows
  <2> DEFINE n == Len(old)
             F(x) == Outcome(x.tool, x.reason = "")
  <2>2. /\ Len(new) = n + 1 /\ new[n + 1] = e /\ n \in Nat
        /\ \A k \in 1..n : new[k] = old[k] /\ old[k] \in AuditEvent
    <3> HIDE DEF old, new
    <3>1. QED
      BY <1>4, <2>1, AppendProperties, ElementOfSeq
  <2>3. \A x \in AuditEvent : F(x) \in OutcomeType
    BY DEF OutcomeType, Outcome, AuditEvent
  <2>4. Executed(log) = [k \in 1..n |-> F(old[k])]
    BY DEF Executed, Outcome
  <2>5. Executed(log2) = [k \in 1..(n + 1) |-> F(new[k])]
    BY <2>2 DEF Executed, Outcome
  <2> HIDE DEF F, old, new, n
  <2>6. /\ Executed(log) = [k \in 1..n |-> Executed(log)[k]]
        /\ \A k \in 1..n : Executed(log)[k] = F(old[k]) /\ Executed(log)[k] \in OutcomeType
    BY <2>2, <2>3, <2>4
  <2>7. /\ Executed(log2) = [k \in 1..(n + 1) |-> Executed(log2)[k]]
        /\ \A k \in 1..(n + 1) : Executed(log2)[k] = F(new[k])
    BY <2>5
  <2>8. n + 1 \in 1..(n + 1) /\ \A k \in 1..n : k \in 1..(n + 1)
    BY <2>2
  <2>9. /\ \A k \in 1..n : Executed(log2)[k] = Executed(log)[k]
        /\ Executed(log2)[n + 1] = F(e) /\ F(e) \in OutcomeType
    BY <2>2, <2>3, <2>6, <2>7, <2>8
  <2>10. Executed(log2) = Append(Executed(log), Executed(log2)[n + 1])
    BY <2>2, <2>6, <2>7, <2>9, LastPlace
  <2>11. QED
    BY <1>6, <2>9, <2>10 DEF F, log2
<1>7. QED
  BY <1>5, <1>6

LEMMA RetrievedSame ==
  ASSUME NEW tr \in Trace, NEW tr2 \in Trace, Outcomes(tr2.events) = Outcomes(tr.events),
         Len(tr.events) <= Len(tr2.events),
         \A i \in 1..Len(tr.events) : tr2.events[i] = tr.events[i]
  PROVE  Retrieved(tr2.events) = Retrieved(tr.events)
<1>1. tr.events \in Seq(TraceEvent) /\ tr2.events \in Seq(TraceEvent)
  BY TraceType
<1>2. Outcomes(tr.events) \in SUBSET (1..Len(tr.events))
  BY DEF Outcomes
<1>3. Select(tr2.events, Outcomes(tr2.events)) = Select(tr.events, Outcomes(tr.events))
  BY <1>1, <1>2, SelectSame
<1>4. QED
  BY <1>3 DEF Retrieved

LEMMA RetrievedGrows ==
  ASSUME NEW tr \in Trace, NEW tr2, NEW s \in Sources, NEW t \in Nat,
         NEW outcome \in {"tool_result", "tool_error"}, Hopped(tr, tr2, s, t, outcome)
  PROVE  Retrieved(tr2.events) =
           Append(Retrieved(tr.events), Outcome({s}, outcome = "tool_result"))
<1> DEFINE ev == tr.events
           ev2 == tr2.events
           last == ev2[Len(ev) + 2]
           old == Select(ev, Outcomes(ev))
           new == Select(ev2, Outcomes(ev2))
<1>1. /\ ev \in Seq(TraceEvent) /\ Len(ev) \in Nat /\ tr2 \in Trace
      /\ ev2 \in Seq(TraceEvent) /\ Len(ev2) = Len(ev) + 2
      /\ \A i \in 1..Len(ev) : ev2[i] = ev[i]
      /\ Outcomes(ev2) = Outcomes(ev) \union {Len(ev) + 2}
      /\ last.kind = outcome /\ last.tool = s
  BY TraceType DEF Hopped, TEvent
<1>2. Outcomes(ev) \in SUBSET (1..Len(ev)) /\ Len(ev) <= Len(ev2)
  BY <1>1 DEF Outcomes
<1>3. old \in Seq(TraceEvent) /\ Len(old) \in Nat
  BY <1>1, <1>2, SelectType, LenProperties
<1>4. last \in TraceEvent
  BY <1>1, ElementOfSeq
<1> HIDE DEF ev2, ev
<1>5. new = Append(old, last)
  <2> DEFINE m == Len(ev) + 2
             P == Outcomes(ev)
  <2>0. /\ ev \in Seq(TraceEvent) /\ ev2 \in Seq(TraceEvent) /\ Len(ev) <= Len(ev2)
        /\ \A i \in 1..Len(ev) : ev2[i] = ev[i]
        /\ P \in SUBSET (1..Len(ev))
    BY <1>1, <1>2
  <2>1. m \in (Len(ev) + 1)..Len(ev2)
    BY <1>1
  <2>2. Outcomes(ev2) = Outcomes(ev) \union {m} /\ last = ev2[m]
    BY <1>1
  <2> HIDE DEF m, P, last, old, new
  <2>3. Select(ev2, P \union {m}) = Append(Select(ev, P), ev2[m])
    BY <2>0, <2>1, SelectGrows
  <2>4. QED
    BY <2>2, <2>3 DEF old, new, P
<1> DEFINE n == Len(old)
           F(x) == Outcome({x.tool}, x.kind = "tool_result")
<1>6. /\ Len(new) = n + 1 /\ new[n + 1] = last /\ n \in Nat
      /\ \A k \in 1..n : new[k] = old[k] /\ old[k] \in TraceEvent
  <2> HIDE DEF old, new, last
  <2>1. QED
    BY <1>3, <1>4, <1>5, AppendProperties, ElementOfSeq
<1>7. \A x \in TraceEvent : F(x) \in OutcomeType
  BY ArmAAssumption DEF OutcomeType, Outcome, TraceEvent
<1>8. Retrieved(ev) = [k \in 1..n |-> F(old[k])]
  BY DEF Retrieved, Outcome
<1>9. Retrieved(ev2) = [k \in 1..(n + 1) |-> F(new[k])]
  BY <1>6 DEF Retrieved, Outcome
<1>10. F(last) = Outcome({s}, outcome = "tool_result")
  BY <1>1
<1> HIDE DEF F, old, new, n, last
<1>11. /\ Retrieved(ev) = [k \in 1..n |-> Retrieved(ev)[k]]
       /\ \A k \in 1..n : Retrieved(ev)[k] = F(old[k]) /\ Retrieved(ev)[k] \in OutcomeType
  BY <1>6, <1>7, <1>8
<1>12. /\ Retrieved(ev2) = [k \in 1..(n + 1) |-> Retrieved(ev2)[k]]
       /\ \A k \in 1..(n + 1) : Retrieved(ev2)[k] = F(new[k])
  BY <1>9
<1>13. n + 1 \in 1..(n + 1) /\ \A k \in 1..n : k \in 1..(n + 1)
  BY <1>6
<1>14. /\ \A k \in 1..n : Retrieved(ev2)[k] = Retrieved(ev)[k]
       /\ Retrieved(ev2)[n + 1] = F(last) /\ F(last) \in OutcomeType
  BY <1>4, <1>6, <1>7, <1>11, <1>12, <1>13
<1>15. Retrieved(ev2) = Append(Retrieved(ev), Retrieved(ev2)[n + 1])
  BY <1>6, <1>11, <1>12, <1>14, LastPlace
<1>16. QED
  BY <1>10, <1>14, <1>15 DEF ev, ev2

-----------------------------------------------------------------------------
(* The log of the current run.                                             *)

LEMMA RunLogGrows ==
  ASSUME audit \in Seq(AuditEvent), logStart \in 0..Len(audit), NEW e \in AuditEvent,
         Record(e), UNCHANGED logStart
  PROVE  RunLog \in Seq(AuditEvent) /\ RunLog' = Append(RunLog, e)
<1> DEFINE l == Len(audit)
           m == l - logStart
<1>1. /\ l \in Nat /\ audit' \in Seq(AuditEvent) /\ Len(audit') = l + 1
      /\ \A i \in 1..l : audit'[i] = audit[i] /\ audit[i] \in AuditEvent
      /\ audit'[l + 1] = e
  BY RecordShape, LenProperties, ElementOfSeq
<1> HIDE DEF l
<1>2. /\ logStart \in Nat /\ m \in Nat /\ logStart + 1 \in Int /\ l + 1 \in Int
      /\ \A i \in (logStart + 1)..l : i \in 1..l
      /\ \A i \in (logStart + 1)..(l + 1) : i \in 1..l \/ i = l + 1
  BY <1>1 DEF l
<1>3. /\ SubSeq(audit, logStart + 1, l) \in Seq(AuditEvent)
      /\ Len(SubSeq(audit, logStart + 1, l)) = m
      /\ \A i \in 1..m : SubSeq(audit, logStart + 1, l)[i] = audit[logStart + i]
  <2>1. \A i \in (logStart + 1)..l : audit[i] \in AuditEvent
    BY <1>1, <1>2
  <2>2. /\ SubSeq(audit, logStart + 1, l) \in Seq(AuditEvent)
        /\ Len(SubSeq(audit, logStart + 1, l)) =
             IF logStart + 1 <= l THEN l - (logStart + 1) + 1 ELSE 0
        /\ \A i \in 1..(l - (logStart + 1) + 1) :
             SubSeq(audit, logStart + 1, l)[i] = audit[logStart + 1 + i - 1]
    BY <1>1, <1>2, <2>1, SubSeqProperties
  <2>3. l - (logStart + 1) + 1 = m /\ \A i \in 1..m : logStart + 1 + i - 1 = logStart + i
    BY <1>1, <1>2
  <2>4. (IF logStart + 1 <= l THEN m ELSE 0) = m
    BY <1>1, <1>2
  <2>5. QED
    BY <2>2, <2>3, <2>4
<1>4. /\ SubSeq(audit', logStart + 1, l + 1) \in Seq(AuditEvent)
      /\ Len(SubSeq(audit', logStart + 1, l + 1)) = m + 1
      /\ \A i \in 1..(m + 1) : SubSeq(audit', logStart + 1, l + 1)[i] = audit'[logStart + i]
  <2>1. \A i \in (logStart + 1)..(l + 1) : audit'[i] \in AuditEvent
    BY <1>1, <1>2
  <2>2. /\ SubSeq(audit', logStart + 1, l + 1) \in Seq(AuditEvent)
        /\ Len(SubSeq(audit', logStart + 1, l + 1)) =
             IF logStart + 1 <= l + 1 THEN (l + 1) - (logStart + 1) + 1 ELSE 0
        /\ \A i \in 1..((l + 1) - (logStart + 1) + 1) :
             SubSeq(audit', logStart + 1, l + 1)[i] = audit'[logStart + 1 + i - 1]
    BY <1>1, <1>2, <2>1, SubSeqProperties
  <2>3. /\ (l + 1) - (logStart + 1) + 1 = m + 1 /\ logStart + 1 <= l + 1
        /\ \A i \in 1..(m + 1) : logStart + 1 + i - 1 = logStart + i
    BY <1>1, <1>2
  <2>4. QED
    BY <2>2, <2>3
<1>5. RunLog = SubSeq(audit, logStart + 1, l) /\ RunLog' = SubSeq(audit', logStart + 1, l + 1)
  BY <1>1 DEF RunLog, l
<1>6. /\ Append(RunLog, e) \in Seq(AuditEvent) /\ Len(Append(RunLog, e)) = m + 1
      /\ Append(RunLog, e)[m + 1] = e
      /\ \A i \in 1..m : Append(RunLog, e)[i] = audit[logStart + i]
  BY <1>3, <1>5, AppendProperties
<1>7. \A i \in 1..(m + 1) : RunLog'[i] = Append(RunLog, e)[i]
  <2> TAKE i \in 1..(m + 1)
  <2>1. CASE i = m + 1
    <3>1. logStart + i = l + 1
      BY <1>1, <1>2, <2>1
    <3>2. QED
      BY <1>1, <1>4, <1>5, <1>6, <2>1, <3>1
  <2>2. CASE i \in 1..m
    <3>1. logStart + i \in 1..l
      BY <1>1, <1>2, <2>2
    <3>2. QED
      BY <1>1, <1>4, <1>5, <1>6, <2>2, <3>1
  <2>3. m \in Nat
    BY <1>2
  <2>4. i \in 1..m \/ i = m + 1
    BY <2>3
  <2>5. QED
    BY <2>1, <2>2, <2>4
<1>8. QED
  BY <1>3, <1>4, <1>5, <1>6, <1>7, SeqEqual

\* It is empty when the run begins.
LEMMA RunLogStarts ==
  ASSUME audit \in Seq(AuditEvent), NEW e \in AuditEvent, Record(e), logStart' = Len(audit)
  PROVE  RunLog' = Append(<<>>, e)
<1> DEFINE l == Len(audit)
<1>1. /\ l \in Nat /\ audit' \in Seq(AuditEvent) /\ Len(audit') = l + 1 /\ audit'[l + 1] = e
  BY RecordShape, LenProperties
<1> HIDE DEF l
<1>2. RunLog' = SubSeq(audit', l + 1, l + 1)
  BY <1>1 DEF RunLog, l
<1>3. \A i \in (l + 1)..(l + 1) : audit'[i] \in AuditEvent
  BY <1>1
<1>4. /\ RunLog' \in Seq(AuditEvent)
      /\ Len(RunLog') = IF l + 1 <= l + 1 THEN (l + 1) - (l + 1) + 1 ELSE 0
      /\ \A i \in 1..((l + 1) - (l + 1) + 1) : RunLog'[i] = audit'[l + 1 + i - 1]
  <2> DEFINE k == l + 1
             sub == SubSeq(audit', k, k)
  <2>1. k \in Int
    BY <1>1
  <2> HIDE DEF k
  <2>2. /\ sub \in Seq(AuditEvent) /\ Len(sub) = IF k <= k THEN k - k + 1 ELSE 0
        /\ \A i \in 1..(k - k + 1) : sub[i] = audit'[k + i - 1]
    <3>1. \A i \in k..k : audit'[i] \in AuditEvent
      BY <1>3 DEF k
    <3>2. QED
      BY <2>1, <3>1, SubSeqProperties
  <2> HIDE DEF sub
  <2>3. RunLog' = sub
    BY <1>2 DEF sub, k
  <2>4. QED
    BY <2>2, <2>3 DEF k
<1>5. (l + 1) - (l + 1) + 1 = 1 /\ l + 1 <= l + 1 /\ l + 1 + 1 - 1 = l + 1
  BY <1>1
<1>6. Len(RunLog') = 1 /\ RunLog'[1] = e
  BY <1>1, <1>4, <1>5
<1>7. <<e>> \in Seq(AuditEvent) /\ Len(<<e>>) = 1 /\ <<e>>[1] = e
  OBVIOUS
<1>8. RunLog' = <<e>>
  BY <1>4, <1>6, <1>7, SeqEqual
<1>9. QED
  BY <1>8

-----------------------------------------------------------------------------
(* The accounts of the current run.  They balance because a router serves  *)
(* exactly the tools its token is good for (ScopesServed): were it to      *)
(* serve fewer, a granted call could be dropped before it runs.            *)

ScopesServed == run > 0 => router.token.scopes = router.tools
OneStory == run > 0 => Executed(RunLog) = Retrieved(tw.events)
AccountInv == ScopesServed /\ OneStory /\ GrantsAreAccounted

\* Events that are neither a grant nor an execution leave the accounts alone.
SameAccounts ==
  /\ Executed(RunLog)' = Executed(RunLog)
  /\ Cardinality(GrantedIn(RunLog))' = Cardinality(GrantedIn(RunLog))
  /\ Cardinality(ExecutedIn(RunLog))' = Cardinality(ExecutedIn(RunLog))

LEMMA NothingExecuted ==
  ASSUME NEW log, Len(log) = 0
  PROVE  /\ Executed(log) = <<>> /\ Cardinality(ExecutedIn(log)) = 0
         /\ Cardinality(GrantedIn(log)) = 0
<1>1. ExecutedIn(log) = {} /\ GrantedIn(log) = {}
  BY DEF ExecutedIn, GrantedIn
<1>2. Cardinality(ExecutedIn(log)) = 0 /\ Cardinality(GrantedIn(log)) = 0
  BY <1>1, FS_EmptySet
<1> DEFINE none == Select(log, ExecutedIn(log))
<1>3. none = <<>>
  BY <1>2 DEF Select
<1> HIDE DEF none
<1>4. Executed(log) = <<>>
  BY <1>3 DEF Executed, none
<1>5. QED
  BY <1>2, <1>4

LEMMA NothingRetrieved ==
  ASSUME NEW e, Outcomes(e) = {}
  PROVE  Retrieved(e) = <<>>
<1>1. Cardinality(Outcomes(e)) = 0
  BY FS_EmptySet
<1> DEFINE none == Select(e, Outcomes(e))
<1>2. none = <<>>
  BY <1>1 DEF Select
<1> HIDE DEF none
<1>3. QED
  BY <1>2 DEF Retrieved, none

LEMMA QuietRecord ==
  ASSUME audit \in Seq(AuditEvent), logStart \in 0..Len(audit), UNCHANGED logStart,
         NEW e \in AuditEvent, Record(e), e.action # "execute", ~IsGrantEvent(e)
  PROVE  SameAccounts
<1>1. RunLog \in Seq(AuditEvent) /\ RunLog' = Append(RunLog, e)
  BY RunLogGrows
<1>2. /\ Executed(RunLog)' = Executed(RunLog')
      /\ Cardinality(GrantedIn(RunLog))' = Cardinality(GrantedIn(RunLog'))
      /\ Cardinality(ExecutedIn(RunLog))' = Cardinality(ExecutedIn(RunLog'))
  OBVIOUS
<1> HIDE DEF RunLog
<1>3. /\ Cardinality(GrantedIn(RunLog')) = Cardinality(GrantedIn(RunLog))
      /\ Cardinality(ExecutedIn(RunLog')) = Cardinality(ExecutedIn(RunLog))
  BY <1>1, LogCounts
<1>4. Executed(RunLog') = Executed(RunLog)
  BY <1>1, ExecutedGrows
<1>5. QED
  BY <1>2, <1>3, <1>4 DEF SameAccounts

LEMMA LogIsCounted ==
  ASSUME ArmATypeOK
  PROVE  /\ Cardinality(GrantedIn(RunLog)) \in Nat /\ Cardinality(ExecutedIn(RunLog)) \in Nat
<1>1. audit \in Seq(AuditEvent) /\ Len(audit) \in Nat /\ logStart \in 0..Len(audit)
  BY LenProperties DEF ArmATypeOK, AuthzTypeOK
<1>2. \A i \in (logStart + 1)..Len(audit) : audit[i] \in AuditEvent
  BY <1>1, ElementOfSeq
<1>3. RunLog \in Seq(AuditEvent)
  BY <1>1, <1>2, SubSeqProperties DEF RunLog
<1> HIDE DEF RunLog
<1>4. Len(RunLog) \in Nat /\ IsFiniteSet(1..Len(RunLog))
  BY <1>3, LenProperties, FS_Interval
<1>5. GrantedIn(RunLog) \subseteq 1..Len(RunLog) /\ ExecutedIn(RunLog) \subseteq 1..Len(RunLog)
  BY DEF GrantedIn, ExecutedIn
<1>6. QED
  BY <1>4, <1>5, FS_Subset, FS_CardinalityType

LEMMA QuietStep ==
  ASSUME UNCHANGED <<audit, logStart>>
  PROVE  SameAccounts
BY DEF SameAccounts, RunLog

\* What the events say that matter here.
LEMMA EventKinds ==
  /\ \A token : MintEvent(token).action = "mint"
  /\ \A a, tool, d : /\ AuthorizeEvent(a, tool, d).action = "authorize"
                     /\ AuthorizeEvent(a, tool, d).allowed = d.allowed
                     /\ AuthorizeEvent(a, tool, d).who = {a}
  /\ \A a, tool, reason : /\ ExecuteEvent(a, tool, reason).action = "execute"
                          /\ ExecuteEvent(a, tool, reason).tool = {tool}
                          /\ ExecuteEvent(a, tool, reason).reason = reason
                          /\ ExecuteEvent(a, tool, reason).who = {a}
  /\ \A who, tool, action, reason : AdminEvent(who, action, tool, reason).action = action
BY DEF MintEvent, AuthorizeEvent, ExecuteEvent, AdminEvent

LEMMA AccountInit == ArmAInit => AccountInv
  BY DEF ArmAInit, AccountInv, ScopesServed, OneStory, GrantsAreAccounted

LEMMA AccountStart ==
  ASSUME ArmAInv, AuthzTypeOK', StartInvestigation
  PROVE  AccountInv'
<1>1. /\ NewRouter("exposure", ExposureTools, 1) /\ tw' = Start(NewTrace)
      /\ lost' = 0 /\ logStart' = Len(audit) /\ UNCHANGED calls /\ pc = "idle"
  BY DEF StartInvestigation
<1>2. calls = {}
  BY <1>1 DEF ArmAInv, CallsInv, InLoop
<1>3. "exposure" \in Agents /\ AuthzTypeOK
  BY ArmAAssumption DEF ArmAInv, ArmATypeOK
<1>4. router'.token.scopes = router'.tools
  BY <1>1, <1>3, NewRouterType
<1>5. PICK token \in ToolToken : Record(MintEvent(token))
  BY <1>1, <1>3, NewRouterType
<1>6. /\ MintEvent(token) \in AuditEvent /\ audit \in Seq(AuditEvent)
  BY <1>3, <1>5, EventTypes DEF AuthzTypeOK
<1>7. RunLog' = Append(<<>>, MintEvent(token))
  BY <1>1, <1>5, <1>6, RunLogStarts
<1>8. MintEvent(token).action = "mint"
  BY EventKinds
<1> DEFINE none == <<>>
           log == Append(none, MintEvent(token))
<1>9. none \in Seq(AuditEvent) /\ Len(none) = 0
  OBVIOUS
<1> HIDE DEF none
<1>10. /\ Executed(log) = <<>> /\ Cardinality(GrantedIn(log)) = 0
       /\ Cardinality(ExecutedIn(log)) = 0
  BY <1>6, <1>8, <1>9, NothingExecuted, ExecutedGrows, LogCounts DEF IsGrantEvent
<1>11. Retrieved(tw'.events) = <<>>
  BY <1>1, StartShape, NothingRetrieved
<1>12. RunLog' = log
  BY <1>7 DEF none
<1> HIDE DEF log
<1>13. OneStory' /\ GrantsAreAccounted'
  <2>1. /\ Executed(RunLog)' = Executed(log) /\ Cardinality(GrantedIn(RunLog))' = 0
        /\ Cardinality(ExecutedIn(RunLog))' = 0
    BY <1>10, <1>12
  <2>2. OneStory'
    BY <1>10, <1>11, <2>1 DEF OneStory
  <2>3. Cardinality(calls') = 0 /\ lost' = 0
    BY <1>1, <1>2, FS_EmptySet
  <2>4. GrantsAreAccounted'
    BY <2>1, <2>3 DEF GrantsAreAccounted
  <2>5. QED
    BY <2>2, <2>4
<1>14. QED
  BY <1>4, <1>13 DEF AccountInv, ScopesServed

\* A call in flight is one the broker has granted in this run.
LEMMA AccountCall ==
  ASSUME ArmAInv, AccountInv, NEW tool \in Tools, CallTool(tool)
  PROVE  AccountInv'
<1> DEFINE e == AuthorizeEvent(router.token.agent_id, tool, Evaluate(router.token, tool))
           call == [tool |-> tool, n |-> loopCalls + 1]
           granted == Evaluate(router.token, tool).allowed
<1>1. /\ Record(e) /\ InLoop /\ loopCalls' = loopCalls + 1
      /\ UNCHANGED <<run, tw, router, lost, logStart>>
      /\ calls' = IF granted /\ tool \in router.tools THEN calls \union {call} ELSE calls
  BY DEF CallTool, Authorize, runVars
<1>2. /\ run > 0 /\ router.token \in ToolToken /\ audit \in Seq(AuditEvent)
      /\ logStart \in 0..Len(audit) /\ AuthzTypeOK /\ loopCalls \in Nat /\ lost \in Nat
  <2>1. run > 0
    BY <1>1 DEF ArmAInv, Phases, InLoop, Busy
  <2>2. router \in Router
    BY <2>1 DEF ArmAInv, ArmATypeOK
  <2>3. QED
    BY <2>1, <2>2 DEF ArmAInv, ArmATypeOK, AuthzTypeOK, Router
<1>3. e \in AuditEvent
  BY <1>2, EventTypes
<1>4. e.action = "authorize" /\ (IsGrantEvent(e) <=> granted)
  BY EventKinds DEF IsGrantEvent
<1>5. granted => tool \in router.tools
  BY <1>2, EvaluateAllowed DEF AccountInv, ScopesServed
<1>6. RunLog \in Seq(AuditEvent) /\ RunLog' = Append(RunLog, e)
  BY <1>1, <1>2, <1>3, RunLogGrows
<1>7. /\ IsFiniteSet(calls) /\ Cardinality(calls) \in Nat /\ call \notin calls
  <2>1. IsFiniteSet(calls) /\ \A c \in calls : c.n <= loopCalls
    BY DEF ArmAInv, CallsInv
  <2>2. call.n = loopCalls + 1
    OBVIOUS
  <2>3. QED
    BY <1>2, <2>1, <2>2, FS_CardinalityType
<1>8. Cardinality(calls \union {call}) = Cardinality(calls) + 1
  BY <1>7, FS_AddElement
<1> HIDE DEF e, call, granted
<1> DEFINE G == Cardinality(GrantedIn(RunLog))
           X == Cardinality(ExecutedIn(RunLog))
<1>9. /\ G \in Nat /\ X \in Nat /\ X' = X /\ Executed(RunLog)' = Executed(RunLog)
      /\ (granted => G' = G + 1) /\ (~granted => G' = G)
  <2> HIDE DEF RunLog
  <2>1. /\ G \in Nat /\ X \in Nat
        /\ Cardinality(ExecutedIn(RunLog')) = X
        /\ (granted => Cardinality(GrantedIn(RunLog')) = G + 1)
        /\ (~granted => Cardinality(GrantedIn(RunLog')) = G)
    BY <1>3, <1>4, <1>6, LogCounts
  <2>2. Executed(RunLog') = Executed(RunLog)
    BY <1>3, <1>4, <1>6, ExecutedGrows
  <2>3. QED
    BY <2>1, <2>2
<1>10. G = X + Cardinality(calls) + lost
  BY <1>2 DEF AccountInv, GrantsAreAccounted
<1> HIDE DEF G, X
<1>11. G' = X' + Cardinality(calls') + lost'
  <2>1. CASE granted
    BY <1>1, <1>2, <1>5, <1>7, <1>8, <1>9, <1>10, <2>1
  <2>2. CASE ~granted
    BY <1>1, <1>9, <1>10, <2>2
  <2>3. QED
    BY <2>1, <2>2
<1>12. GrantsAreAccounted'
  BY <1>11 DEF GrantsAreAccounted, G, X
<1>13. OneStory'
  BY <1>1, <1>2, <1>9 DEF AccountInv, OneStory
<1>14. QED
  BY <1>1, <1>2, <1>12, <1>13 DEF AccountInv, ScopesServed

\* A call that ends is taken off the calls, and either executed or lost.
LEMMA AccountHop ==
  ASSUME ArmAInv, ArmAInv', AccountInv, AuthzTypeOK', Len(audit) \in Nat,
         Len(audit) <= Len(audit'), Len(audit') \in Nat,
         NEW c \in calls, HandlerReturns(c) \/ HandlerFails(c)
  PROVE  AccountInv'
<1>1. PICK outcome \in {"tool_result", "tool_error"} :
        /\ Hopped(tw, tw', c.tool, router.turn, outcome)
        /\ Record(ExecuteEvent(router.token.agent_id, c.tool,
                    IF outcome = "tool_result" THEN "" ELSE "retrieval failed"))
  BY HopStep DEF ArmAInv, ArmATypeOK
<1> DEFINE reason == IF outcome = "tool_result" THEN "" ELSE "retrieval failed"
           e == ExecuteEvent(router.token.agent_id, c.tool, reason)
<1>2. /\ InLoop /\ c.tool \in Sources
  BY HopStep DEF ArmAInv, ArmATypeOK
<1>3. /\ Record(e) /\ calls' = calls \ {c}
      /\ UNCHANGED <<run, router, lost, logStart>>
  BY <1>1 DEF HandlerReturns, HandlerFails
<1>4. /\ run > 0 /\ router.token \in ToolToken /\ audit \in Seq(AuditEvent)
      /\ router.turn \in Nat /\ logStart \in 0..Len(audit) /\ AuthzTypeOK /\ lost \in Nat
      /\ tw \in Trace
  <2>1. run > 0
    BY <1>2 DEF ArmAInv, Phases, InLoop, Busy
  <2>2. router \in Router
    BY <2>1 DEF ArmAInv, ArmATypeOK
  <2>3. QED
    BY <2>1, <2>2 DEF ArmAInv, ArmATypeOK, AuthzTypeOK, Router
<1>5. reason \in {"", "retrieval failed"} /\ (reason = "" <=> outcome = "tool_result")
  OBVIOUS
<1>6. e \in AuditEvent
  <2>1. router.token.agent_id \in Agents /\ c.tool \in Tools
    BY <1>2, <1>4, ArmAAssumption DEF ToolToken
  <2>2. QED
    BY <1>4, <1>5, <2>1, EventTypes
<1>7. e.action = "execute" /\ ~IsGrantEvent(e) /\ e.tool = {c.tool} /\ e.reason = reason
  <2> HIDE DEF reason
  <2>1. e.action = "execute" /\ e.tool = {c.tool} /\ e.reason = reason
    BY EventKinds
  <2>2. ~IsGrantEvent(e)
    BY <2>1 DEF IsGrantEvent
  <2>3. QED
    BY <2>1, <2>2
<1>8. RunLog \in Seq(AuditEvent) /\ RunLog' = Append(RunLog, e)
  BY <1>3, <1>4, <1>6, RunLogGrows
<1> HIDE DEF e, reason
<1> DEFINE G == Cardinality(GrantedIn(RunLog))
           X == Cardinality(ExecutedIn(RunLog))
<1>9. G \in Nat /\ X \in Nat /\ X' = X + 1 /\ G' = G
  <2> HIDE DEF RunLog
  <2>1. /\ G \in Nat /\ X \in Nat /\ Cardinality(ExecutedIn(RunLog')) = X + 1
        /\ Cardinality(GrantedIn(RunLog')) = G
    BY <1>6, <1>7, <1>8, LogCounts
  <2>2. QED
    BY <2>1
<1>10. Executed(RunLog)' = Append(Executed(RunLog), Outcome({c.tool}, outcome = "tool_result"))
  <2> HIDE DEF RunLog
  <2>1. Executed(RunLog') = Append(Executed(RunLog), Outcome(e.tool, e.reason = ""))
    BY <1>6, <1>7, <1>8, ExecutedGrows
  <2>2. Outcome(e.tool, e.reason = "") = Outcome({c.tool}, outcome = "tool_result")
    BY <1>5, <1>7
  <2>3. QED
    BY <2>1, <2>2
<1>11. Retrieved(tw'.events) =
         Append(Retrieved(tw.events), Outcome({c.tool}, outcome = "tool_result"))
  BY <1>1, <1>2, <1>4, RetrievedGrows
<1>12. Cardinality(calls') = Cardinality(calls) - 1 /\ Cardinality(calls) \in Nat
  BY <1>3, FS_RemoveElement, FS_CardinalityType DEF ArmAInv, CallsInv
<1>13. G = X + Cardinality(calls) + lost
  BY <1>4 DEF AccountInv, GrantsAreAccounted
<1> HIDE DEF G, X
<1>14. G' = X' + Cardinality(calls') + lost'
  BY <1>3, <1>4, <1>9, <1>12, <1>13
<1>15. GrantsAreAccounted'
  BY <1>14 DEF GrantsAreAccounted, G, X
<1>16. OneStory'
  BY <1>3, <1>4, <1>10, <1>11 DEF AccountInv, OneStory
<1>17. QED
  BY <1>3, <1>4, <1>15, <1>16 DEF AccountInv, ScopesServed

LEMMA AccountRaise ==
  ASSUME ArmAInv, AccountInv, NEW c \in calls, HandlerRaises(c)
  PROVE  AccountInv'
<1>1. /\ calls' = calls \ {c} /\ lost' = lost + 1
      /\ UNCHANGED <<run, tw, router, audit, logStart>>
  BY DEF HandlerRaises, authzVars, runVars
<1>2. SameAccounts
  BY <1>1, QuietStep
<1>3. lost \in Nat
  BY DEF ArmAInv, ArmATypeOK
<1>4. Cardinality(calls') = Cardinality(calls) - 1 /\ Cardinality(calls) \in Nat
  BY <1>1, FS_RemoveElement, FS_CardinalityType DEF ArmAInv, CallsInv
<1>5. Cardinality(calls') + lost' = Cardinality(calls) + lost
  BY <1>1, <1>3, <1>4
<1>6. run > 0 => Cardinality(ExecutedIn(RunLog)) \in Nat
  BY LogIsCounted DEF ArmAInv
<1>7. QED
  BY <1>1, <1>2, <1>3, <1>4, <1>5, <1>6
  DEF AccountInv, ScopesServed, OneStory, GrantsAreAccounted, SameAccounts

\* A step that leaves the lists of hops, calls and losses and the accounts alone.
LEMMA AccountsKept ==
  ASSUME AccountInv, SameAccounts, UNCHANGED <<run, lost>>,
         run > 0 => Retrieved(tw.events)' = Retrieved(tw.events),
         run > 0 => router'.token.scopes = router'.tools, Cardinality(calls') = Cardinality(calls)
  PROVE  AccountInv'
<1>1. ScopesServed'
  BY DEF ScopesServed
<1>2. OneStory'
  BY DEF AccountInv, OneStory, SameAccounts
<1>3. GrantsAreAccounted'
  BY DEF AccountInv, GrantsAreAccounted, SameAccounts
<1>4. QED
  BY <1>1, <1>2, <1>3 DEF AccountInv

LEMMA AccountExposure ==
  ASSUME ArmAInv, AccountInv, AuthzTypeOK', Len(audit) \in Nat,
         Len(audit) <= Len(audit'), Len(audit') \in Nat,
         NEW stop \in BOOLEAN, NEW leads \in LeadLists, ExposureReturns(stop, leads)
  PROVE  AccountInv'
<1>1. /\ TurnTaken(tw, tw', 0) /\ calls = {} /\ calls' = {} /\ pc = "exposure"
  BY ExposureStep
<1>2. /\ UNCHANGED <<run, lost, logStart>> /\ turn' = turn + 1
      /\ IF stop THEN UNCHANGED <<authzVars, router>>
         ELSE NewRouter("entity_resolution", ResolutionTools,
                        IF Resolvable(leads) = {} THEN turn ELSE turn')
  BY DEF ExposureReturns, NextPhase
<1>3. /\ AuthzTypeOK /\ audit \in Seq(AuditEvent) /\ logStart \in 0..Len(audit)
      /\ turn \in Nat /\ tw \in Trace /\ run > 0 /\ router.token.scopes = router.tools
  BY <1>1 DEF ArmAInv, ArmATypeOK, AuthzTypeOK, Phases, Busy, AccountInv, ScopesServed
<1>4. Retrieved(tw.events)' = Retrieved(tw.events)
  <2>1. /\ tw' \in Trace /\ Outcomes(tw'.events) = Outcomes(tw.events)
        /\ Len(tw'.events) = Len(tw.events) + 1 /\ Len(tw.events) \in Nat
        /\ \A i \in 1..Len(tw.events) : tw'.events[i] = tw.events[i]
    BY <1>1, <1>3, TraceType DEF TurnTaken
  <2>2. QED
    BY <1>3, <2>1, RetrievedSame
<1>5. SameAccounts /\ router'.token.scopes = router'.tools
  <2>1. CASE stop
    BY <1>2, <1>3, <2>1, QuietStep DEF authzVars
  <2>2. CASE ~stop
    <3> DEFINE t == IF Resolvable(leads) = {} THEN turn ELSE turn'
    <3>1. NewRouter("entity_resolution", ResolutionTools, t)
      BY <1>2, <2>2
    <3>2. t \in Nat /\ "entity_resolution" \in Agents
      BY <1>2, <1>3, ArmAAssumption
    <3> HIDE DEF t
    <3>3. router'.token.scopes = router'.tools
      BY <1>3, <3>1, <3>2, NewRouterType
    <3>4. PICK token \in ToolToken : Record(MintEvent(token))
      BY <1>3, <3>1, <3>2, NewRouterType
    <3>5. MintEvent(token) \in AuditEvent
      BY <1>3, <3>4, EventTypes DEF AuthzTypeOK
    <3>6. MintEvent(token).action = "mint"
      BY EventKinds
    <3>7. SameAccounts
      BY <1>2, <1>3, <3>4, <3>5, <3>6, QuietRecord DEF IsGrantEvent
    <3>8. QED
      BY <3>3, <3>7
  <2>3. QED
    BY <2>1, <2>2
<1>6. QED
  BY <1>1, <1>2, <1>4, <1>5, AccountsKept

LEMMA AccountResolution ==
  ASSUME ArmAInv, AccountInv, ResolutionReturns
  PROVE  AccountInv'
<1>1. TurnTaken(tw, tw', 0) /\ calls = {} /\ calls' = {} /\ pc = "resolution"
  BY ResolutionStep
<1>2. /\ UNCHANGED <<authzVars, run, lost, logStart>>
      /\ router' \in {router, [router EXCEPT !.turn = turn']}
  BY DEF ResolutionReturns
<1>3. tw \in Trace /\ router \in Router /\ router.token.scopes = router.tools
  BY <1>1 DEF ArmAInv, ArmATypeOK, Phases, Busy, AccountInv, ScopesServed
<1>4. Retrieved(tw.events)' = Retrieved(tw.events)
  <2>1. /\ tw' \in Trace /\ Outcomes(tw'.events) = Outcomes(tw.events)
        /\ Len(tw'.events) = Len(tw.events) + 1 /\ Len(tw.events) \in Nat
        /\ \A i \in 1..Len(tw.events) : tw'.events[i] = tw.events[i]
    BY <1>1, <1>3, TraceType DEF TurnTaken
  <2>2. QED
    BY <1>3, <2>1, RetrievedSame
<1>5. SameAccounts
  BY <1>2, QuietStep DEF authzVars
<1>6. router'.token.scopes = router'.tools
  BY <1>2, <1>3 DEF Router
<1>7. QED
  BY <1>1, <1>2, <1>4, <1>5, <1>6, AccountsKept

LEMMA AccountConclude ==
  ASSUME ArmAInv, AccountInv, Concluding
  PROVE  AccountInv'
<1>1. PICK error \in Errors, stop \in BOOLEAN :
        Busy /\ calls = {} /\ Conclude(error, stop)
  BY DEF Concluding
<1>2. Closed(tw, tw') /\ calls' = {} /\ UNCHANGED <<authzVars, lost, logStart>>
  BY <1>1, ConcludeStep
<1>3. UNCHANGED <<run, router>>
  BY <1>1 DEF Conclude
<1>4. tw \in Trace
  BY DEF ArmAInv, ArmATypeOK
<1>5. Retrieved(tw.events)' = Retrieved(tw.events)
  <2>1. /\ tw' \in Trace /\ Outcomes(tw'.events) = Outcomes(tw.events)
        /\ Len(tw'.events) = Len(tw.events) + 2 /\ Len(tw.events) \in Nat
        /\ \A i \in 1..Len(tw.events) : tw'.events[i] = tw.events[i]
    BY <1>2, <1>4, TraceType DEF Closed, Sound
  <2>2. QED
    BY <1>4, <2>1, RetrievedSame
<1>6. SameAccounts
  BY <1>2, QuietStep DEF authzVars
<1>7. run > 0 => router'.token.scopes = router'.tools
  BY <1>3 DEF AccountInv, ScopesServed
<1>8. QED
  BY <1>1, <1>2, <1>3, <1>5, <1>6, <1>7, AccountsKept

\* The administrator and the clock write no grant and no execution.
LEMMA AdminIsQuiet ==
  ASSUME AuthzTypeOK, AdminActs \/ TimePasses \/ UNCHANGED armAVars
  PROVE  \/ UNCHANGED audit
         \/ \E e \in AuditEvent : Record(e) /\ e.action # "execute" /\ ~IsGrantEvent(e)
<1>1. \/ UNCHANGED audit
      \/ \E w \in SUBSET Agents, k \in {"revoke_agent", "deny_tool"},
            t \in SUBSET Tools, r \in {"admin revoke", "token revoke", "admin deny"} :
            Record(AdminEvent(w, k, t, r))
  <2>1. CASE AdminActs
    <3>1. ASSUME NEW a \in Agents, RevokeAgent(a)
          PROVE  Record(AdminEvent({a}, "revoke_agent", {}, "admin revoke"))
      BY <3>1 DEF RevokeAgent
    <3>2. ASSUME NEW token \in minted, RevokeToken(token)
          PROVE  /\ Record(AdminEvent({token.agent_id}, "revoke_agent", {}, "token revoke"))
                 /\ token.agent_id \in Agents
      BY <3>2 DEF RevokeToken, AuthzTypeOK, ToolToken
    <3>3. ASSUME NEW tool \in Tools, DenyTool(tool)
          PROVE  Record(AdminEvent({}, "deny_tool", {tool}, "admin deny"))
      BY <3>3 DEF DenyTool
    <3>4. ASSUME NEW tool \in denyList, AllowTool(tool) PROVE UNCHANGED audit
      BY <3>4 DEF AllowTool
    <3>5. \/ \E a \in Agents : RevokeAgent(a)
          \/ \E token \in minted : RevokeToken(token)
          \/ \E tool \in Tools : DenyTool(tool)
          \/ \E tool \in denyList : AllowTool(tool)
      BY <2>1 DEF AdminActs
    <3>6. QED
      BY <3>1, <3>2, <3>3, <3>4, <3>5
  <2>2. CASE TimePasses
    BY <2>2 DEF TimePasses, Tick
  <2>3. CASE UNCHANGED armAVars
    BY <2>3 DEF armAVars, authzVars
  <2>4. QED
    BY <2>1, <2>2, <2>3
<1>2. ASSUME NEW w \in SUBSET Agents, NEW k \in {"revoke_agent", "deny_tool"},
             NEW t \in SUBSET Tools, NEW r \in {"admin revoke", "token revoke", "admin deny"}
      PROVE  /\ AdminEvent(w, k, t, r) \in AuditEvent
             /\ AdminEvent(w, k, t, r).action # "execute"
             /\ ~IsGrantEvent(AdminEvent(w, k, t, r))
  <2>1. NoLease \in [scopes : SUBSET Tools, ttl : Nat] /\ now \in Nat
    BY DEF NoLease, AuthzTypeOK
  <2>2. k \in AuditActions /\ r \in Reasons
    BY DEF AuditActions, Reasons
  <2> HIDE DEF NoLease
  <2>3. AdminEvent(w, k, t, r) \in AuditEvent
    BY <2>1, <2>2 DEF AdminEvent, AuditEvent
  <2>4. AdminEvent(w, k, t, r).action = k
    BY DEF AdminEvent
  <2>5. QED
    BY <2>3, <2>4 DEF IsGrantEvent
<1>3. QED
  BY <1>1, <1>2

LEMMA AccountOther ==
  ASSUME ArmAInv, AccountInv, AuthzTypeOK', AdminActs \/ TimePasses \/ UNCHANGED armAVars
  PROVE  AccountInv'
<1>1. UNCHANGED <<run, tw, router, calls, lost, logStart>>
  BY DEF AdminActs, TimePasses, armAVars, runVars, loopVars
<1>2. AuthzTypeOK /\ audit \in Seq(AuditEvent) /\ logStart \in 0..Len(audit)
  BY DEF ArmAInv, ArmATypeOK, AuthzTypeOK
<1>4. SameAccounts
  <2>1. CASE UNCHANGED audit
    BY <1>1, <2>1, QuietStep
  <2>2. ASSUME NEW e \in AuditEvent, Record(e), e.action # "execute", ~IsGrantEvent(e)
        PROVE  SameAccounts
    BY <1>1, <1>2, <2>2, QuietRecord
  <2>3. QED
    BY <1>2, <2>1, <2>2, AdminIsQuiet
<1>5. run > 0 => router'.token.scopes = router'.tools
  BY <1>1 DEF AccountInv, ScopesServed
<1>6. QED
  BY <1>1, <1>4, <1>5, AccountsKept

LEMMA AccountStep == ArmAInv /\ AccountInv /\ [ArmANext]_armAVars => AccountInv'
<1> SUFFICES ASSUME ArmAInv, AccountInv, [ArmANext]_armAVars PROVE AccountInv'
  OBVIOUS
<1>1. /\ ArmAStepKinds /\ AuthzTypeOK' /\ ArmAInv'
      /\ Len(audit) \in Nat /\ Len(audit') \in Nat /\ Len(audit) <= Len(audit')
  BY StepKinds
<1>2. ASSUME NEW c \in calls, HandlerReturns(c) \/ HandlerFails(c) PROVE AccountInv'
  BY <1>1, <1>2, AccountHop
<1>3. ASSUME NEW stop \in BOOLEAN, NEW leads \in LeadLists, ExposureReturns(stop, leads)
      PROVE  AccountInv'
  BY <1>1, <1>3, AccountExposure
<1>4. QED
  BY <1>1, <1>2, <1>3, AccountStart, AccountCall, AccountRaise, AccountResolution,
     AccountConclude, AccountOther DEF ArmAStepKinds

LEMMA AccountInvariant == ArmASpec => [](ArmAInv /\ AccountInv)
  BY ArmAInvariant, AccountInit, AccountStep, PTL DEF ArmASpec

\* However calls overlap, fail or raise, and whatever the administrator does: at
\* every moment of a run its executes in the audit log and the hops of its trace
\* are the same outcomes in the same order, and the trace is well formed.
THEOREM ArmATraceMatchesLog == ArmASpec => []TraceMatchesLog
<1>1. ArmAInv /\ AccountInv => TraceMatchesLog
  BY DEF ArmAInv, Phases, Sound, AccountInv, OneStory, TraceMatchesLog
<1>2. QED
  BY <1>1, AccountInvariant, PTL

\* And no grant of the run disappears: executed, in flight, or lost to an
\* exception call_tool does not catch.
THEOREM ArmAGrantsAreAccounted == ArmASpec => []GrantsAreAccounted
  BY AccountInvariant, PTL DEF AccountInv

-----------------------------------------------------------------------------
(* What still runs after a revoke.  KillLatency becomes inductive when the *)
(* calls of the agent that are still in flight are counted with those it   *)
(* has executed since: a revoked agent gets no new one (KillInForce).      *)

Since(log, i, a) == {j \in (i + 1)..Len(log) : log[j].action = "execute" /\ log[j].who = {a}}

InFlightOf(a) == calls # {} /\ router.token.agent_id = a

Spent(log, i, a) ==
  /\ Cardinality(Since(log, i, a)) <= MaxInFlight
  /\ InFlightOf(a) => Cardinality(Since(log, i, a)) + Cardinality(calls) <= MaxInFlight

LatencyInv ==
  /\ Cardinality(calls) <= MaxInFlight
  /\ \A a \in Agents : \A i \in 1..Len(audit) : IsAdminRevoke(audit[i], a) => Spent(audit, i, a)

LEMMA SinceGrows ==
  ASSUME NEW log \in Seq(AuditEvent), NEW e \in AuditEvent, NEW a, NEW i \in 1..Len(log)
  PROVE  LET log2 == Append(log, e) IN
         /\ Cardinality(Since(log, i, a)) \in Nat
         /\ e.action = "execute" /\ e.who = {a} =>
              Cardinality(Since(log2, i, a)) = Cardinality(Since(log, i, a)) + 1
         /\ ~(e.action = "execute" /\ e.who = {a}) =>
              Cardinality(Since(log2, i, a)) = Cardinality(Since(log, i, a))
<1> DEFINE log2 == Append(log, e)
           n == Len(log)
           S == Since(log, i, a)
<1>1. /\ n \in Nat /\ Len(log2) = n + 1 /\ log2[n + 1] = e
      /\ \A k \in 1..n : log2[k] = log[k]
  BY AppendProperties, LenProperties
<1> HIDE DEF log2, n
<1>2. /\ (i + 1)..(n + 1) = ((i + 1)..n) \union {n + 1} /\ i \in Nat
      /\ \A k \in (i + 1)..n : k \in 1..n
  BY <1>1 DEF n
<1>3. /\ e.action = "execute" /\ e.who = {a} => Since(log2, i, a) = S \union {n + 1}
      /\ ~(e.action = "execute" /\ e.who = {a}) => Since(log2, i, a) = S
  BY <1>1, <1>2 DEF Since, n
<1>4. S \subseteq 1..n /\ n + 1 \notin S
  BY <1>1, <1>2 DEF Since, n
<1>5. IsFiniteSet(1..n)
  BY <1>1, FS_Interval
<1>6. IsFiniteSet(S)
  BY <1>4, <1>5, FS_Subset
<1>7. Cardinality(S) \in Nat /\ Cardinality(S \union {n + 1}) = Cardinality(S) + 1
  BY <1>4, <1>6, FS_CardinalityType, FS_AddElement
<1>8. QED
  BY <1>3, <1>7 DEF log2

\* Nothing is executed since the last event.
LEMMA NothingSince ==
  ASSUME NEW log, NEW i \in Nat, Len(log) = i, NEW a
  PROVE  Cardinality(Since(log, i, a)) = 0
<1>1. Since(log, i, a) = {}
  BY DEF Since
<1>2. QED
  BY <1>1, FS_EmptySet

\* An event that is no execution leaves every count, and is itself a fresh start.
LEMMA LatencyKept ==
  ASSUME AuthzTypeOK, LatencyInv, MaxInFlight \in Nat, Cardinality(calls) \in Nat,
         Cardinality(calls') \in Nat, Cardinality(calls') <= MaxInFlight,
         \/ UNCHANGED audit
         \/ \E e \in AuditEvent : Record(e) /\ e.action # "execute",
         \A a \in Agents : \A i \in 1..Len(audit) :
           IsAdminRevoke(audit[i], a) /\ InFlightOf(a)' =>
             InFlightOf(a) /\ Cardinality(calls') <= Cardinality(calls)
  PROVE  LatencyInv'
<1>1. audit \in Seq(AuditEvent) /\ Len(audit) \in Nat
  BY LenProperties DEF AuthzTypeOK
<1>2. ASSUME NEW a \in Agents, NEW i \in 1..Len(audit), IsAdminRevoke(audit[i], a),
             Cardinality(Since(audit, i, a)) \in Nat,
             Cardinality(Since(audit', i, a)) = Cardinality(Since(audit, i, a))
      PROVE  Spent(audit, i, a)'
  <2>1. Spent(audit, i, a)
    BY <1>2 DEF LatencyInv
  <2>2. InFlightOf(a)' => InFlightOf(a) /\ Cardinality(calls') <= Cardinality(calls)
    BY <1>2
  <2>3. /\ Cardinality(Since(audit', i, a)) <= MaxInFlight
        /\ InFlightOf(a)' => Cardinality(Since(audit', i, a)) + Cardinality(calls') <= MaxInFlight
    BY <1>2, <2>1, <2>2 DEF Spent
  <2>4. QED
    BY <2>3 DEF Spent, Since
<1>3. CASE UNCHANGED audit
  <2>1. ASSUME NEW a \in Agents, NEW i \in 1..Len(audit) PROVE Cardinality(Since(audit, i, a)) \in Nat
    <3>1. Since(audit, i, a) \subseteq 1..Len(audit)
      BY <1>1 DEF Since
    <3>2. IsFiniteSet(1..Len(audit))
      BY <1>1, FS_Interval
    <3>3. QED
      BY <3>1, <3>2, FS_Subset, FS_CardinalityType
  <2>2. QED
    BY <1>2, <1>3, <2>1 DEF LatencyInv
<1>4. ASSUME NEW e \in AuditEvent, Record(e), e.action # "execute" PROVE LatencyInv'
  <2>1. /\ Len(audit') = Len(audit) + 1 /\ audit'[Len(audit) + 1] = e
        /\ \A i \in 1..Len(audit) : audit'[i] = audit[i]
        /\ audit' = Append(audit, e)
    BY <1>1, <1>4, RecordShape DEF Record
  <2>2. ASSUME NEW a \in Agents, NEW i \in 1..Len(audit'), IsAdminRevoke(audit'[i], a)
        PROVE  Spent(audit, i, a)'
    <3>1. CASE i \in 1..Len(audit)
      <4>1. /\ Cardinality(Since(audit, i, a)) \in Nat
            /\ Cardinality(Since(audit', i, a)) = Cardinality(Since(audit, i, a))
        BY <1>1, <1>4, <2>1, <3>1, SinceGrows
      <4>2. QED
        BY <1>2, <2>1, <2>2, <3>1, <4>1
    <3>2. CASE i = Len(audit) + 1
      <4>1. Cardinality(Since(audit', i, a)) = 0
        <5>1. Len(audit') = i /\ i \in Nat
          BY <1>1, <2>1, <3>2
        <5>2. QED
          BY <5>1, NothingSince
      <4>2. /\ Cardinality(Since(audit', i, a)) <= MaxInFlight
            /\ Cardinality(Since(audit', i, a)) + Cardinality(calls') <= MaxInFlight
        BY <4>1
      <4>3. QED
        BY <4>2 DEF Spent, Since
    <3>3. QED
      BY <1>1, <2>1, <3>1, <3>2
  <2>3. QED
    BY <2>2 DEF LatencyInv
<1>5. QED
  BY <1>3, <1>4

LEMMA LatencyHop ==
  ASSUME ArmAInv, LatencyInv, NEW c \in calls, calls' = calls \ {c}, router' = router,
         run > 0, NEW e \in AuditEvent, Record(e), e.action = "execute",
         e.who = {router.token.agent_id}
  PROVE  LatencyInv'
<1>1. audit \in Seq(AuditEvent) /\ Len(audit) \in Nat /\ router.token \in ToolToken
  BY LenProperties DEF ArmAInv, ArmATypeOK, AuthzTypeOK, Router
<1>5. /\ Cardinality(calls) \in Nat /\ Cardinality(calls') = Cardinality(calls) - 1
      /\ Cardinality(calls) <= MaxInFlight /\ MaxInFlight \in Nat
  BY FS_RemoveElement, FS_CardinalityType, ArmAAssumption DEF ArmAInv, CallsInv, LatencyInv
<1>c. Cardinality(calls') \in Nat
  BY FS_Subset, FS_CardinalityType DEF ArmAInv, CallsInv
<1>6. /\ Len(audit') = Len(audit) + 1 /\ audit'[Len(audit) + 1] = e
      /\ \A i \in 1..Len(audit) : audit'[i] = audit[i]
      /\ audit' = Append(audit, e)
  BY <1>1, RecordShape DEF Record
<1> DEFINE l == Len(audit)
<1>a. Len(audit') = l + 1 /\ l \in Nat
  BY <1>1, <1>6
<1> HIDE DEF l
<1>b. \A i \in 1..Len(audit') : i \in 1..l \/ i = l + 1
  BY <1>a
<1>7. ASSUME NEW a \in Agents, NEW i \in 1..Len(audit'), IsAdminRevoke(audit'[i], a)
      PROVE  Spent(audit, i, a)'
  <2>1. i \in 1..Len(audit) /\ IsAdminRevoke(audit[i], a)
    <3>1. i # Len(audit) + 1
      BY <1>6, <1>7 DEF IsAdminRevoke
    <3>2. i \in 1..Len(audit)
      BY <1>b, <3>1 DEF l
    <3>3. QED
      BY <1>6, <1>7, <3>2
  <2>2. Spent(audit, i, a)
    BY <2>1 DEF LatencyInv
  <2>3. /\ Cardinality(Since(audit, i, a)) \in Nat
        /\ router.token.agent_id = a =>
             Cardinality(Since(audit', i, a)) = Cardinality(Since(audit, i, a)) + 1
        /\ router.token.agent_id # a =>
             Cardinality(Since(audit', i, a)) = Cardinality(Since(audit, i, a))
    <3>1. router.token.agent_id = a <=> e.who = {a}
      OBVIOUS
    <3> DEFINE new == Append(audit, e)
    <3>2. /\ Cardinality(Since(audit, i, a)) \in Nat
          /\ e.who = {a} => Cardinality(Since(new, i, a)) = Cardinality(Since(audit, i, a)) + 1
          /\ e.who # {a} => Cardinality(Since(new, i, a)) = Cardinality(Since(audit, i, a))
      BY <1>1, <2>1, SinceGrows
    <3>3. audit' = new
      BY <1>6
    <3> HIDE DEF new
    <3>4. QED
      BY <3>1, <3>2, <3>3
  <2>4. calls # {} /\ (InFlightOf(a) <=> router.token.agent_id = a)
        /\ (InFlightOf(a)' => router.token.agent_id = a)
    BY DEF InFlightOf
  <2>5. /\ Cardinality(Since(audit', i, a)) <= MaxInFlight
        /\ InFlightOf(a)' => Cardinality(Since(audit', i, a)) + Cardinality(calls') <= MaxInFlight
    <3>1. CASE router.token.agent_id = a
      <4>1. Cardinality(Since(audit, i, a)) + Cardinality(calls) <= MaxInFlight
        BY <2>2, <2>4, <3>1 DEF Spent
      <4>2. Cardinality(Since(audit', i, a)) = Cardinality(Since(audit, i, a)) + 1
        BY <2>3, <3>1
      <4> DEFINE x == Cardinality(Since(audit, i, a))
                 x2 == Cardinality(Since(audit', i, a))
                 y == Cardinality(calls)
                 y2 == Cardinality(calls')
      <4>3. /\ x \in Nat /\ y \in Nat /\ x + y <= MaxInFlight /\ x2 = x + 1 /\ y2 = y - 1
            /\ y2 \in Nat
        <5>1. y2 \in Nat
          BY <1>c
        <5>2. QED
          BY <1>5, <2>3, <4>1, <4>2, <5>1
      <4> HIDE DEF x, x2, y, y2
      <4>4. x2 <= MaxInFlight /\ x2 + y2 <= MaxInFlight
        BY <1>5, <4>3
      <4>5. QED
        BY <4>4 DEF x2, y2
    <3>2. CASE router.token.agent_id # a
      BY <1>5, <2>2, <2>3, <2>4, <3>2 DEF Spent
    <3>3. QED
      BY <3>1, <3>2
  <2>6. QED
    BY <2>5 DEF Spent, Since
<1>8. QED
  BY <1>5, <1>7 DEF LatencyInv

\* Only an agent that is not revoked gets a call admitted.
LEMMA LatencyCall ==
  ASSUME ArmAInv, ArmAInv', KillInForce, LatencyInv, NEW tool \in Tools, CallTool(tool)
  PROVE  LatencyInv'
<1> DEFINE d == Evaluate(router.token, tool)
           e == AuthorizeEvent(router.token.agent_id, tool, d)
<1>1. /\ InLoop /\ Cardinality(calls) < MaxInFlight /\ Record(e) /\ UNCHANGED router
      /\ calls' = IF d.allowed /\ tool \in router.tools
                  THEN calls \union {[tool |-> tool, n |-> loopCalls + 1]} ELSE calls
  BY DEF CallTool, Authorize, runVars
<1>2. AuthzTypeOK /\ router.token \in ToolToken
  BY <1>1 DEF ArmAInv, ArmATypeOK, Phases, InLoop, Busy, Router
<1>3. e \in AuditEvent /\ e.action = "authorize"
  <2>1. e \in AuditEvent
    BY <1>2, EventTypes
  <2>2. e.action = "authorize"
    BY DEF AuthorizeEvent
  <2>3. QED
    BY <2>1, <2>2
<1>4. d.allowed => router.token.agent_id \notin revokedAgents
  BY <1>2, EvaluateAllowed
<1> HIDE DEF d, e
<1>5. /\ MaxInFlight \in Nat /\ Cardinality(calls) \in Nat /\ Cardinality(calls') \in Nat
      /\ IsFiniteSet(calls)
  BY ArmAAssumption, FS_CardinalityType DEF ArmAInv, CallsInv
<1>6. Cardinality(calls') <= MaxInFlight
  <2> DEFINE call == [tool |-> tool, n |-> loopCalls + 1]
  <2>1. calls' \in {calls, calls \union {call}}
    BY <1>1
  <2> HIDE DEF call
  <2>2. Cardinality(calls \union {call}) <= Cardinality(calls) + 1
    BY <1>5, FS_AddElement
  <2>3. QED
    BY <1>1, <1>5, <2>1, <2>2
<1>7. ASSUME NEW a \in Agents, NEW i \in 1..Len(audit), IsAdminRevoke(audit[i], a), InFlightOf(a)'
      PROVE  InFlightOf(a) /\ Cardinality(calls') <= Cardinality(calls)
  <2>1. router.token.agent_id = a /\ calls' # {}
    BY <1>1, <1>7 DEF InFlightOf
  <2>2. ~d.allowed
    BY <1>4, <1>7, <2>1 DEF KillInForce
  <2>3. calls' = calls
    BY <1>1, <2>2
  <2>4. QED
    BY <1>5, <2>1, <2>3 DEF InFlightOf
<1>8. QED
  BY <1>1, <1>2, <1>3, <1>5, <1>6, <1>7, LatencyKept

LEMMA LatencyStep ==
  ArmAInv /\ KillInForce /\ LatencyInv /\ [ArmANext]_armAVars => LatencyInv'
<1> SUFFICES ASSUME ArmAInv, KillInForce, LatencyInv, [ArmANext]_armAVars PROVE LatencyInv'
  OBVIOUS
<1>1. /\ ArmAStepKinds /\ AuthzTypeOK /\ AuthzTypeOK' /\ ArmAInv' /\ [AuthzNext]_authzVars
      /\ Len(audit) \in Nat /\ Len(audit') \in Nat /\ Len(audit) <= Len(audit')
  BY StepKinds
<1>2. /\ MaxInFlight \in Nat /\ Cardinality(calls) \in Nat /\ Cardinality(calls') \in Nat
      /\ IsFiniteSet(calls) /\ Cardinality(calls) <= MaxInFlight
  BY <1>1, ArmAAssumption, FS_CardinalityType DEF ArmAInv, CallsInv, LatencyInv
<1>3. ASSUME NEW tool \in Tools, CallTool(tool) PROVE LatencyInv'
  BY <1>1, <1>3, LatencyCall
<1>4. ASSUME NEW c \in calls, HandlerReturns(c) \/ HandlerFails(c) PROVE LatencyInv'
  <2>1. /\ InLoop /\ c.tool \in Sources
        /\ \E outcome \in {"tool_result", "tool_error"} :
             Record(ExecuteEvent(router.token.agent_id, c.tool,
                      IF outcome = "tool_result" THEN "" ELSE "retrieval failed"))
    BY <1>1, <1>4, HopStep
  <2>2. PICK reason \in {"", "retrieval failed"} :
          Record(ExecuteEvent(router.token.agent_id, c.tool, reason))
    BY <2>1
  <2>3. calls' = calls \ {c} /\ router' = router /\ run > 0
    BY <1>4, <2>1 DEF HandlerReturns, HandlerFails, ArmAInv, Phases, InLoop, Busy
  <2> DEFINE e == ExecuteEvent(router.token.agent_id, c.tool, reason)
  <2>4. e \in AuditEvent
    <3>1. router.token.agent_id \in Agents /\ c.tool \in Tools
      BY <2>1, <2>3, ArmAAssumption DEF ToolToken, ArmAInv, ArmATypeOK, Router
    <3>2. QED
      BY <1>1, <3>1, EventTypes
  <2>5. e.action = "execute" /\ e.who = {router.token.agent_id}
    BY DEF ExecuteEvent
  <2>6. Record(e)
    BY <2>2
  <2> HIDE DEF e
  <2>7. QED
    BY <2>3, <2>4, <2>5, <2>6, LatencyHop
\* Every other step records no execution and adds no call.
<1> DEFINE Quiet == /\ calls' = {} \/ (calls' \subseteq calls /\ UNCHANGED router)
                    /\ \/ UNCHANGED audit
                       \/ \E e \in AuditEvent : Record(e) /\ e.action # "execute"
<1>5. ASSUME Quiet PROVE LatencyInv'
  <2>1. Cardinality(calls') <= Cardinality(calls) \/ calls' = {}
    BY <1>2, <1>5, FS_Subset
  <2>2. Cardinality(calls') <= MaxInFlight
    BY <1>2, <2>1, FS_EmptySet
  <2>3. \A a \in Agents : InFlightOf(a)' =>
          InFlightOf(a) /\ Cardinality(calls') <= Cardinality(calls)
    BY <1>5, <2>1 DEF InFlightOf
  <2>4. QED
    BY <1>1, <1>2, <1>5, <2>2, <2>3, LatencyKept
<1>6. ASSUME NEW agent \in Agents, NEW tools \in {ExposureTools, ResolutionTools},
             NEW t \in Nat, NewRouter(agent, tools, t)
      PROVE  \E e \in AuditEvent : Record(e) /\ e.action # "execute"
  <2>1. PICK token \in ToolToken : Record(MintEvent(token))
    BY <1>1, <1>6, NewRouterType
  <2>2. MintEvent(token) \in AuditEvent
    BY <1>1, <2>1, EventTypes DEF AuthzTypeOK
  <2>3. MintEvent(token).action # "execute"
    BY EventKinds
  <2>4. QED
    BY <2>1, <2>2, <2>3
<1>7. CASE StartInvestigation
  <2>1. calls' = {} /\ NewRouter("exposure", ExposureTools, 1) /\ "exposure" \in Agents
    BY <1>7, ArmAAssumption DEF StartInvestigation, ArmAInv, CallsInv, InLoop
  <2>2. QED
    BY <1>5, <1>6, <2>1
<1>8. ASSUME NEW c \in calls, HandlerRaises(c) PROVE Quiet
  BY <1>8 DEF HandlerRaises, authzVars, runVars
<1>9. ASSUME NEW stop \in BOOLEAN, NEW leads \in LeadLists, ExposureReturns(stop, leads)
      PROVE  Quiet
  <2>1. calls' = {} /\ turn \in Nat
    BY <1>9 DEF ExposureReturns, LoopDone, ArmAInv, ArmATypeOK
  <2>2. \/ UNCHANGED authzVars
        \/ \E t \in {turn, turn + 1} : NewRouter("entity_resolution", ResolutionTools, t)
    BY <1>9 DEF ExposureReturns, NextPhase
  <2>3. "entity_resolution" \in Agents /\ turn + 1 \in Nat
    BY <2>1, ArmAAssumption
  <2>4. QED
    BY <1>6, <2>1, <2>2, <2>3 DEF authzVars
<1>10. ASSUME ResolutionReturns PROVE Quiet
  BY <1>10 DEF ResolutionReturns, LoopDone, authzVars
<1>11. ASSUME Concluding PROVE Quiet
  BY <1>11 DEF Concluding, Conclude, authzVars
<1>12. ASSUME AdminActs \/ TimePasses \/ UNCHANGED armAVars PROVE Quiet
  <2>1. UNCHANGED <<calls, router>>
    BY <1>12 DEF AdminActs, TimePasses, armAVars, runVars, loopVars
  <2>2. UNCHANGED audit \/ \E e \in AuditEvent : Record(e) /\ e.action # "execute"
    BY <1>1, <1>12, AdminIsQuiet
  <2>3. QED
    BY <2>1, <2>2
<1>13. QED
  BY <1>1, <1>3, <1>4, <1>5, <1>7, <1>8, <1>9, <1>10, <1>11, <1>12 DEF ArmAStepKinds

LEMMA LatencyInit == ArmAInit => LatencyInv
<1> SUFFICES ASSUME ArmAInit PROVE LatencyInv
  OBVIOUS
<1>1. calls = {} /\ Len(audit) = 0
  BY DEF ArmAInit, AuthzInit
<1>2. Cardinality(calls) <= MaxInFlight
  BY <1>1, FS_EmptySet, ArmAAssumption
<1>3. QED
  BY <1>1, <1>2 DEF LatencyInv

\* A revoke takes effect on the next call: whatever was already running, the log
\* holds no more executes of the agent after its revoke than calls may run at once.
THEOREM ArmAKillIsQuick == ArmASpec => []KillLatency
<1>1. ArmASpec => []KillInForce
  BY ArmAImplementsAuthz, LogInvariant, PTL DEF ArmAUsesBroker, LogInv
<1>2. LatencyInv => KillLatency
  BY DEF LatencyInv, Spent, Since, KillLatency
<1>3. QED
  BY <1>1, <1>2, ArmAInvariant, LatencyInit, LatencyStep, PTL DEF ArmASpec


-----------------------------------------------------------------------------
(* The verdict on a trace of Arm A is in the log (VerdictIsInTheLog): the   *)
(* retrievals of a trace, which the checks read, and their outcomes stand   *)
(* in the same order (SameTools), and the outcomes are those in the log     *)
(* (OneStory).                                                             *)

SameTools(events) ==
  /\ Len(HopTools(events)) = Len(Retrieved(events))
  /\ \A n \in 1..Len(HopTools(events)) : Retrieved(events)[n].tool = {HopTools(events)[n]}
ToolsInv == run > 0 => SameTools(tw.events)

LEMMA RetrievedType ==
  ASSUME NEW events \in Seq(TraceEvent)
  PROVE  Retrieved(events) \in Seq(OutcomeType)
<1> DEFINE outcomes == Select(events, Outcomes(events))
           n == Len(outcomes)
           F(x) == Outcome({x.tool}, x.kind = "tool_result")
<1>1. Outcomes(events) \in SUBSET (1..Len(events))
  BY DEF Outcomes
<1>2. outcomes \in Seq(TraceEvent) /\ n \in Nat
  BY <1>1, SelectType, LenProperties
<1> HIDE DEF outcomes
<1>3. \A k \in 1..n : outcomes[k] \in TraceEvent
  BY <1>2, ElementOfSeq
<1>4. \A x \in TraceEvent : F(x) \in OutcomeType
  BY ArmAAssumption DEF OutcomeType, Outcome, TraceEvent
<1>5. Retrieved(events) = [k \in 1..n |-> F(outcomes[k])]
  BY DEF Retrieved, Outcome, outcomes
<1> HIDE DEF F, n
<1>6. \A k \in 1..n : F(outcomes[k]) \in OutcomeType
  BY <1>3, <1>4
<1>7. QED
  BY <1>2, <1>5, <1>6

LEMMA SameToolsGrow ==
  ASSUME NEW tr \in Trace, SameTools(tr.events), NEW tr2, NEW s \in Sources, NEW t \in Nat,
         NEW outcome \in {"tool_result", "tool_error"}, Hopped(tr, tr2, s, t, outcome)
  PROVE  SameTools(tr2.events)
<1> DEFINE h == HopTools(tr.events)
           o == Retrieved(tr.events)
           h2 == HopTools(tr2.events)
           o2 == Retrieved(tr2.events)
           last == Outcome({s}, outcome = "tool_result")
<1>1a. h2 = Append(h, s)
  BY DEF Hopped
<1>1b. o2 = Append(o, last)
  BY RetrievedGrows
<1>1. h2 = Append(h, s) /\ o2 = Append(o, last)
  BY <1>1a, <1>1b
<1>2. tr.events \in Seq(TraceEvent)
  BY TraceType
<1>3. h \in Seq(Sources \union {NoSource}) /\ o \in Seq(OutcomeType)
  BY <1>2, HopToolsType, RetrievedType
<1>4. last \in OutcomeType /\ last.tool = {s}
  BY ArmAAssumption DEF OutcomeType, Outcome
<1>5. Len(h) = Len(o) /\ \A n \in 1..Len(h) : o[n].tool = {h[n]}
  BY DEF SameTools
<1> HIDE DEF h, o, h2, o2, last
<1>6. /\ Len(h) \in Nat /\ Len(h2) = Len(h) + 1 /\ h2[Len(h) + 1] = s
      /\ \A n \in 1..Len(h) : h2[n] = h[n]
  BY <1>1, <1>3, AppendProperties, LenProperties
<1>7. /\ Len(o2) = Len(o) + 1 /\ o2[Len(o) + 1] = last
      /\ \A n \in 1..Len(o) : o2[n] = o[n]
  BY <1>1, <1>3, <1>4, AppendProperties
<1>8. ASSUME NEW n \in 1..Len(h2) PROVE o2[n].tool = {h2[n]}
  <2>1. n \in 1..Len(h) \/ n = Len(h) + 1
    BY <1>6
  <2>2. CASE n \in 1..Len(h)
    BY <1>5, <1>6, <1>7, <2>2
  <2>3. CASE n = Len(h) + 1
    BY <1>4, <1>5, <1>6, <1>7, <2>3
  <2>4. QED
    BY <2>1, <2>2, <2>3
<1>9. QED
  BY <1>5, <1>6, <1>7, <1>8 DEF SameTools, h2, o2

\* Turns and the end of a trace add neither a retrieval nor an outcome.
LEMMA SameToolsKept ==
  ASSUME NEW tr \in Trace, SameTools(tr.events), NEW tr2,
         TurnTaken(tr, tr2, 0) \/ Closed(tr, tr2)
  PROVE  SameTools(tr2.events)
<1>1. /\ tr2 \in Trace /\ Outcomes(tr2.events) = Outcomes(tr.events)
      /\ Len(tr.events) <= Len(tr2.events)
      /\ \A i \in 1..Len(tr.events) : tr2.events[i] = tr.events[i]
      /\ HopTools(tr2.events) = HopTools(tr.events)
  BY TraceType DEF TurnTaken, Closed, Sound
<1>2. Retrieved(tr2.events) = Retrieved(tr.events)
  BY <1>1, RetrievedSame
<1>3. QED
  BY <1>1, <1>2 DEF SameTools

LEMMA ToolsStep == ArmAInv /\ ToolsInv /\ [ArmANext]_armAVars => ToolsInv'
<1> SUFFICES ASSUME ArmAInv, ToolsInv, [ArmANext]_armAVars PROVE ToolsInv'
  OBVIOUS
<1>1. /\ ArmAStepKinds /\ AuthzTypeOK' /\ ArmAInv' /\ tw \in Trace
      /\ Len(audit) \in Nat /\ Len(audit') \in Nat /\ Len(audit) <= Len(audit')
  BY StepKinds DEF ArmAInv, ArmATypeOK
<1>2. Busy => run > 0
  BY DEF ArmAInv, Phases
<1>3. CASE StartInvestigation
  <2>1. tw' = Start(NewTrace)
    BY <1>3 DEF StartInvestigation
  <2>2. /\ HopTools(Start(NewTrace).events) = <<>>
        /\ Retrieved(Start(NewTrace).events) = <<>>
    BY StartShape, NothingRetrieved
  <2>3. SameTools(Start(NewTrace).events)
    BY <2>2 DEF SameTools
  <2>4. QED
    BY <2>1, <2>3 DEF ToolsInv
<1>4. ASSUME NEW c \in calls, HandlerReturns(c) \/ HandlerFails(c) PROVE ToolsInv'
  <2>1. PICK outcome \in {"tool_result", "tool_error"} :
          Hopped(tw, tw', c.tool, router.turn, outcome)
    BY <1>1, <1>4, HopStep
  <2>2. InLoop /\ c.tool \in Sources
    BY <1>1, <1>4, HopStep
  <2>3. run > 0
    BY <1>2, <2>2 DEF InLoop, Busy
  <2>4. router.turn \in Nat /\ SameTools(tw.events)
    BY <2>3 DEF ArmAInv, ArmATypeOK, Router, ToolsInv
  <2>5. SameTools(tw'.events)
    BY <1>1, <2>1, <2>2, <2>4, SameToolsGrow
  <2>6. QED
    BY <2>5 DEF ToolsInv
<1>5. ASSUME TurnTaken(tw, tw', 0) \/ Closed(tw, tw'), Busy PROVE ToolsInv'
  <2>1. SameTools(tw.events)
    BY <1>2, <1>5 DEF ToolsInv
  <2>2. SameTools(tw'.events)
    BY <1>1, <1>5, <2>1, SameToolsKept
  <2>3. QED
    BY <2>2 DEF ToolsInv
<1>6. ASSUME NEW stop \in BOOLEAN, NEW leads \in LeadLists, ExposureReturns(stop, leads)
      PROVE  ToolsInv'
  <2>1. TurnTaken(tw, tw', 0) /\ pc = "exposure"
    BY <1>6, <1>1, StepKinds, ExposureStep
  <2>2. QED
    BY <1>5, <2>1 DEF Busy
<1>7. CASE ResolutionReturns
  <2>1. TurnTaken(tw, tw', 0) /\ pc = "resolution"
    BY <1>7, ResolutionStep
  <2>2. QED
    BY <1>5, <2>1 DEF Busy
<1>8. CASE Concluding
  <2>1. PICK error \in Errors, stop \in BOOLEAN :
          Busy /\ calls = {} /\ Conclude(error, stop)
    BY <1>8 DEF Concluding
  <2>2. Closed(tw, tw')
    BY <2>1, ConcludeStep
  <2>3. QED
    BY <1>5, <2>1, <2>2
<1>9. ASSUME \/ \E tool \in Tools : CallTool(tool)
             \/ \E c \in calls : HandlerRaises(c)
             \/ AdminActs \/ TimePasses \/ UNCHANGED armAVars
      PROVE  ToolsInv'
  <2>1. UNCHANGED <<run, tw>>
    BY <1>9 DEF CallTool, HandlerRaises, AdminActs, TimePasses, armAVars, runVars
  <2>2. QED
    BY <2>1 DEF ToolsInv
<1>10. QED
  BY <1>1, <1>3, <1>4, <1>6, <1>7, <1>8, <1>9 DEF ArmAStepKinds

LEMMA ToolsInvariant == ArmASpec => []ToolsInv
<1>1. ArmAInit => ToolsInv
  BY DEF ArmAInit, ToolsInv
<1>2. QED
  BY <1>1, ToolsStep, ArmAInvariant, PTL DEF ArmASpec

LEMMA VerdictOfChain ==
  ASSUME NEW path \in Seq(Sources) \ {<<>>}, NEW T, NEW actual \in Seq(T)
  PROVE  Judge!BranchVerdict(Judge!Fixture(path, Len(path)), actual) <=>
           Len(actual) = Len(path) /\ \A n \in 1..Len(path) : actual[n] = path[n]
<1> DEFINE fx == Judge!Fixture(path, Len(path))
<1>1. fx.loaded /\ fx.path = path /\ fx.stop = Len(path)
  BY DEF Judge!Fixture
<1>2. Len(path) \in Nat /\ Len(path) # 0 /\ Len(actual) \in Nat
  BY LenProperties, EmptySeq
<1> HIDE DEF fx
<1>3. Judge!DepthOutcome(fx, Len(actual)) = "pass" <=> Len(actual) = Len(path)
  BY <1>1 DEF Judge!DepthOutcome
<1>4. Judge!ChainOutcome(fx, actual) = "pass" <=>
        /\ actual # <<>> /\ Len(actual) <= Len(path)
        /\ \A n \in 1..Len(actual) : actual[n] = path[n]
  BY <1>1 DEF Judge!ChainOutcome
<1>5. Len(actual) = Len(path) => actual # <<>> /\ Len(actual) <= Len(path)
  BY <1>2
<1>6. QED
  BY <1>3, <1>4, <1>5 DEF Judge!BranchVerdict, fx

\* Whatever the contracts, failures and kills of a run: what score_traces finds of its
\* trace could be told from the broker's audit log alone, which the trace writer never
\* touches (ToolRouter.call_tool, _branch_verdict).
THEOREM ArmAVerdictIsInTheLog == ArmASpec => []VerdictIsInTheLog
<1>1. ASSUME ArmAInv, AccountInv, ToolsInv PROVE VerdictIsInTheLog
  <2> SUFFICES ASSUME run > 0, NEW path \in Chains
               PROVE  Judge!BranchVerdict(Judge!Fixture(path, Len(path)), HopTools(tw.events))
                      <=> /\ Len(Executed(RunLog)) = Len(path)
                          /\ \A n \in 1..Len(path) : Executed(RunLog)[n].tool = {path[n]}
    BY DEF VerdictIsInTheLog
  <2> DEFINE h == HopTools(tw.events)
             x == Executed(RunLog)
  <2>0. path \in Seq(Sources) \ {<<>>}
    BY ArmAScoreAssumption
  <2>1. x = Retrieved(tw.events) /\ SameTools(tw.events)
    BY <1>1 DEF AccountInv, OneStory, ToolsInv
  <2>2. tw.events \in Seq(TraceEvent)
    BY <1>1, TraceType DEF ArmAInv, ArmATypeOK
  <2>3. h \in Seq(Sources \union {NoSource})
    BY <2>2, HopToolsType
  <2>4. Len(h) = Len(x) /\ \A n \in 1..Len(h) : x[n].tool = {h[n]}
    BY <2>1 DEF SameTools
  <2> HIDE DEF h, x
  <2>5. Judge!BranchVerdict(Judge!Fixture(path, Len(path)), h) <=>
          Len(h) = Len(path) /\ \A n \in 1..Len(path) : h[n] = path[n]
    BY <2>0, <2>3, VerdictOfChain
  <2>6. Len(h) = Len(path) =>
          \A n \in 1..Len(path) : x[n].tool = {path[n]} <=> h[n] = path[n]
    BY <2>4
  <2>7. QED
    BY <2>4, <2>5, <2>6 DEF h, x
<1>2. QED
  BY <1>1, AccountInvariant, ToolsInvariant, PTL
=============================================================================
