----------------------------- MODULE ArmBProofs -----------------------------
(***************************************************************************)
(* What holds of the managed-session driver for every session: any number  *)
(* of threads, calls, names and events in any order, any bound, and a      *)
(* failure at any of the driver's blocking calls.                          *)
(*                                                                         *)
(* The properties say what the driver has made of the session so far;      *)
(* they become inductive with what is still in the stream: the calls not   *)
(* yet read are the next ones of the session, in its order (SessionInv,    *)
(* HopsInv), a turn's end is there only when nothing is owed (SessionInv), *)
(* and the tokens it will report are tokens already spent (UsageInv).      *)
(***************************************************************************)
EXTENDS ArmB, TraceWriterProofs

-----------------------------------------------------------------------------
(* The stream.                                                             *)

StreamEvent(m) == [type : EventTypes, call : 0..m]

CallsOf(s) == {s[i].call : i \in 1..Len(s)}
Spends(s) == {i \in 1..Len(s) : s[i].type = "model_request_end"}

\* Only a tool call names a call, calls come in the order they were made, and the
\* end of a turn is nowhere in the stream unless `ended`.
Orderly(s, ended) ==
  /\ \A i \in 1..Len(s) : s[i].type = "custom_tool_use" <=> s[i].call > 0
  /\ \A i, j \in 1..Len(s) : i < j /\ s[i].call > 0 /\ s[j].call > 0 => s[i].call < s[j].call
  /\ \A i \in 1..Len(s) : s[i].type = "end_turn" => ended

LEMMA StreamWidens ==
  ASSUME NEW m \in Nat, NEW s \in Seq(StreamEvent(m))
  PROVE  s \in Seq(StreamEvent(m + 1))
<1>1. StreamEvent(m) \subseteq StreamEvent(m + 1)
  BY DEF StreamEvent
<1>2. QED
  BY <1>1, SeqMonotonic

LEMMA StreamFacts ==
  ASSUME NEW m \in Nat, NEW s \in Seq(StreamEvent(m))
  PROVE  /\ Len(s) \in Nat /\ \A i \in 1..Len(s) : s[i] \in StreamEvent(m)
         /\ CallsOf(s) \subseteq 0..m
         /\ IsFiniteSet(Spends(s)) /\ Cardinality(Spends(s)) \in Nat
<1>1. Len(s) \in Nat /\ \A i \in 1..Len(s) : s[i] \in StreamEvent(m)
  BY LenProperties, ElementOfSeq
<1>2. CallsOf(s) \subseteq 0..m
  BY <1>1 DEF CallsOf, StreamEvent
<1>3. Spends(s) \subseteq 1..Len(s)
  BY DEF Spends
<1>4. IsFiniteSet(1..Len(s))
  BY <1>1, FS_Interval
<1>5. QED
  BY <1>1, <1>2, <1>3, <1>4, FS_Subset, FS_CardinalityType

\* The session emits one more event.
LEMMA StreamGrows ==
  ASSUME NEW m \in Nat, NEW s \in Seq(StreamEvent(m)), NEW e \in StreamEvent(m)
  PROVE  LET s2 == Append(s, e) IN
         /\ s2 \in Seq(StreamEvent(m))
         /\ Len(s2) = Len(s) + 1 /\ s2[Len(s) + 1] = e
         /\ \A i \in 1..Len(s) : s2[i] = s[i]
         /\ CallsOf(s2) = CallsOf(s) \union {e.call}
         /\ e.type = "model_request_end" =>
              Cardinality(Spends(s2)) = Cardinality(Spends(s)) + 1
         /\ e.type # "model_request_end" => Cardinality(Spends(s2)) = Cardinality(Spends(s))
<1> DEFINE s2 == Append(s, e)
           l == Len(s)
<1>1. /\ s2 \in Seq(StreamEvent(m)) /\ l \in Nat /\ Len(s2) = l + 1 /\ s2[l + 1] = e
      /\ \A i \in 1..l : s2[i] = s[i]
  BY AppendProperties, LenProperties
<1> HIDE DEF s2, l
<1>2. 1..(l + 1) = (1..l) \union {l + 1} /\ l + 1 \notin 1..l
  BY <1>1
<1>3. CallsOf(s2) = CallsOf(s) \union {e.call}
  BY <1>1, <1>2 DEF CallsOf, l
<1>4. /\ e.type = "model_request_end" => Spends(s2) = Spends(s) \union {l + 1}
      /\ e.type # "model_request_end" => Spends(s2) = Spends(s)
      /\ l + 1 \notin Spends(s)
  BY <1>1, <1>2 DEF Spends, l
<1>5. IsFiniteSet(Spends(s)) /\ Cardinality(Spends(s)) \in Nat
  BY StreamFacts
<1>6. Cardinality(Spends(s) \union {l + 1}) = Cardinality(Spends(s)) + 1
  BY <1>4, <1>5, FS_AddElement
<1>7. QED
  BY <1>1, <1>3, <1>4, <1>6 DEF s2, l

LEMMA OrderKept ==
  ASSUME NEW m \in Nat, NEW s \in Seq(StreamEvent(m)), NEW ended \in BOOLEAN,
         NEW e \in StreamEvent(m),
         Orderly(s, ended), e.type = "custom_tool_use" <=> e.call > 0,
         e.call > 0 => \A i \in 1..Len(s) : s[i].call < e.call,
         e.type = "end_turn" => ended
  PROVE  Orderly(Append(s, e), ended)
<1> DEFINE s2 == Append(s, e)
           l == Len(s)
<1>1. /\ l \in Nat /\ Len(s2) = l + 1 /\ s2[l + 1] = e
      /\ \A i \in 1..l : s2[i] = s[i]
  BY StreamGrows, LenProperties
<1> HIDE DEF s2, l
<1>2. \A i \in 1..Len(s2) : i \in 1..l \/ i = l + 1
  BY <1>1
<1>3. \A i \in 1..l : i < l + 1 /\ ~(l + 1 < i)
  BY <1>1
<1>4. \A i \in 1..Len(s2) : /\ s2[i].type = "custom_tool_use" <=> s2[i].call > 0
                            /\ s2[i].type = "end_turn" => ended
  BY <1>1, <1>2 DEF Orderly, l
<1>5. ASSUME NEW i \in 1..Len(s2), NEW j \in 1..Len(s2), i < j, s2[i].call > 0, s2[j].call > 0
      PROVE  s2[i].call < s2[j].call
  <2>1. i \in 1..l
    BY <1>1, <1>2, <1>5
  <2>2. CASE j \in 1..l
    BY <1>1, <1>5, <2>1, <2>2 DEF Orderly, l
  <2>3. CASE j = l + 1
    BY <1>1, <1>5, <2>1, <2>3 DEF l
  <2>4. QED
    BY <1>2, <2>2, <2>3
<1>6. QED
  BY <1>4, <1>5 DEF Orderly, s2

\* The driver takes the first event off.
LEMMA StreamShrinks ==
  ASSUME NEW m \in Nat, NEW s \in Seq(StreamEvent(m)), s # <<>>
  PROVE  LET s2 == Tail(s) IN
         /\ s2 \in Seq(StreamEvent(m)) /\ Head(s) \in StreamEvent(m) /\ Head(s) = s[1]
         /\ 1 \in 1..Len(s)
         /\ Len(s) \in Nat /\ Len(s2) = Len(s) - 1 /\ Len(s2) \in Nat
         /\ \A i \in 1..Len(s2) : i + 1 \in 1..Len(s) /\ s2[i] = s[i + 1]
         /\ CallsOf(s) = CallsOf(s2) \union {Head(s).call}
         /\ Head(s).type = "model_request_end" =>
              Cardinality(Spends(s)) = Cardinality(Spends(s2)) + 1
         /\ Head(s).type # "model_request_end" => Cardinality(Spends(s)) = Cardinality(Spends(s2))
<1> DEFINE s2 == Tail(s)
           l == Len(s2)
<1>1. /\ s2 \in Seq(StreamEvent(m)) /\ Head(s) \in StreamEvent(m) /\ Head(s) = s[1]
      /\ Len(s) \in Nat /\ l \in Nat /\ Len(s) = l + 1
      /\ \A i \in 1..l : s2[i] = s[i + 1]
  BY HeadTailProperties, LenProperties, EmptySeq
<1> HIDE DEF s2, l
<1>2. /\ \A i \in 1..l : i + 1 \in 1..Len(s)
      /\ \A i \in 1..Len(s) : i = 1 \/ i - 1 \in 1..l
      /\ 1 \in 1..Len(s)
  BY <1>1
<1>3. CallsOf(s) = CallsOf(s2) \union {Head(s).call}
  <2>1. \A i \in 1..Len(s) : i = 1 \/ (i - 1 \in 1..l /\ s2[i - 1] = s[i])
    BY <1>1, <1>2
  <2>2. ASSUME NEW c \in CallsOf(s) PROVE c \in CallsOf(s2) \union {Head(s).call}
    <3>1. PICK i \in 1..Len(s) : c = s[i].call
      BY DEF CallsOf
    <3>2. CASE i = 1
      BY <1>1, <3>1, <3>2
    <3>3. CASE i - 1 \in 1..l /\ s2[i - 1] = s[i]
      BY <3>1, <3>3 DEF CallsOf, l
    <3>4. QED
      BY <2>1, <3>2, <3>3
  <2>3. ASSUME NEW c \in CallsOf(s2) PROVE c \in CallsOf(s)
    <3>1. PICK i \in 1..l : c = s2[i].call
      BY DEF CallsOf, l
    <3>2. i + 1 \in 1..Len(s) /\ c = s[i + 1].call
      BY <1>1, <1>2, <3>1
    <3>3. QED
      BY <3>2 DEF CallsOf
  <2>4. Head(s).call \in CallsOf(s)
    BY <1>1, <1>2 DEF CallsOf
  <2>5. QED
    BY <2>2, <2>3, <2>4
<1> DEFINE S == Spends(s) \ {1}
           T == Spends(s2)
<1>4. ExistsBijection(S, T)
  <2> DEFINE f == [i \in S |-> i - 1]
  <2>1. \A i \in S : i \in 1..Len(s) /\ i # 1 /\ s[i].type = "model_request_end"
    BY DEF Spends
  <2>2. \A i \in S : i \in Nat /\ i - 1 \in 1..l /\ s2[i - 1] = s[i]
    BY <1>1, <1>2, <2>1
  <2>3. \A i \in S : f[i] = i - 1 /\ f[i] \in T
    BY <2>1, <2>2 DEF Spends, l
  <2>4. f \in [S -> T]
    BY <2>3
  <2>5. \A j \in T : j \in Nat /\ j + 1 \in S /\ (j + 1) - 1 = j
    BY <1>1, <1>2 DEF Spends, l
  <2>6. f \in Injection(S, T)
    <3>1. \A i, j \in S : f[i] = f[j] => i = j
      BY <2>2
    <3>2. QED
      BY <2>4, <3>1 DEF Injection, IsInjective
  <2>7. f \in Surjection(S, T)
    BY <2>4, <2>5 DEF Surjection
  <2>8. QED
    BY <2>6, <2>7 DEF ExistsBijection, Bijection
<1>5. IsFiniteSet(Spends(s)) /\ Cardinality(Spends(s)) \in Nat
  BY StreamFacts
<1>6. IsFiniteSet(S) /\ Cardinality(T) = Cardinality(S) /\ Cardinality(S) \in Nat
  <2>1. IsFiniteSet(S)
    BY <1>5, FS_Subset
  <2>2. QED
    BY <1>4, <2>1, FS_Bijection, FS_CardinalityType
<1>7. /\ 1 \in Spends(s) => Cardinality(S) = Cardinality(Spends(s)) - 1
      /\ 1 \notin Spends(s) => S = Spends(s)
  <2>1. 1 \in Spends(s) => Cardinality(S) = Cardinality(Spends(s)) - 1
    BY <1>5, FS_RemoveElement
  <2>2. 1 \notin Spends(s) => S = Spends(s)
    OBVIOUS
  <2>3. QED
    BY <2>1, <2>2
<1>8. 1 \in Spends(s) <=> Head(s).type = "model_request_end"
  BY <1>1, <1>2 DEF Spends
<1>9. /\ Head(s).type = "model_request_end" => Cardinality(Spends(s)) = Cardinality(T) + 1
      /\ Head(s).type # "model_request_end" => Cardinality(Spends(s)) = Cardinality(T)
  <2> DEFINE x == Cardinality(Spends(s))
             y == Cardinality(T)
             z == Cardinality(S)
  <2>1. /\ x \in Nat /\ z \in Nat /\ y = z
        /\ 1 \in Spends(s) => z = x - 1
        /\ 1 \notin Spends(s) => z = x
    BY <1>5, <1>6, <1>7
  <2> HIDE DEF x, y, z
  <2>2. (1 \in Spends(s) => x = y + 1) /\ (1 \notin Spends(s) => x = y)
    BY <2>1
  <2>3. QED
    BY <1>8, <2>2 DEF x, y
<1>10. Len(s) - 1 = l
  BY <1>1
<1>11. QED
  BY <1>1, <1>2, <1>3, <1>9, <1>10 DEF s2, l

\* What is left is still in order, and a call taken off is not left behind.
LEMMA OrderOfTail ==
  ASSUME NEW m \in Nat, NEW s \in Seq(StreamEvent(m)), s # <<>>, NEW ended \in BOOLEAN,
         Orderly(s, ended)
  PROVE  /\ Orderly(Tail(s), ended)
         /\ Head(s).type = "end_turn" => ended
         /\ Head(s).type = "custom_tool_use" <=> Head(s).call > 0
         /\ Head(s).call > 0 => \A c \in CallsOf(Tail(s)) : c > 0 => Head(s).call < c
<1> DEFINE s2 == Tail(s)
<1>1. /\ Head(s) = s[1] /\ 1 \in 1..Len(s) /\ Len(s2) \in Nat
      /\ \A i \in 1..Len(s2) : i + 1 \in 1..Len(s) /\ s2[i] = s[i + 1]
  BY StreamShrinks
<1> HIDE DEF s2
<1>2. \A i, j \in 1..Len(s2) : i < j => i + 1 < j + 1
  BY <1>1
<1>3. \A i \in 1..Len(s2) : 1 < i + 1
  BY <1>1
<1>4. Orderly(s2, ended)
  BY <1>1, <1>2 DEF Orderly
<1>5. Head(s).call > 0 => \A c \in CallsOf(s2) : c > 0 => Head(s).call < c
  BY <1>1, <1>3 DEF Orderly, CallsOf
<1>6. QED
  BY <1>1, <1>4, <1>5 DEF Orderly, s2

LEMMA OrderlyOfMore ==
  ASSUME NEW s, NEW a \in BOOLEAN, NEW b \in BOOLEAN, Orderly(s, a), a => b
  PROVE  Orderly(s, b)
BY DEF Orderly

-----------------------------------------------------------------------------
(* The inductive invariant.                                                *)

Running == pc \in {"start", "created", "streaming", "replying"}
Hops == HopTools(tw.events)
TurnOver == session = "over" /\ waiting = {}

WriterInv ==
  /\ Sound(tw)
  /\ pc # "done" => ~tw.finished /\ tw.turn = 1
  /\ pc = "start" => Hops = <<>>

SessionInv ==
  /\ Orderly(stream, TurnOver)
  /\ pc = "start" => session = "none"
  /\ pc = "created" => session = "created"
  /\ session \in {"none", "created"} => asked = <<>> /\ stream = <<>> /\ waiting = {}
  /\ left = "idle" => TurnOver

HopsInv ==
  /\ Len(Hops) <= Len(asked)
  /\ \A i \in 1..Len(Hops) : Hops[i] = SourceOf(asked[i])
  /\ Running => CallsOf(stream) \ {0} = (Len(Hops) + 1)..Len(asked)
  /\ pc = "replying" => reply = Len(Hops)

AnswerInv == Running => waiting \ {reply} \subseteq CallsOf(stream)

UsageInv ==
  /\ usage + Cardinality(Spends(stream)) <= spent
  /\ Running => streamUsage = 0 /\ ~error
  /\ ~Running /\ ~error => streamUsage = usage

Resolved(events) == {i \in Uses(events) : events[i].tool \in ResolutionTools}
Counting == pc = "replying" /\ asked[reply] \in ResolutionTools

CountInv ==
  /\ Running => nEvents <= MaxEvents
  /\ resolutions <= Len(Hops)
  /\ ~error /\ Counting => resolutions + 1 = Cardinality(Resolved(tw.events))
  /\ ~error /\ ~Counting => resolutions = Cardinality(Resolved(tw.events))

ArmBInv ==
  /\ ArmBTypeOK
  /\ WriterInv /\ SessionInv /\ HopsInv /\ AnswerInv /\ UsageInv /\ CountInv

\* What the types of the state say of the stream, the calls and the chain.
LEMMA BTypes ==
  ASSUME ArmBInv
  PROVE  /\ tw \in Trace /\ Len(Hops) \in Nat /\ Len(Hops) = tw.tool_calls
         /\ Len(asked) \in Nat /\ stream \in Seq(StreamEvent(Len(asked)))
         /\ Cardinality(Spends(stream)) \in Nat /\ CallsOf(stream) \subseteq 0..Len(asked)
         /\ usage \in Nat /\ spent \in Nat /\ resolutions \in Nat /\ nEvents \in Nat
         /\ Cardinality(Resolved(tw.events)) \in Nat
         /\ Cardinality(Resolved(tw.events)) <= Len(Hops)
         /\ IsFiniteSet(Resolved(tw.events))
<1>1. /\ tw \in Trace /\ tw.events \in Seq(TraceEvent) /\ Sound(tw)
  BY TraceType DEF ArmBInv, ArmBTypeOK, WriterInv
<1>2. /\ Len(Hops) = Cardinality(Uses(tw.events)) /\ Cardinality(Uses(tw.events)) \in Nat
      /\ IsFiniteSet(Uses(tw.events)) /\ Cardinality(Uses(tw.events)) = tw.tool_calls
  BY <1>1, HopToolsType DEF Hops, Sound
<1>3. Len(asked) \in Nat /\ stream \in Seq(StreamEvent(Len(asked)))
  BY LenProperties DEF ArmBInv, ArmBTypeOK, StreamEvent
<1>4. Cardinality(Spends(stream)) \in Nat /\ CallsOf(stream) \subseteq 0..Len(asked)
  BY <1>3, StreamFacts
<1>5. /\ IsFiniteSet(Resolved(tw.events)) /\ Cardinality(Resolved(tw.events)) \in Nat
      /\ Cardinality(Resolved(tw.events)) <= Cardinality(Uses(tw.events))
  <2>1. Resolved(tw.events) \subseteq Uses(tw.events)
    BY DEF Resolved
  <2>2. QED
    BY <1>2, <2>1, FS_Subset, FS_CardinalityType
<1>6. usage \in Nat /\ spent \in Nat /\ resolutions \in Nat /\ nEvents \in Nat
  BY <1>3, ArmBAssumption DEF ArmBInv, ArmBTypeOK
<1>7. QED
  BY <1>1, <1>2, <1>3, <1>4, <1>5, <1>6

\* One more hop is one more resolution if it is of a resolution tool.
LEMMA ResolvedOfHop ==
  ASSUME NEW t \in Trace, NEW t2, NEW source \in Sources, NEW turn \in Nat,
         NEW outcome \in {"tool_result", "tool_error"}, Hopped(t, t2, source, turn, outcome),
         IsFiniteSet(Resolved(t.events))
  PROVE  /\ source \in ResolutionTools =>
              Cardinality(Resolved(t2.events)) = Cardinality(Resolved(t.events)) + 1
         /\ source \notin ResolutionTools =>
              Cardinality(Resolved(t2.events)) = Cardinality(Resolved(t.events))
<1> DEFINE l == Len(t.events)
           e == t.events
           e2 == t2.events
<1>1. /\ Uses(e2) = Uses(e) \union {l + 1} /\ \A i \in 1..l : e2[i] = e[i]
      /\ e2[l + 1].tool = source
  BY DEF Hopped, TEvent
<1>2. l \in Nat /\ \A i \in Uses(e) : i \in 1..l
  BY TraceType DEF Uses
<1>3. l + 1 \notin 1..l
  BY <1>2
<1> HIDE DEF l, e, e2
<1>4. /\ source \in ResolutionTools => Resolved(e2) = Resolved(e) \union {l + 1}
      /\ source \notin ResolutionTools => Resolved(e2) = Resolved(e)
      /\ l + 1 \notin Resolved(e)
  BY <1>1, <1>2, <1>3 DEF Resolved
<1>5. Cardinality(Resolved(e) \union {l + 1}) = Cardinality(Resolved(e)) + 1
  BY <1>4, FS_AddElement DEF e
<1>6. QED
  BY <1>4, <1>5 DEF e, e2

LEMMA ResolvedSame ==
  ASSUME NEW t \in Trace, NEW t2, Uses(t2.events) = Uses(t.events),
         \A i \in 1..Len(t.events) : t2.events[i] = t.events[i]
  PROVE  Resolved(t2.events) = Resolved(t.events)
BY DEF Resolved, Uses

\* A name outside the registry is no resolution, nor is the source it falls back to.
LEMMA SourceOfName ==
  ASSUME NEW name \in ToolNames
  PROVE  /\ SourceOf(name) \in Sources
         /\ SourceOf(name) \in ResolutionTools <=> name \in ResolutionTools
         /\ name \in Sources => SourceOf(name) = name
BY ArmBAssumption DEF ToolNames, SourceOf

LEMMA BInit == ArmBInit => ArmBInv
<1> SUFFICES ASSUME ArmBInit PROVE ArmBInv
  OBVIOUS
<1> DEFINE t == Start(NewTrace)
<1>1. Sound(t) /\ t \in Trace /\ t.turn = 0 /\ ~t.finished /\ HopTools(t.events) = <<>>
      /\ Uses(t.events) = {}
  BY StartShape DEF Sound
<1> HIDE DEF t
<1>2. tw = RecordTurn(t, 0)
  BY DEF ArmBInit, t
<1>3. TurnTaken(t, tw, 0) /\ Sound(tw)
  BY <1>1, <1>2, TurnShape, TurnKeepsSound
<1>4. tw \in Trace /\ tw.turn = 1 /\ ~tw.finished /\ Hops = <<>> /\ Uses(tw.events) = {}
  BY <1>1, <1>3 DEF TurnTaken, Hops
<1>5. /\ pc = "start" /\ usage = 0 /\ streamUsage = 0 /\ resolutions = 0 /\ nEvents = 0
      /\ reply = 0 /\ error = FALSE /\ left = "no" /\ result = NoResult /\ stream = <<>>
      /\ asked = <<>> /\ waiting = {} /\ spent = 0 /\ emits = 0 /\ session = "none"
  BY DEF ArmBInit
<1>6. Len(asked) = 0 /\ Len(stream) = 0
  BY <1>5
<1>7. ArmBTypeOK
  <2>1. error \in BOOLEAN
    BY <1>5, Zenon
  <2>2. NoResult \in [depth : Nat, resolutions : Nat, tokens : Nat, retrieved : BOOLEAN,
                      error : BOOLEAN]
    BY DEF NoResult
  <2>3. /\ stream \in Seq([type : EventTypes, call : 0..Len(asked)])
        /\ asked \in Seq(ToolNames)
    BY <1>5
  <2>4. nEvents \in 0..(MaxEvents + 1) /\ resolutions \in 0..Len(asked) /\ reply \in 0..Len(asked)
    BY <1>5, <1>6, ArmBAssumption
  <2>5. QED
    BY <1>4, <1>5, <2>1, <2>2, <2>3, <2>4 DEF ArmBTypeOK
<1>8. WriterInv
  BY <1>3, <1>4 DEF WriterInv
<1>9. SessionInv
  BY <1>5, <1>6 DEF SessionInv, Orderly
<1>10. CallsOf(stream) = {} /\ Cardinality(Spends(stream)) = 0
  <2>1. CallsOf(stream) = {} /\ Spends(stream) = {}
    BY <1>6 DEF CallsOf, Spends
  <2>2. QED
    BY <2>1, FS_EmptySet
<1>11. Len(Hops) = 0
  BY <1>4
<1>12. HopsInv /\ AnswerInv /\ UsageInv
  BY <1>5, <1>6, <1>10, <1>11 DEF HopsInv, AnswerInv, UsageInv, Running
<1>13. CountInv
  <2>1. Cardinality(Resolved(tw.events)) = 0
    <3>1. Resolved(tw.events) = {}
      BY <1>4 DEF Resolved
    <3>2. QED
      BY <3>1, FS_EmptySet
  <2>2. QED
    BY <1>5, <1>11, <2>1, ArmBAssumption DEF CountInv, Counting
<1>14. QED
  BY <1>7, <1>8, <1>9, <1>12, <1>13 DEF ArmBInv

-----------------------------------------------------------------------------
(* The session's steps.                                                    *)

LEMMA CallsStep ==
  ASSUME ArmBInv, NEW name \in ToolNames, SessionCalls(name)
  PROVE  ArmBInv'
<1> DEFINE n == Len(asked)
           e == Event("custom_tool_use", n + 1)
<1>0. /\ n \in Nat /\ stream \in Seq(StreamEvent(n)) /\ asked \in Seq(ToolNames)
      /\ Len(Hops) \in Nat /\ CallsOf(stream) \subseteq 0..n
      /\ usage \in Nat /\ spent \in Nat
  BY BTypes DEF ArmBInv, ArmBTypeOK
<1>1. /\ asked' = Append(asked, name) /\ Len(asked') = n + 1
      /\ \A i \in 1..n : asked'[i] = asked[i]
      /\ asked' \in Seq(ToolNames)
  BY <1>0, AppendProperties DEF SessionCalls
<1>2. /\ waiting' = waiting \union {n + 1} /\ stream' = Append(stream, e)
      /\ emits' = emits + 1 /\ session = "running"
      /\ UNCHANGED <<driverVars, spent, session>>
  BY <1>1 DEF SessionCalls, Emit, Live
<1>3. UNCHANGED <<pc, tw, usage, streamUsage, resolutions, nEvents, reply, error, left, result>>
  BY <1>2 DEF driverVars
<1>4. /\ e \in StreamEvent(n + 1) /\ e.type = "custom_tool_use" /\ e.call = n + 1
      /\ stream \in Seq(StreamEvent(n + 1)) /\ n + 1 \in Nat
  <2>1. e \in StreamEvent(n + 1) /\ e.type = "custom_tool_use" /\ e.call = n + 1
    BY <1>0 DEF Event, StreamEvent, EventTypes
  <2> HIDE DEF n, e
  <2>2. stream \in Seq(StreamEvent(n + 1)) /\ n + 1 \in Nat
    BY <1>0, StreamWidens
  <2>3. QED
    BY <2>1, <2>2
<1> HIDE DEF n, e
<1>5. /\ stream' \in Seq(StreamEvent(n + 1))
      /\ CallsOf(stream') = CallsOf(stream) \union {n + 1}
      /\ Cardinality(Spends(stream')) = Cardinality(Spends(stream))
  BY <1>2, <1>4, StreamGrows
<1>6. ArmBTypeOK'
  <2>1. /\ resolutions' \in 0..Len(asked') /\ reply' \in 0..Len(asked')
        /\ waiting' \subseteq 1..Len(asked')
    <3>1. resolutions \in 0..n /\ reply \in 0..n /\ waiting \subseteq 1..n
      BY DEF ArmBInv, ArmBTypeOK, n
    <3>2. resolutions \in 0..(n + 1) /\ reply \in 0..(n + 1)
          /\ waiting \union {n + 1} \subseteq 1..(n + 1)
      BY <1>0, <3>1
    <3>3. QED
      BY <1>1, <1>2, <1>3, <3>2
  <2>2. error' \in BOOLEAN
    BY <1>3 DEF ArmBInv, ArmBTypeOK
  <2>3. stream' \in Seq([type : EventTypes, call : 0..Len(asked')])
    BY <1>1, <1>5 DEF StreamEvent
  <2>4. QED
    BY <1>1, <1>2, <1>3, <2>1, <2>2, <2>3 DEF ArmBInv, ArmBTypeOK
<1>7. WriterInv'
  BY <1>3 DEF ArmBInv, WriterInv, Hops
<1>8. SessionInv'
  <2>1. TurnOver = FALSE /\ TurnOver' = FALSE
    BY <1>2 DEF TurnOver
  <2>2. Orderly(stream, FALSE)
    BY <2>1 DEF ArmBInv, SessionInv
  <2>3. \A i \in 1..Len(stream) : stream[i].call < n + 1
    <3>1. \A i \in 1..Len(stream) : stream[i].call \in 0..n
      BY <1>0 DEF CallsOf
    <3>2. QED
      BY <1>0, <3>1
  <2>4. e.call > 0
    BY <1>0, <1>4
  <2>5. Orderly(stream', FALSE)
    BY <1>2, <1>4, <2>2, <2>3, <2>4, OrderKept
  <2>6. QED
    BY <1>2, <1>3, <2>1, <2>5 DEF ArmBInv, SessionInv
<1>9. HopsInv'
  <2>1. Hops' = Hops
    BY <1>3 DEF Hops
  <2>2. \A i \in 1..Len(Hops) : i \in 1..n
    BY <1>0 DEF ArmBInv, HopsInv, n
  <2>3. Running => CallsOf(stream') \ {0} = (Len(Hops) + 1)..(n + 1)
    <3>1. ASSUME Running PROVE CallsOf(stream) \ {0} = (Len(Hops) + 1)..n /\ Len(Hops) <= n
      BY <3>1 DEF ArmBInv, HopsInv, n
    <3>2. (CallsOf(stream) \union {n + 1}) \ {0} = (CallsOf(stream) \ {0}) \union {n + 1}
      BY <1>0
    <3>3. Len(Hops) <= n => (Len(Hops) + 1)..(n + 1) = ((Len(Hops) + 1)..n) \union {n + 1}
      BY <1>0
    <3>4. QED
      BY <1>5, <3>1, <3>2, <3>3
  <2>4. Len(Hops) <= n + 1 /\ \A i \in 1..Len(Hops) : Hops[i] = SourceOf(asked'[i])
    BY <1>0, <1>1, <2>2 DEF ArmBInv, HopsInv, n
  <2>5. (Running' <=> Running) /\ reply' = reply /\ pc' = pc
    BY <1>3 DEF Running
  <2>6. QED
    BY <1>1, <2>1, <2>3, <2>4, <2>5 DEF ArmBInv, HopsInv
<1>10. AnswerInv'
  BY <1>2, <1>3, <1>5 DEF ArmBInv, AnswerInv, Running
<1>11. UsageInv'
  BY <1>2, <1>3, <1>5 DEF ArmBInv, UsageInv, Running
<1>12. CountInv'
  <2>1. pc = "replying" => reply \in 1..n
    BY <1>0 DEF ArmBInv, ArmBTypeOK, n
  <2>2. Counting' <=> Counting
    BY <1>1, <1>3, <2>1 DEF Counting
  <2>3. QED
    BY <1>3, <2>2 DEF ArmBInv, CountInv, Running, Hops
<1>13. QED
  BY <1>6, <1>7, <1>8, <1>9, <1>10, <1>11, <1>12 DEF ArmBInv

\* Any other event names no call.
LEMMA SpeaksStep ==
  ASSUME ArmBInv, SessionSpeaks \/ SessionSpends \/ SessionWaits
                  \/ SessionEndsTurn \/ SessionTerminates
  PROVE  ArmBInv'
<1> DEFINE n == Len(asked)
<1>0. /\ n \in Nat /\ stream \in Seq(StreamEvent(n))
      /\ usage \in Nat /\ spent \in Nat /\ Cardinality(Spends(stream)) \in Nat
  BY BTypes
<1>1. PICK type \in EventTypes \ {"custom_tool_use"} :
        /\ stream' = Append(stream, Event(type, 0)) /\ emits' = emits + 1
        /\ session = "running" /\ session' \in {"running", "over"}
        /\ spent' = IF type = "model_request_end" THEN spent + 1 ELSE spent
        /\ type = "end_turn" => session' = "over" /\ waiting = {}
        /\ UNCHANGED <<driverVars, asked, waiting>>
  BY DEF SessionSpeaks, SessionSpends, SessionWaits, SessionEndsTurn, SessionTerminates,
         Emit, Live, EventTypes
<1>2. UNCHANGED <<pc, tw, usage, streamUsage, resolutions, nEvents, reply, error, left, result>>
  BY <1>1 DEF driverVars
<1> DEFINE e == Event(type, 0)
<1>3. e \in StreamEvent(n) /\ e.type = type /\ e.call = 0
  BY <1>0 DEF Event, StreamEvent
<1> HIDE DEF e, n
<1>4. stream' = Append(stream, e)
  BY <1>1 DEF e
<1>5. /\ stream' \in Seq(StreamEvent(n)) /\ CallsOf(stream') = CallsOf(stream) \union {0}
      /\ type = "model_request_end" =>
           Cardinality(Spends(stream')) = Cardinality(Spends(stream)) + 1
      /\ type # "model_request_end" => Cardinality(Spends(stream')) = Cardinality(Spends(stream))
  BY <1>0, <1>3, <1>4, StreamGrows
<1>6. ArmBTypeOK'
  <2>1. error' \in BOOLEAN
    BY <1>2 DEF ArmBInv, ArmBTypeOK
  <2>2. stream' \in Seq([type : EventTypes, call : 0..Len(asked')]) /\ spent' \in Nat
    BY <1>0, <1>1, <1>5 DEF StreamEvent, n
  <2>3. QED
    BY <1>1, <1>2, <2>1, <2>2 DEF ArmBInv, ArmBTypeOK
<1>7. WriterInv'
  BY <1>2 DEF ArmBInv, WriterInv, Hops
<1>8. SessionInv'
  <2>1. TurnOver = FALSE /\ TurnOver' \in BOOLEAN /\ (type = "end_turn" => TurnOver')
    BY <1>1 DEF TurnOver
  <2>2. Orderly(stream, TurnOver')
    BY <2>1, OrderlyOfMore DEF ArmBInv, SessionInv
  <2>3. Orderly(stream', TurnOver')
    BY <1>0, <1>1, <1>3, <1>4, <2>1, <2>2, OrderKept
  <2>4. left # "idle"
    BY <2>1 DEF ArmBInv, SessionInv
  <2>5. QED
    BY <1>1, <1>2, <2>3, <2>4 DEF ArmBInv, SessionInv
<1>9. HopsInv' /\ AnswerInv'
  BY <1>1, <1>2, <1>5 DEF ArmBInv, HopsInv, AnswerInv, Running, Hops
<1>10. UsageInv'
  BY <1>0, <1>1, <1>2, <1>5 DEF ArmBInv, UsageInv, Running
<1>11. CountInv'
  BY <1>1, <1>2 DEF ArmBInv, CountInv, Running, Counting, Hops
<1>12. QED
  BY <1>6, <1>7, <1>8, <1>9, <1>10, <1>11 DEF ArmBInv

-----------------------------------------------------------------------------
(* The driver's steps.                                                     *)

\* What the next event is, and what is left when it is taken off.
LEMMA TakeFacts ==
  ASSUME ArmBInv, pc = "streaming", stream # <<>>
  PROVE  LET rest == Tail(stream)
             e == Head(stream)
             h == Len(Hops)
             n == Len(asked)
         IN  /\ rest \in Seq(StreamEvent(n)) /\ e \in StreamEvent(n)
             /\ Orderly(rest, TurnOver)
             /\ e.type = "end_turn" => TurnOver
             /\ e.type = "custom_tool_use" =>
                  /\ e.call = h + 1 /\ h + 1 <= n /\ CallsOf(rest) \ {0} = (h + 2)..n
                  /\ waiting \ {e.call} \subseteq CallsOf(rest)
             /\ e.type # "custom_tool_use" =>
                  /\ CallsOf(rest) \ {0} = CallsOf(stream) \ {0}
                  /\ waiting \subseteq CallsOf(rest)
             /\ Cardinality(Spends(rest)) \in Nat
             /\ Cardinality(Spends(rest)) <= Cardinality(Spends(stream))
             /\ e.type = "model_request_end" =>
                  Cardinality(Spends(stream)) = Cardinality(Spends(rest)) + 1
<1> DEFINE rest == Tail(stream)
           e == Head(stream)
           h == Len(Hops)
           n == Len(asked)
<1>0. /\ n \in Nat /\ stream \in Seq(StreamEvent(n)) /\ h \in Nat /\ TurnOver \in BOOLEAN
      /\ Cardinality(Spends(stream)) \in Nat
  BY BTypes DEF TurnOver
<1>1. /\ rest \in Seq(StreamEvent(n)) /\ e \in StreamEvent(n)
      /\ CallsOf(stream) = CallsOf(rest) \union {e.call}
      /\ e.type = "model_request_end" =>
           Cardinality(Spends(stream)) = Cardinality(Spends(rest)) + 1
      /\ e.type # "model_request_end" => Cardinality(Spends(stream)) = Cardinality(Spends(rest))
  BY <1>0, StreamShrinks
<1>2. Orderly(stream, TurnOver)
  BY DEF ArmBInv, SessionInv
<1>3. /\ Orderly(rest, TurnOver)
      /\ e.type = "end_turn" => TurnOver
      /\ e.type = "custom_tool_use" <=> e.call > 0
      /\ e.call > 0 => \A c \in CallsOf(rest) : c > 0 => e.call < c
  BY <1>0, <1>2, OrderOfTail
<1>4. Cardinality(Spends(rest)) \in Nat /\ CallsOf(rest) \subseteq 0..n
  BY <1>0, <1>1, StreamFacts
<1>5. /\ CallsOf(stream) \ {0} = (h + 1)..n /\ h <= n
      /\ waiting \subseteq CallsOf(stream) /\ waiting \subseteq 1..n
  <2>1. Running /\ reply = 0
    BY <1>0 DEF Running, ArmBInv, ArmBTypeOK
  <2>2. waiting \subseteq 1..n /\ 0 \notin 1..n
    BY DEF ArmBInv, ArmBTypeOK
  <2>3. QED
    BY <2>1, <2>2 DEF ArmBInv, HopsInv, AnswerInv
<1>6. e.call \in 0..n
  BY <1>1 DEF StreamEvent
<1> HIDE DEF rest, e, h, n
<1>7. ASSUME e.type = "custom_tool_use"
      PROVE  /\ e.call = h + 1 /\ h + 1 <= n /\ CallsOf(rest) \ {0} = (h + 2)..n
             /\ waiting \ {e.call} \subseteq CallsOf(rest)
  <2>1. e.call > 0 /\ e.call \in (h + 1)..n
    BY <1>0, <1>1, <1>3, <1>5, <1>6, <1>7
  <2>2. h + 1 \in CallsOf(stream) /\ h + 1 > 0
    BY <1>0, <1>5, <2>1
  <2>3. h + 1 = e.call \/ e.call < h + 1
    BY <1>1, <1>3, <2>1, <2>2
  <2>4. e.call = h + 1 /\ h + 1 <= n
    BY <1>0, <2>1, <2>3
  <2>5. e.call \notin CallsOf(rest)
    BY <1>3, <1>6, <2>1
  <2>6. CallsOf(rest) \ {0} = ((h + 1)..n) \ {h + 1}
    BY <1>1, <1>5, <2>4, <2>5
  <2>7. ((h + 1)..n) \ {h + 1} = (h + 2)..n
    BY <1>0
  <2>8. QED
    BY <1>1, <1>5, <2>4, <2>6, <2>7
<1>8. ASSUME e.type # "custom_tool_use"
      PROVE  /\ CallsOf(rest) \ {0} = CallsOf(stream) \ {0} /\ waiting \subseteq CallsOf(rest)
  <2>1. e.call = 0
    BY <1>0, <1>3, <1>6, <1>8
  <2>2. 0 \notin waiting
    BY <1>5
  <2>3. QED
    BY <1>1, <1>5, <2>1, <2>2
<1>9. Cardinality(Spends(rest)) <= Cardinality(Spends(stream))
  BY <1>0, <1>1, <1>4
<1>10. QED
  BY <1>1, <1>3, <1>4, <1>7, <1>8, <1>9 DEF rest, e, h, n

\* The session is created and kicked off, or the attempt fails.
LEMMA CreateStep ==
  ASSUME ArmBInv, CreateSession \/ CreateFails \/ OpenStream
  PROVE  ArmBInv'
<1>1. /\ pc \in {"start", "created"} /\ pc' \in {"created", "streaming", "closing"}
      /\ session \in {"none", "created"} /\ session' \in {"none", "created", "running"}
      /\ pc' = "created" => session' = "created"
      /\ pc' = "streaming" => session' = "running"
      /\ pc' = "closing" => error' = TRUE
      /\ pc' # "closing" => error' = error
      /\ reply' \in {0, reply}
      /\ UNCHANGED <<tw, usage, streamUsage, resolutions, nEvents, left, result, stream, asked,
                     waiting, spent, emits>>
  BY DEF CreateSession, CreateFails, OpenStream, Crash, sessionVars, ArmBInv, SessionInv
<1>2. asked = <<>> /\ stream = <<>> /\ waiting = {}
  BY <1>1 DEF ArmBInv, SessionInv
<1>3. reply = 0 /\ reply' = 0 /\ error \in BOOLEAN /\ error = FALSE
  <2>1. reply \in 0..Len(asked) /\ ~(reply > 0) /\ Len(asked) \in Nat
    BY <1>1, <1>2 DEF ArmBInv, ArmBTypeOK
  <2>2. error \in BOOLEAN /\ ~error
    BY <1>1 DEF ArmBInv, ArmBTypeOK, UsageInv, Running
  <2>3. QED
    BY <1>1, <2>1, <2>2
<1>4. ArmBTypeOK'
  <2>1. error' \in BOOLEAN
    BY <1>1, <1>3, Zenon
  <2>2. pc' \in {"start", "created", "streaming", "replying", "closing", "done", "escaped"}
        /\ session' \in {"none", "created", "running", "over"} /\ pc' # "replying"
    BY <1>1
  <2>3. reply' \in 0..Len(asked) /\ ~(reply' > 0)
    BY <1>3 DEF ArmBInv, ArmBTypeOK
  <2>4. QED
    BY <1>1, <2>1, <2>2, <2>3 DEF ArmBInv, ArmBTypeOK
<1>5. WriterInv'
  BY <1>1 DEF ArmBInv, WriterInv, Hops
<1>6. SessionInv'
  <2>1. TurnOver = FALSE /\ TurnOver' = FALSE
    BY <1>1 DEF TurnOver
  <2>2. Orderly(stream', FALSE) /\ left' # "idle"
    BY <1>1, <2>1 DEF ArmBInv, SessionInv
  <2>3. QED
    BY <1>1, <1>2, <2>1, <2>2 DEF SessionInv
<1>7. HopsInv' /\ AnswerInv'
  BY <1>1, <1>2 DEF ArmBInv, HopsInv, AnswerInv, Running, Hops
<1>8. UsageInv'
  BY <1>1, <1>3 DEF ArmBInv, UsageInv, Running
<1>9. CountInv'
  <2>1. ~Counting /\ ~Counting'
    BY <1>1 DEF Counting
  <2>2. QED
    BY <1>1, <1>3, <2>1 DEF ArmBInv, CountInv, Running, Hops
<1>10. QED
  BY <1>4, <1>5, <1>6, <1>7, <1>8, <1>9 DEF ArmBInv

\* What the loop leaves behind, by an exception or by returning.
LEMMA LeaveStep ==
  ASSUME ArmBInv, pc \in {"created", "streaming", "replying"}, pc' = "closing",
         \/ /\ error' = TRUE /\ reply' = 0 /\ UNCHANGED <<nEvents, streamUsage, left>>
            /\ session' \in IF pc = "created" THEN {session, "running"} ELSE {session}
         \/ /\ pc = "streaming" /\ UNCHANGED <<error, reply, session>>
            /\ streamUsage' = usage /\ nEvents' \in {nEvents, nEvents + 1}
            /\ left' \in {"idle", "ended", "bound", "closed"}
            /\ left' = "idle" => stream # <<>> /\ Head(stream).type = "end_turn",
         stream' \in IF pc = "streaming" /\ stream # <<>> THEN {stream, Tail(stream)} ELSE {stream},
         UNCHANGED <<tw, usage, resolutions, result, asked, waiting, spent, emits>>
  PROVE  ArmBInv'
<1> DEFINE n == Len(asked)
<1>1. /\ n \in Nat /\ stream \in Seq(StreamEvent(n)) /\ usage \in Nat /\ spent \in Nat
      /\ Cardinality(Spends(stream)) \in Nat /\ nEvents \in Nat /\ nEvents <= MaxEvents
      /\ MaxEvents \in Nat /\ Running
  BY BTypes, ArmBAssumption DEF ArmBInv, CountInv, Running
<1>2. /\ stream' \in Seq(StreamEvent(n)) /\ Orderly(stream', TurnOver)
      /\ Cardinality(Spends(stream')) \in Nat
      /\ Cardinality(Spends(stream')) <= Cardinality(Spends(stream))
  <2>1. CASE stream' = stream
    BY <1>1, <2>1 DEF ArmBInv, SessionInv
  <2>2. CASE pc = "streaming" /\ stream # <<>> /\ stream' = Tail(stream)
    BY <2>2, TakeFacts
  <2>3. QED
    BY <2>1, <2>2
<1>3. ~error /\ error \in BOOLEAN
  BY <1>1 DEF ArmBInv, ArmBTypeOK, UsageInv
<1>4. error' \in BOOLEAN
  BY <1>3, Zenon
<1>5. ~(reply' > 0) /\ reply' \in 0..n
  BY <1>1 DEF ArmBInv, ArmBTypeOK
<1>6. /\ session' \in {"none", "created", "running", "over"}
      /\ nEvents' \in 0..(MaxEvents + 1) /\ streamUsage' \in {0, usage}
      /\ left' \in {"no", "idle", "ended", "bound", "closed"}
  <2>1. /\ session \in {"none", "created", "running", "over"}
        /\ streamUsage \in {0, usage}
        /\ left \in {"no", "idle", "ended", "bound", "closed"}
    BY DEF ArmBInv, ArmBTypeOK
  <2>2. nEvents' \in {nEvents, nEvents + 1}
    OBVIOUS
  <2>3. nEvents' \in 0..(MaxEvents + 1)
    BY <1>1, <2>2
  <2>4. QED
    BY <2>1, <2>3
<1>7. ArmBTypeOK'
  <2>1. stream' \in Seq([type : EventTypes, call : 0..Len(asked)])
    BY <1>2 DEF StreamEvent
  <2>2. QED
    BY <1>4, <1>5, <1>6, <2>1 DEF ArmBInv, ArmBTypeOK
<1>8. WriterInv'
  BY DEF ArmBInv, WriterInv, Hops
<1>9. SessionInv'
  <2>1. TurnOver' = TurnOver
    BY DEF TurnOver, ArmBInv, SessionInv
  <2>2. session' \in {"none", "created"} => asked' = <<>> /\ stream' = <<>> /\ waiting' = {}
    BY DEF ArmBInv, SessionInv
  <2>3. left' = "idle" => TurnOver
    BY TakeFacts DEF ArmBInv, SessionInv
  <2>4. QED
    BY <1>2, <2>1, <2>2, <2>3 DEF SessionInv
<1>10. ~Running' /\ HopsInv' /\ AnswerInv'
  BY DEF ArmBInv, HopsInv, AnswerInv, Running, Hops
<1>11. UsageInv'
  <2>1. usage + Cardinality(Spends(stream)) <= spent
    BY DEF ArmBInv, UsageInv
  <2>2. usage' + Cardinality(Spends(stream')) <= spent'
    BY <1>1, <1>2, <2>1
  <2>3. ~error' => streamUsage' = usage
    OBVIOUS
  <2>4. QED
    BY <1>10, <2>2, <2>3 DEF UsageInv
<1>12. CountInv'
  <2>1. ~Counting' /\ (~error' => ~Counting)
    BY DEF Counting
  <2>2. QED
    BY <1>3, <1>10, <2>1 DEF ArmBInv, CountInv, Hops
<1>13. QED
  BY <1>7, <1>8, <1>9, <1>10, <1>11, <1>12 DEF ArmBInv

LEMMA CrashStep ==
  ASSUME ArmBInv, DriveCrashes \/ StreamCloses \/ ExceedBound \/ EndOfTurn \/ Terminated
  PROVE  ArmBInv'
<1>1. CASE DriveCrashes
  BY <1>1, LeaveStep DEF DriveCrashes, Crash
<1>2. CASE StreamCloses
  BY <1>2, LeaveStep DEF StreamCloses, LeaveLoop, sessionVars
<1>3. CASE ExceedBound
  BY <1>3, LeaveStep DEF ExceedBound, LeaveLoop, Take
<1>4. CASE EndOfTurn
  BY <1>4, LeaveStep DEF EndOfTurn, LeaveLoop, Take
<1>5. CASE Terminated
  BY <1>5, LeaveStep DEF Terminated, LeaveLoop, Take
<1>6. QED
  BY <1>1, <1>2, <1>3, <1>4, <1>5

\* The handler's hop is the call's: the next call of the session, under its source.
LEMMA ToolStep ==
  ASSUME ArmBInv, HandleCustomTool
  PROVE  ArmBInv' /\ \E source \in Sources : Hops' = Append(Hops, source)
<1> DEFINE n == Len(asked)
           h == Len(Hops)
           name == asked[h + 1]
           source == SourceOf(name)
           rest == Tail(stream)
<1>1. /\ pc = "streaming" /\ stream # <<>> /\ Head(stream).type = "custom_tool_use"
      /\ stream' = rest /\ nEvents' = nEvents + 1 /\ nEvents < MaxEvents
      /\ UNCHANGED <<error, result, asked, waiting, spent, emits, session,
                     usage, streamUsage, resolutions, left>>
      /\ pc' = "replying" /\ reply' = Head(stream).call
  BY DEF HandleCustomTool, Take, InBounds
<1>2. /\ rest \in Seq(StreamEvent(n)) /\ Orderly(rest, TurnOver)
      /\ Head(stream).call = h + 1 /\ h + 1 <= n /\ CallsOf(rest) \ {0} = (h + 2)..n
      /\ waiting \ {h + 1} \subseteq CallsOf(rest)
      /\ Cardinality(Spends(rest)) \in Nat
      /\ Cardinality(Spends(rest)) <= Cardinality(Spends(stream))
  BY <1>1, TakeFacts
<1>3. /\ n \in Nat /\ h \in Nat /\ tw \in Trace /\ usage \in Nat /\ spent \in Nat
      /\ resolutions \in Nat /\ nEvents \in Nat /\ MaxEvents \in Nat
      /\ Cardinality(Resolved(tw.events)) \in Nat /\ IsFiniteSet(Resolved(tw.events))
      /\ Cardinality(Spends(stream)) \in Nat
  BY BTypes, ArmBAssumption
<1>4. h + 1 \in 1..n /\ name \in ToolNames
  <2>1. h + 1 \in 1..n
    BY <1>2, <1>3
  <2>2. asked \in Seq(ToolNames)
    BY DEF ArmBInv, ArmBTypeOK
  <2>3. QED
    BY <2>1, <2>2, ElementOfSeq
<1>5. /\ source \in Sources /\ (source \in ResolutionTools <=> name \in ResolutionTools)
      /\ name \in Sources => source = name
  BY <1>4, SourceOfName
<1>6. Sound(tw) /\ ~tw.finished /\ tw.turn = 1 /\ tw.turn \in Nat
  BY <1>1 DEF ArmBInv, WriterInv
<1>7. PICK outcome \in {"tool_result", "tool_error"} : tw' = Hop(tw, source, tw.turn, outcome)
  BY <1>1, <1>2, <1>5 DEF HandleCustomTool, RecordHop, RecordHopError
<1> HIDE DEF source, name
<1>8. Hopped(tw, tw', source, tw.turn, outcome) /\ Sound(tw')
  BY <1>3, <1>5, <1>6, <1>7, HopShape, HopKeepsSound
<1>9. /\ tw' \in Trace /\ ~tw'.finished /\ tw'.turn = 1
      /\ Hops' = Append(Hops, source)
  BY <1>6, <1>8 DEF Hopped, Hops
<1>10. /\ Len(Hops') = h + 1 /\ Hops'[h + 1] = source
       /\ \A i \in 1..h : Hops'[i] = Hops[i]
  <2>1. Hops \in Seq(Sources \union {NoSource})
    BY <1>3, TraceType, HopToolsType DEF Hops
  <2>2. QED
    BY <1>5, <1>9, <2>1, AppendProperties
<1> DEFINE r  == Cardinality(Resolved(tw.events))
           r2 == Cardinality(Resolved(tw'.events))
<1>11. /\ name \in ResolutionTools => r2 = r + 1
       /\ name \notin ResolutionTools => r2 = r
  BY <1>3, <1>5, <1>6, <1>8, ResolvedOfHop
<1>12. reply' = h + 1
  BY <1>1, <1>2
<1> HIDE DEF rest
<1>13. ArmBTypeOK'
  <2>1. error' \in BOOLEAN
    BY <1>1 DEF ArmBInv, ArmBTypeOK
  <2>2. stream' \in Seq([type : EventTypes, call : 0..Len(asked')])
    BY <1>1, <1>2 DEF StreamEvent
  <2>3. nEvents' \in 0..(MaxEvents + 1)
    BY <1>1, <1>3
  <2>4. reply' \in 0..Len(asked') /\ reply' > 0 /\ pc' = "replying"
    BY <1>1, <1>3, <1>4, <1>12
  <2>5. QED
    BY <1>1, <1>9, <2>1, <2>2, <2>3, <2>4 DEF ArmBInv, ArmBTypeOK
<1>14. WriterInv'
  BY <1>1, <1>8, <1>9 DEF WriterInv
<1>15. SessionInv'
  <2>1. TurnOver' = TurnOver /\ session \notin {"none", "created"}
    <3>1. n # 0
      BY <1>3, <1>4
    <3>2. QED
      BY <1>1, <3>1 DEF TurnOver, ArmBInv, SessionInv
  <2>2. QED
    BY <1>1, <1>2, <2>1 DEF ArmBInv, SessionInv
<1>16. HopsInv'
  <2>1. \A i \in 1..(h + 1) : i \in 1..h \/ i = h + 1
    BY <1>3
  <2>2. \A i \in 1..h : Hops[i] = SourceOf(asked[i])
    BY DEF ArmBInv, HopsInv
  <2>3. \A i \in 1..(h + 1) : Hops'[i] = SourceOf(asked[i])
    BY <1>10, <2>1, <2>2 DEF source, name
  <2>4. CallsOf(stream') \ {0} = (Len(Hops') + 1)..Len(asked')
    <3>1. (h + 1) + 1 = h + 2
      BY <1>3
    <3>2. QED
      BY <1>1, <1>2, <1>10, <3>1
  <2>5. QED
    BY <1>1, <1>2, <1>10, <1>12, <2>3, <2>4 DEF HopsInv
<1>17. AnswerInv'
  BY <1>1, <1>2, <1>12 DEF AnswerInv
<1>18. UsageInv'
  <2>1. Running /\ usage + Cardinality(Spends(stream)) <= spent
    BY <1>1 DEF ArmBInv, UsageInv, Running
  <2>2. usage' + Cardinality(Spends(stream')) <= spent'
    BY <1>1, <1>2, <1>3, <2>1
  <2>3. Running'
    BY <1>1 DEF Running
  <2>4. QED
    BY <1>1, <2>1, <2>2, <2>3 DEF ArmBInv, UsageInv
<1>19. CountInv'
  <2>1. Counting' <=> name \in ResolutionTools
    BY <1>1, <1>12 DEF Counting, name
  <2>2. ~Counting /\ ~error /\ Running
    BY <1>1 DEF Counting, ArmBInv, UsageInv, Running
  <2>3. resolutions = r /\ resolutions <= h
    BY <2>2 DEF ArmBInv, CountInv
  <2> HIDE DEF r, r2, h
  <2>4. resolutions' <= Len(Hops') /\ nEvents' <= MaxEvents
    BY <1>1, <1>3, <1>10, <2>3
  <2>5. /\ ~error' /\ Counting' => resolutions' + 1 = r2
        /\ ~error' /\ ~Counting' => resolutions' = r2
    BY <1>1, <1>3, <1>11, <2>1, <2>3 DEF r
  <2>6. QED
    BY <2>4, <2>5 DEF CountInv, r2
<1>20. QED
  BY <1>5, <1>9, <1>13, <1>14, <1>15, <1>16, <1>17, <1>18, <1>19 DEF ArmBInv

\* The answer leaves, and the session waits for it no longer.
LEMMA SendStep ==
  ASSUME ArmBInv, SendResult
  PROVE  ArmBInv'
<1> DEFINE h == Len(Hops)
           r == Cardinality(Resolved(tw.events))
<1>1. /\ pc = "replying" /\ waiting' = waiting \ {reply}
      /\ asked[reply] \in ResolutionTools => resolutions' = resolutions + 1
      /\ asked[reply] \notin ResolutionTools => resolutions' = resolutions
      /\ pc' = "streaming" /\ reply' = 0
      /\ UNCHANGED <<tw, usage, streamUsage, nEvents, error, left, result, stream, asked,
                     spent, emits, session>>
  <2>1. resolutions \in Nat
    BY BTypes
  <2>2. resolutions + 0 = resolutions
    BY <2>1
  <2>3. QED
    BY <2>2 DEF SendResult
<1>2. /\ h \in Nat /\ resolutions \in Nat /\ r \in Nat /\ r <= h /\ Len(asked) \in Nat
      /\ h <= Len(asked)
  BY BTypes DEF ArmBInv, HopsInv
<1>3. ~error /\ Running /\ Running'
  BY <1>1 DEF ArmBInv, UsageInv, Running
<1> HIDE DEF h, r
<1>4. /\ asked[reply] \in ResolutionTools => resolutions + 1 = r
      /\ asked[reply] \notin ResolutionTools => resolutions = r
  BY <1>1, <1>3 DEF ArmBInv, CountInv, Counting, r
<1>5. resolutions' = r /\ resolutions' \in 0..Len(asked) /\ resolutions' <= h
  BY <1>1, <1>2, <1>4
<1>6. ArmBTypeOK'
  <2>1. error' \in BOOLEAN
    BY <1>1 DEF ArmBInv, ArmBTypeOK
  <2>2. reply' \in 0..Len(asked') /\ ~(reply' > 0) /\ pc' # "replying"
    BY <1>1, <1>2
  <2>3. QED
    BY <1>1, <1>5, <2>1, <2>2 DEF ArmBInv, ArmBTypeOK
<1>7. WriterInv'
  BY <1>1 DEF ArmBInv, WriterInv
<1>8. SessionInv'
  <2>1. TurnOver => TurnOver'
    BY <1>1 DEF TurnOver
  <2>2. Orderly(stream, TurnOver')
    BY <2>1, OrderlyOfMore DEF ArmBInv, SessionInv, TurnOver
  <2>3. session \in {"none", "created"} => waiting' = {}
    BY <1>1 DEF ArmBInv, SessionInv
  <2>4. QED
    BY <1>1, <2>1, <2>2, <2>3 DEF ArmBInv, SessionInv
<1>9. HopsInv' /\ AnswerInv'
  BY <1>1, <1>3 DEF ArmBInv, HopsInv, AnswerInv, Hops
<1>10. UsageInv'
  BY <1>1, <1>3 DEF ArmBInv, UsageInv
<1>11. CountInv'
  <2>1. ~Counting'
    BY <1>1 DEF Counting
  <2>2. nEvents' <= MaxEvents
    BY <1>1, <1>3 DEF ArmBInv, CountInv
  <2>3. Len(Hops') = h /\ Cardinality(Resolved(tw'.events)) = r
    BY <1>1 DEF Hops, h, r
  <2>4. QED
    BY <1>5, <2>1, <2>2, <2>3 DEF CountInv
<1>12. QED
  BY <1>6, <1>7, <1>8, <1>9, <1>10, <1>11 DEF ArmBInv

\* Any other event moves at most its tokens from the stream to the driver.
LEMMA TakesStep ==
  ASSUME ArmBInv, TakeMessage \/ AddUsage \/ KeepStreaming
  PROVE  ArmBInv'
<1> DEFINE n == Len(asked)
           rest == Tail(stream)
           e == Head(stream)
<1>1. /\ pc = "streaming" /\ stream # <<>> /\ e.type # "custom_tool_use"
      /\ stream' = rest /\ nEvents' = nEvents + 1 /\ nEvents < MaxEvents
      /\ UNCHANGED <<pc, tw, streamUsage, resolutions, reply, left, error, result, asked,
                     waiting, spent, emits, session>>
      /\ \/ usage' = usage
         \/ usage' = usage + 1 /\ e.type = "model_request_end"
  BY DEF TakeMessage, AddUsage, KeepStreaming, Take, InBounds
<1>2. /\ rest \in Seq(StreamEvent(n)) /\ Orderly(rest, TurnOver)
      /\ CallsOf(rest) \ {0} = CallsOf(stream) \ {0} /\ waiting \subseteq CallsOf(rest)
      /\ Cardinality(Spends(rest)) \in Nat
      /\ Cardinality(Spends(rest)) <= Cardinality(Spends(stream))
      /\ e.type = "model_request_end" =>
           Cardinality(Spends(stream)) = Cardinality(Spends(rest)) + 1
  BY <1>1, TakeFacts
<1>3. /\ n \in Nat /\ usage \in Nat /\ spent \in Nat /\ nEvents \in Nat /\ MaxEvents \in Nat
      /\ Cardinality(Spends(stream)) \in Nat /\ Running
  BY <1>1, BTypes, ArmBAssumption DEF Running
<1>4. reply = 0 /\ streamUsage = 0 /\ ~error
  <2>1. reply \in 0..n /\ ~(reply > 0)
    BY <1>1 DEF ArmBInv, ArmBTypeOK
  <2>2. QED
    BY <1>3, <2>1 DEF ArmBInv, UsageInv
<1> HIDE DEF rest, e
<1>5. ArmBTypeOK'
  <2>1. error' \in BOOLEAN
    BY <1>1 DEF ArmBInv, ArmBTypeOK
  <2>2. stream' \in Seq([type : EventTypes, call : 0..Len(asked')])
    BY <1>1, <1>2 DEF StreamEvent
  <2>3. nEvents' \in 0..(MaxEvents + 1) /\ usage' \in Nat /\ streamUsage' \in {0, usage'}
    BY <1>1, <1>3, <1>4
  <2>4. QED
    BY <1>1, <2>1, <2>2, <2>3 DEF ArmBInv, ArmBTypeOK
<1>6. WriterInv'
  BY <1>1 DEF ArmBInv, WriterInv, Hops
<1>7. SessionInv'
  <2>1. session \in {"none", "created"} => FALSE
    BY <1>1 DEF ArmBInv, SessionInv
  <2>2. TurnOver' = TurnOver
    BY <1>1 DEF TurnOver
  <2>3. QED
    BY <1>1, <1>2, <2>1, <2>2 DEF ArmBInv, SessionInv
<1>8. HopsInv' /\ AnswerInv'
  <2>1. Hops' = Hops /\ Running'
    BY <1>1 DEF Hops, Running
  <2>2. HopsInv'
    BY <1>1, <1>2, <1>3, <2>1 DEF ArmBInv, HopsInv
  <2>3. AnswerInv'
    BY <1>1, <1>2 DEF AnswerInv
  <2>4. QED
    BY <2>2, <2>3
<1>9. UsageInv'
  <2>1. usage + Cardinality(Spends(stream)) <= spent
    BY DEF ArmBInv, UsageInv
  <2>2. usage' + Cardinality(Spends(stream')) <= spent'
    BY <1>1, <1>2, <1>3, <2>1
  <2>3. Running'
    BY <1>1 DEF Running
  <2>4. QED
    BY <1>1, <1>4, <2>2, <2>3 DEF UsageInv
<1>10. CountInv'
  <2>1. ~Counting /\ ~Counting'
    BY <1>1 DEF Counting
  <2>2. nEvents' <= MaxEvents
    BY <1>1, <1>3
  <2>3. QED
    BY <1>1, <1>3, <2>1, <2>2 DEF ArmBInv, CountInv, Hops
<1>11. QED
  BY <1>5, <1>6, <1>7, <1>8, <1>9, <1>10 DEF ArmBInv

\* The accounting turn and the end, with the tokens the result reports.
LEMMA CloseFacts ==
  ASSUME ArmBInv, NEW retrieved \in BOOLEAN, Close(retrieved)
  PROVE  /\ Sound(tw') /\ tw'.finished /\ tw'.turn = 2 /\ tw'.tool_calls = tw.tool_calls
         /\ Hops' = Hops /\ Uses(tw'.events) = Uses(tw.events)
         /\ Resolved(tw'.events) = Resolved(tw.events)
         /\ tw'.events[Len(tw'.events) - 1].tokens = Tokens(retrieved)
         /\ Tokens(retrieved) \in Nat /\ Tokens(retrieved) <= spent
         /\ Tokens(retrieved) >= usage \/ (error /\ ~retrieved)
<1>1. /\ pc = "closing" /\ tw' = Finish(RecordTurn(tw, Tokens(retrieved)))
      /\ ~Running
  BY DEF Close, Running
<1>2. /\ tw \in Trace /\ Sound(tw) /\ ~tw.finished /\ tw.turn = 1
      /\ usage \in Nat /\ spent \in Nat /\ Cardinality(Spends(stream)) \in Nat
  BY <1>1, BTypes DEF ArmBInv, WriterInv
<1>3. /\ streamUsage \in {0, usage} /\ (~error => streamUsage = usage) /\ usage <= spent
  <2>1. streamUsage \in {0, usage} /\ (~error => streamUsage = usage)
    BY <1>1 DEF ArmBInv, ArmBTypeOK, UsageInv
  <2>2. usage + Cardinality(Spends(stream)) <= spent
    BY DEF ArmBInv, UsageInv
  <2>3. QED
    BY <1>2, <2>1, <2>2
<1> DEFINE k == Tokens(retrieved)
<1>4. /\ retrieved /\ spent > 0 => k = spent
      /\ ~(retrieved /\ spent > 0) => k = streamUsage
  BY DEF Tokens
<1> HIDE DEF k
<1>5. k \in Nat /\ k <= spent
  BY <1>2, <1>3, <1>4
<1>6. k >= usage \/ (error /\ ~retrieved)
  BY <1>2, <1>3, <1>4
<1> DEFINE mid == RecordTurn(tw, k)
<1>7. TurnTaken(tw, mid, k) /\ Sound(mid)
  BY <1>2, <1>5, TurnShape, TurnKeepsSound
<1>8. mid \in Trace /\ ~mid.finished /\ tw' = Finish(mid)
  BY <1>1, <1>2, <1>7 DEF TurnTaken, k
<1> HIDE DEF mid
<1>9. Ended(mid, tw') /\ Sound(tw')
  BY <1>7, <1>8, FinishShape, FinishKeepsSound
<1>10. Len(tw.events) \in Nat
  BY <1>2, TraceType
<1>11. /\ Len(mid.events) = Len(tw.events) + 1 /\ Len(tw'.events) = Len(mid.events) + 1
       /\ \A i \in 1..Len(mid.events) : tw'.events[i] = mid.events[i]
       /\ \A i \in 1..Len(tw.events) : mid.events[i] = tw.events[i]
       /\ mid.events[Len(tw.events) + 1].tokens = k
       /\ mid.turn = tw.turn + 1 /\ tw'.turn = mid.turn
       /\ tw'.tool_calls = mid.tool_calls /\ mid.tool_calls = tw.tool_calls
       /\ tw'.finished
  BY <1>7, <1>9 DEF TurnTaken, Ended
<1>12. /\ Uses(mid.events) = Uses(tw.events) /\ Uses(tw'.events) = Uses(mid.events)
       /\ HopTools(mid.events) = HopTools(tw.events)
       /\ HopTools(tw'.events) = HopTools(mid.events)
  BY <1>7, <1>9 DEF TurnTaken, Ended
<1>13. tw'.events[Len(tw'.events) - 1].tokens = k
  <2>1. /\ Len(tw'.events) - 1 = Len(tw.events) + 1
        /\ Len(tw.events) + 1 \in 1..Len(mid.events)
    BY <1>10, <1>11
  <2>2. QED
    BY <1>11, <2>1
<1>14. \A i \in 1..Len(tw.events) : tw'.events[i] = tw.events[i]
  <2>1. \A i \in 1..Len(tw.events) : i \in 1..Len(mid.events)
    BY <1>10, <1>11
  <2>2. QED
    BY <1>11, <2>1
<1>15. Resolved(tw'.events) = Resolved(tw.events)
  BY <1>2, <1>12, <1>14, ResolvedSame
<1>16. tw'.turn = 2
  BY <1>2, <1>11
<1>17. QED
  BY <1>5, <1>6, <1>9, <1>11, <1>12, <1>13, <1>15, <1>16 DEF k, Hops

LEMMA CloseStep ==
  ASSUME ArmBInv, NEW retrieved \in BOOLEAN, Close(retrieved)
  PROVE  ArmBInv' /\ ResultMatchesTrace' /\ TokensNeverOvercounted'
<1>1. /\ Sound(tw') /\ tw'.finished /\ tw'.turn = 2 /\ tw'.tool_calls = tw.tool_calls
      /\ Hops' = Hops /\ Uses(tw'.events) = Uses(tw.events)
      /\ Resolved(tw'.events) = Resolved(tw.events)
      /\ tw'.events[Len(tw'.events) - 1].tokens = Tokens(retrieved)
      /\ Tokens(retrieved) \in Nat /\ Tokens(retrieved) <= spent
      /\ Tokens(retrieved) >= usage \/ (error /\ ~retrieved)
  BY CloseFacts
<1>2. /\ pc = "closing" /\ pc' = "done" /\ ~Running /\ ~Running'
      /\ result' = [depth |-> DepthReached(tw'), tokens |-> Tokens(retrieved),
                    resolutions |-> IF error THEN 0 ELSE resolutions,
                    retrieved |-> retrieved, error |-> error]
      /\ UNCHANGED <<usage, streamUsage, resolutions, nEvents, reply, error, left, stream,
                     asked, waiting, spent, emits, session>>
  BY DEF Close, Running, sessionVars
<1>3. /\ resolutions \in Nat /\ tw'.tool_calls \in Nat /\ tw' \in Trace
      /\ Cardinality(Uses(tw'.events)) = tw'.tool_calls
  BY <1>1, TraceType, BTypes DEF Sound
<1>4. error \in BOOLEAN /\ error' = error
  BY <1>2 DEF ArmBInv, ArmBTypeOK
<1> HIDE DEF Tokens
<1>5. /\ result'.depth = tw'.tool_calls /\ result'.tokens = Tokens(retrieved)
      /\ error => result'.resolutions = 0
      /\ ~error => result'.resolutions = resolutions
      /\ result'.retrieved = retrieved /\ result'.error = error
  BY <1>2 DEF DepthReached
<1>6. result' \in [depth : Nat, resolutions : Nat, tokens : Nat, retrieved : BOOLEAN,
                   error : BOOLEAN]
  <2>1. (IF error THEN 0 ELSE resolutions) \in Nat
    BY <1>3
  <2>2. QED
    BY <1>1, <1>2, <1>3, <1>4, <2>1, Zenon DEF DepthReached
<1>7. ArmBTypeOK'
  <2>1. error' \in BOOLEAN
    BY <1>4
  <2>2. ~(reply' > 0)
    BY <1>2 DEF ArmBInv, ArmBTypeOK
  <2>3. QED
    BY <1>2, <1>3, <1>6, <2>1, <2>2 DEF ArmBInv, ArmBTypeOK
<1>8. WriterInv' /\ HopsInv' /\ AnswerInv'
  BY <1>1, <1>2 DEF ArmBInv, WriterInv, HopsInv, AnswerInv
<1>9. SessionInv' /\ UsageInv'
  <2>1. TurnOver' = TurnOver
    BY <1>2 DEF TurnOver
  <2>2. SessionInv'
    BY <1>2, <2>1 DEF ArmBInv, SessionInv
  <2>3. UsageInv'
    BY <1>2, <1>4 DEF ArmBInv, UsageInv
  <2>4. QED
    BY <2>2, <2>3
<1>10. ~Counting /\ ~Counting'
  BY <1>2 DEF Counting
<1>11. CountInv'
  BY <1>1, <1>2, <1>4, <1>10 DEF ArmBInv, CountInv
<1>12. ~error => resolutions = Cardinality(Resolved(tw'.events))
  BY <1>1, <1>10 DEF ArmBInv, CountInv
<1>13. ResultMatchesTrace'
  <2>1. /\ result'.error => result'.resolutions = 0
        /\ ~result'.error => result'.resolutions = Cardinality(Resolved(tw'.events))
    BY <1>5, <1>12
  <2>2. /\ tw'.finished /\ tw'.turn = 2
        /\ result'.depth = Cardinality(Uses(tw'.events))
        /\ tw'.events[Len(tw'.events) - 1].tokens = result'.tokens
    BY <1>1, <1>3, <1>5
  <2>3. QED
    BY <2>1, <2>2 DEF ResultMatchesTrace, Resolved
<1>14. TokensNeverOvercounted'
  BY <1>1, <1>2, <1>5 DEF TokensNeverOvercounted
<1>15. QED
  BY <1>7, <1>8, <1>9, <1>11, <1>13, <1>14 DEF ArmBInv

\* The exception leaves everything as it is, for the caller.
LEMMA EscapeStep ==
  ASSUME ArmBInv, CloseEscapes
  PROVE  ArmBInv'
<1>1. /\ pc = "closing" /\ pc' = "escaped" /\ ~Running /\ ~Running'
      /\ UNCHANGED <<tw, usage, streamUsage, resolutions, nEvents, reply, error, left, result,
                     stream, asked, waiting, spent, emits, session>>
  BY DEF CloseEscapes, Running, sessionVars
<1>2. ArmBTypeOK'
  <2>1. error' \in BOOLEAN
    BY <1>1 DEF ArmBInv, ArmBTypeOK
  <2>2. ~(reply' > 0)
    BY <1>1 DEF ArmBInv, ArmBTypeOK
  <2>3. QED
    BY <1>1, <2>1, <2>2 DEF ArmBInv, ArmBTypeOK
<1>3. WriterInv' /\ HopsInv' /\ AnswerInv'
  BY <1>1 DEF ArmBInv, WriterInv, HopsInv, AnswerInv, Hops
<1>4. SessionInv' /\ UsageInv'
  <2>1. TurnOver' = TurnOver
    BY <1>1 DEF TurnOver
  <2>2. QED
    BY <1>1, <2>1 DEF ArmBInv, SessionInv, UsageInv
<1>5. CountInv'
  <2>1. ~Counting /\ ~Counting'
    BY <1>1 DEF Counting
  <2>2. QED
    BY <1>1, <2>1 DEF ArmBInv, CountInv, Hops
<1>6. QED
  BY <1>2, <1>3, <1>4, <1>5 DEF ArmBInv

LEMMA ArmBStep == ArmBInv /\ [ArmBNext]_armBVars => ArmBInv'
<1> SUFFICES ASSUME ArmBInv, [ArmBNext]_armBVars PROVE ArmBInv'
  OBVIOUS
<1>1. CASE CreateSession \/ CreateFails \/ OpenStream
  BY <1>1, CreateStep
<1>2. CASE DriveCrashes \/ StreamCloses \/ ExceedBound \/ EndOfTurn \/ Terminated
  BY <1>2, CrashStep
<1>3. CASE HandleCustomTool
  BY <1>3, ToolStep
<1>4. CASE SendResult
  BY <1>4, SendStep
<1>5. CASE TakeMessage \/ AddUsage \/ KeepStreaming
  BY <1>5, TakesStep
<1>6. CASE \E retrieved \in BOOLEAN : Close(retrieved)
  BY <1>6, CloseStep
<1>7. CASE CloseEscapes
  BY <1>7, EscapeStep
<1>8. CASE \E name \in ToolNames : SessionCalls(name)
  BY <1>8, CallsStep
<1>9. CASE SessionSpeaks \/ SessionSpends \/ SessionWaits \/ SessionEndsTurn \/ SessionTerminates
  BY <1>9, SpeaksStep
<1>10. CASE UNCHANGED armBVars
  BY <1>10 DEF armBVars, driverVars, sessionVars, ArmBInv, ArmBTypeOK, WriterInv, SessionInv,
               HopsInv, AnswerInv, UsageInv, CountInv, TurnOver, Running, Hops, Counting
<1>11. QED
  BY <1>1, <1>2, <1>3, <1>4, <1>5, <1>6, <1>7, <1>8, <1>9, <1>10
     DEF ArmBNext, Driver, Session

LEMMA ArmBInvariant == ArmBSpec => []ArmBInv
BY BInit, ArmBStep, PTL DEF ArmBSpec

-----------------------------------------------------------------------------
(* The theorems.                                                           *)

\* The driver's state has the types the code gives it, and its counters stay within
\* what the session has done.
THEOREM ArmBTypeCorrect == ArmBSpec => []ArmBTypeOK
<1>1. ArmBInv => ArmBTypeOK
  BY DEF ArmBInv
<1>2. QED
  BY <1>1, ArmBInvariant, PTL

\* Each call the session still waits on is in the stream when the driver reads it,
\* and only the end of the session's turn, with nothing owed, is taken as its end.
THEOREM ArmBServesTheSession == ArmBSpec => []SessionIsServed
<1>1. ArmBInv => SessionIsServed
  <2> SUFFICES ASSUME ArmBInv PROVE SessionIsServed
    OBVIOUS
  <2>1. pc = "streaming" => waiting \subseteq CallsOf(stream)
    <3> SUFFICES ASSUME pc = "streaming" PROVE waiting \subseteq CallsOf(stream)
      OBVIOUS
    <3>1. reply = 0 /\ waiting \subseteq 1..Len(asked) /\ Len(asked) \in Nat
      BY BTypes DEF ArmBInv, ArmBTypeOK
    <3>2. waiting \ {reply} = waiting
      BY <3>1
    <3>3. QED
      BY <3>2 DEF ArmBInv, AnswerInv, Running
  <2>2. QED
    BY <2>1 DEF ArmBInv, SessionInv, TurnOver, SessionIsServed, Unread, CallsOf
<1>2. QED
  BY <1>1, ArmBInvariant, PTL

\* A call that is not read yet is still waited on, so that a turn over with nothing
\* owed leaves none unread: a run left on idle has them all in its trace.
CompleteInv ==
  /\ Running => left = "no"
  /\ Running => CallsOf(stream) \ {0} \subseteq waiting
  /\ left = "idle" => Len(Hops) = Len(asked)

\* The session goes on only while the driver has not left on idle.
LEMMA CompleteSession ==
  ASSUME ArmBInv, CompleteInv, Session
  PROVE  CompleteInv'
<1>1. session = "running" /\ UNCHANGED <<pc, tw, left>>
  BY DEF Session, SessionCalls, SessionSpeaks, SessionSpends, SessionWaits,
         SessionEndsTurn, SessionTerminates, Live, driverVars
<1>2. left' # "idle"
  BY <1>1 DEF ArmBInv, SessionInv, TurnOver
<1>3. Len(asked) \in Nat /\ stream \in Seq(StreamEvent(Len(asked)))
  BY BTypes
<1>4. ASSUME Running PROVE CallsOf(stream') \ {0} \subseteq waiting'
  <2>1. CallsOf(stream) \ {0} \subseteq waiting
    BY <1>4 DEF CompleteInv
  <2>2. ASSUME NEW name \in ToolNames, SessionCalls(name)
        PROVE  CallsOf(stream') \ {0} \subseteq waiting'
    <3> DEFINE m == Len(asked) + 1
               e == Event("custom_tool_use", m)
    <3>1. /\ Len(asked') = m /\ waiting' = waiting \union {m} /\ stream' = Append(stream, e)
      <4>1. asked' = Append(asked, name) /\ asked \in Seq(ToolNames)
        BY <2>2 DEF SessionCalls, ArmBInv, ArmBTypeOK
      <4>2. Len(asked') = m
        BY <4>1, AppendProperties
      <4>3. QED
        BY <2>2, <4>2 DEF SessionCalls, Emit
    <3>2. e \in StreamEvent(m) /\ e.call = m /\ m \in Nat
      BY <1>3 DEF Event, StreamEvent, EventTypes
    <3>3. stream \in Seq(StreamEvent(m))
      BY <1>3, StreamWidens
    <3> HIDE DEF e, m
    <3>4. CallsOf(Append(stream, e)) = CallsOf(stream) \union {m}
      BY <3>2, <3>3, StreamGrows
    <3>5. QED
      BY <2>1, <3>1, <3>4
  <2>3. ASSUME SessionSpeaks \/ SessionSpends \/ SessionWaits \/ SessionEndsTurn
                 \/ SessionTerminates
        PROVE  CallsOf(stream') \ {0} \subseteq waiting'
    <3>1. PICK type \in EventTypes : stream' = Append(stream, Event(type, 0))
      BY <2>3 DEF SessionSpeaks, SessionSpends, SessionWaits, SessionEndsTurn,
                  SessionTerminates, Emit, EventTypes
    <3> DEFINE e == Event(type, 0)
    <3>2. e \in StreamEvent(Len(asked)) /\ e.call = 0
      BY <1>3 DEF Event, StreamEvent
    <3>3. waiting' = waiting
      BY <2>3 DEF SessionSpeaks, SessionSpends, SessionWaits, SessionEndsTurn,
                  SessionTerminates
    <3> HIDE DEF e
    <3>4. CallsOf(Append(stream, e)) = CallsOf(stream) \union {0}
      BY <1>3, <3>2, StreamGrows
    <3>5. stream' = Append(stream, e)
      BY <3>1 DEF e
    <3>6. QED
      BY <2>1, <3>3, <3>4, <3>5
  <2>4. QED
    BY <2>2, <2>3 DEF Session
<1>5. Running' <=> Running
  BY <1>1 DEF Running
<1>6. CallsOf(stream)' = CallsOf(stream')
  BY DEF CallsOf
<1>7. QED
  BY <1>1, <1>2, <1>4, <1>5, <1>6 DEF CompleteInv

\* What the driver takes off the stream was the next call, and it answers a call only
\* when it has recorded it.
LEMMA CompleteRead ==
  ASSUME ArmBInv, CompleteInv,
         HandleCustomTool \/ SendResult \/ TakeMessage \/ AddUsage \/ KeepStreaming
  PROVE  CompleteInv'
<1>1. /\ pc \in {"streaming", "replying"} /\ pc' \in {"streaming", "replying"}
      /\ left' = left
  BY DEF HandleCustomTool, SendResult, TakeMessage, AddUsage, KeepStreaming, Take
<1>2. Running /\ Running' /\ left = "no"
  BY <1>1 DEF Running, CompleteInv
<1>3. CallsOf(stream) \ {0} \subseteq waiting
  BY <1>2 DEF CompleteInv
<1>4. CASE SendResult
  <2>1. pc = "replying" /\ waiting' = waiting \ {reply} /\ stream' = stream
    BY <1>4 DEF SendResult
  <2>2. reply = Len(Hops) /\ CallsOf(stream) \ {0} = (Len(Hops) + 1)..Len(asked)
    BY <1>2, <2>1 DEF ArmBInv, HopsInv
  <2>3. Len(Hops) \in Nat /\ Len(asked) \in Nat
    BY BTypes
  <2>4. reply \notin CallsOf(stream) \ {0}
    BY <2>2, <2>3
  <2>5. CallsOf(stream') \ {0} \subseteq waiting'
    BY <1>3, <2>1, <2>4
  <2>6. CallsOf(stream)' = CallsOf(stream')
    BY DEF CallsOf
  <2>7. QED
    BY <1>1, <1>2, <2>5, <2>6 DEF CompleteInv
<1>5. CASE HandleCustomTool \/ TakeMessage \/ AddUsage \/ KeepStreaming
  <2>1. stream # <<>> /\ stream' = Tail(stream) /\ waiting' = waiting
    BY <1>5 DEF HandleCustomTool, TakeMessage, AddUsage, KeepStreaming, Take
  <2>2. CallsOf(Tail(stream)) \subseteq CallsOf(stream)
    BY <2>1, BTypes, StreamShrinks
  <2>3. CallsOf(stream') \ {0} \subseteq waiting'
    BY <1>3, <2>1, <2>2
  <2>4. CallsOf(stream)' = CallsOf(stream')
    BY DEF CallsOf
  <2>5. QED
    BY <1>1, <1>2, <2>3, <2>4 DEF CompleteInv
<1>6. QED
  BY <1>4, <1>5

LEMMA CompleteStep == ArmBInv /\ CompleteInv /\ [ArmBNext]_armBVars => CompleteInv'
<1> SUFFICES ASSUME ArmBInv, CompleteInv, [ArmBNext]_armBVars PROVE CompleteInv'
  OBVIOUS
<1>1. CASE CreateSession \/ OpenStream \/ CloseEscapes \/ UNCHANGED armBVars
  <2>1. UNCHANGED <<tw, left, stream, asked, waiting>> /\ (Running' => Running)
    BY <1>1 DEF CreateSession, OpenStream, CloseEscapes, armBVars, driverVars, sessionVars,
                Running
  <2>2. QED
    BY <2>1 DEF CompleteInv, Hops
<1>2. CASE CreateFails \/ DriveCrashes
  <2>1. UNCHANGED <<tw, left, asked>> /\ ~Running'
    BY <1>2 DEF CreateFails, DriveCrashes, Crash, sessionVars, Running
  <2>2. QED
    BY <2>1 DEF CompleteInv, Hops
<1>3. CASE StreamCloses \/ ExceedBound \/ Terminated
  <2>1. left' # "idle" /\ ~Running'
    BY <1>3 DEF StreamCloses, ExceedBound, Terminated, LeaveLoop, Running
  <2>2. QED
    BY <2>1 DEF CompleteInv
<1>4. CASE EndOfTurn
  <2>1. pc = "streaming" /\ stream # <<>> /\ Head(stream).type = "end_turn"
    BY <1>4 DEF EndOfTurn, Take
  <2>2. TurnOver /\ Running
    BY <2>1, TakeFacts DEF Running
  <2>3. (Len(Hops) + 1)..Len(asked) = {}
    BY <2>2 DEF CompleteInv, ArmBInv, HopsInv, TurnOver
  <2>4. Len(Hops) <= Len(asked) /\ Len(Hops) \in Nat /\ Len(asked) \in Nat
    BY BTypes DEF ArmBInv, HopsInv
  <2>5. Len(Hops) = Len(asked)
    BY <2>3, <2>4
  <2>6. UNCHANGED <<tw, asked>> /\ ~Running'
    BY <1>4 DEF EndOfTurn, LeaveLoop, Take, Running
  <2>7. QED
    BY <2>5, <2>6 DEF CompleteInv, Hops
<1>5. ASSUME NEW retrieved \in BOOLEAN, Close(retrieved) PROVE CompleteInv'
  <2>1. Hops' = Hops
    BY <1>5, CloseFacts
  <2>2. UNCHANGED <<left, asked>> /\ ~Running'
    BY <1>5 DEF Close, sessionVars, Running
  <2>3. QED
    BY <2>1, <2>2 DEF CompleteInv
<1>6. QED
  BY <1>1, <1>2, <1>3, <1>4, <1>5, CompleteSession, CompleteRead DEF ArmBNext, Driver

LEMMA CompleteInvariant == ArmBSpec => [](ArmBInv /\ CompleteInv)
<1>1. ArmBInit => CompleteInv
  <2> SUFFICES ASSUME ArmBInit PROVE CompleteInv
    OBVIOUS
  <2>1. stream = <<>> /\ left = "no"
    BY DEF ArmBInit
  <2>2. CallsOf(stream) = {}
    BY <2>1 DEF CallsOf
  <2>3. QED
    BY <2>1, <2>2 DEF CompleteInv
<1>2. QED
  BY <1>1, CompleteStep, ArmBInvariant, PTL DEF ArmBSpec

\* The trace is well formed and its hops are the session's calls, in the session's
\* order; the calls without a hop are the ones not read yet, and a run left on idle
\* has none of those.
THEOREM ArmBTraceFollowsSession == ArmBSpec => []TraceFollowsSession
<1>1. ArmBInv /\ CompleteInv => TraceFollowsSession
  <2> SUFFICES ASSUME ArmBInv, CompleteInv PROVE TraceFollowsSession
    OBVIOUS
  <2> DEFINE h == Len(Hops)
             n == Len(asked)
  <2>1. WellFormed(tw) /\ h <= n /\ \A i \in 1..Len(Hops) : Hops[i] = SourceOf(asked[i])
    BY DEF ArmBInv, WriterInv, HopsInv, Sound
  <2>2. h \in Nat /\ n \in Nat
    BY BTypes
  <2>3. pc \in {"streaming", "replying"} => CallsOf(stream) \ {0} = (h + 1)..n
    BY DEF ArmBInv, HopsInv, Running
  <2> HIDE DEF h, n
  <2>4. Cardinality((h + 1)..n) = n - h
    <3>1. Cardinality((h + 1)..n) = IF h + 1 > n THEN 0 ELSE n - (h + 1) + 1
      BY <2>2, FS_Interval
    <3>2. QED
      BY <2>1, <2>2, <3>1
  <2>5. pc \in {"streaming", "replying"} => Cardinality(Unread \ {0}) = n - h
    BY <2>3, <2>4 DEF Unread, CallsOf
  <2>6. QED
    BY <2>1, <2>5 DEF TraceFollowsSession, CompleteInv, Hops, h, n
<1>2. QED
  BY <1>1, CompleteInvariant, PTL

\* Once the run is over nothing of it moves any more.
LEMMA OverIsOver ==
  ASSUME ArmBInv, ResultMatchesTrace /\ TokensNeverOvercounted, [ArmBNext]_armBVars
  PROVE  ResultMatchesTrace' /\ TokensNeverOvercounted'
<1>1. CASE \E retrieved \in BOOLEAN : Close(retrieved)
  BY <1>1, CloseStep
<1>2. CASE UNCHANGED armBVars
  BY <1>2 DEF armBVars, driverVars, sessionVars, ResultMatchesTrace, TokensNeverOvercounted
<1>3. CASE ArmBNext /\ ~\E retrieved \in BOOLEAN : Close(retrieved)
  <2>1. CASE Driver \/ DriveCrashes \/ StreamCloses
    <3>1. pc' # "done"
      BY <1>3, <2>1 DEF Driver, CreateSession, CreateFails, OpenStream, ExceedBound,
           HandleCustomTool, SendResult, TakeMessage, AddUsage, KeepStreaming, EndOfTurn,
           Terminated, CloseEscapes, DriveCrashes, StreamCloses, Crash, LeaveLoop, Take
    <3>2. QED
      BY <3>1 DEF ResultMatchesTrace, TokensNeverOvercounted
  <2>2. CASE Session
    <3>1. pc' # "done"
      BY <2>2 DEF Session, SessionCalls, SessionSpeaks, SessionSpends, SessionWaits,
           SessionEndsTurn, SessionTerminates, Live, driverVars
    <3>2. QED
      BY <3>1 DEF ResultMatchesTrace, TokensNeverOvercounted
  <2>3. QED
    BY <1>3, <2>1, <2>2 DEF ArmBNext
<1>4. QED
  BY <1>1, <1>2, <1>3

LEMMA OutcomeInvariant == ArmBSpec => [](ResultMatchesTrace /\ TokensNeverOvercounted)
<1>1. ArmBInit => ResultMatchesTrace /\ TokensNeverOvercounted
  BY DEF ArmBInit, ResultMatchesTrace, TokensNeverOvercounted
<1>2. QED
  BY <1>1, OverIsOver, ArmBInvariant, PTL DEF ArmBSpec

\* What investigate() returns agrees with the trace it wrote: its depth, its tokens
\* and, unless the run crashed, its resolutions.
THEOREM ArmBResultMatchesTrace == ArmBSpec => []ResultMatchesTrace
BY OutcomeInvariant, PTL

\* The tokens of a run are never more than the session spent, and not fewer than the
\* driver saw unless it crashed and could not ask.
THEOREM ArmBTokensNeverOvercounted == ArmBSpec => []TokensNeverOvercounted
BY OutcomeInvariant, PTL

-----------------------------------------------------------------------------
(* The common specification of the arms.                                   *)

Seen == IF pc \in {"start", "done", "escaped"} THEN "idle" ELSE "investigating"
Reported ==
  IF pc = "done" THEN << [chain |-> HopTools(tw.events), depth |-> result.depth] >> ELSE <<>>

\* What scoring sees of a step that is neither a beginning, a hop nor an end.
LEMMA Unseen ==
  ASSUME pc \notin {"start", "done", "escaped"}, pc' \notin {"start", "done", "escaped"},
         UNCHANGED tw
  PROVE  UNCHANGED <<Seen, Hops, Reported>>
BY DEF Seen, Hops, Reported

LEMMA InvestigationStepB ==
  ASSUME ArmBInv, [ArmBNext]_armBVars
  PROVE  [Arm!InvestigationNext]_(Arm!investigationVars)
<1> USE DEF Arm!InvestigationNext
<1>1. CASE CreateSession \/ CreateFails
  <2>1. pc = "start" /\ pc' \in {"created", "closing"} /\ UNCHANGED tw
    BY <1>1 DEF CreateSession, CreateFails, Crash
  <2>2. Hops = <<>> /\ Hops' = <<>>
    BY <2>1 DEF ArmBInv, WriterInv, Hops
  <2>3. Seen = "idle" /\ Seen' = "investigating" /\ Reported' = Reported
    BY <2>1 DEF Seen, Reported
  <2>4. Arm!Begin
    BY <2>2, <2>3 DEF Arm!Begin, Seen, Hops, Reported
  <2>5. QED
    BY <2>4
<1>2. CASE HandleCustomTool
  <2>1. PICK source \in Sources : Hops' = Append(Hops, source)
    BY <1>2, ToolStep
  <2>2. Seen = "investigating" /\ Seen' = "investigating" /\ Reported' = Reported
    BY <1>2 DEF HandleCustomTool, Take, Seen, Reported
  <2>3. Arm!TakeHop(source)
    BY <2>1, <2>2 DEF Arm!TakeHop, Seen, Hops, Reported
  <2>4. QED
    BY <2>3
<1>3. CASE \E retrieved \in BOOLEAN : Close(retrieved)
  <2>1. PICK retrieved \in BOOLEAN : Close(retrieved)
    BY <1>3
  <2>2. pc = "closing" /\ pc' = "done" /\ result'.depth = tw'.tool_calls
    BY <2>1 DEF Close, DepthReached
  <2>3. Hops' = Hops /\ tw'.tool_calls = tw.tool_calls /\ Len(Hops) = tw.tool_calls
    BY <2>1, CloseFacts, BTypes
  <2>4. Reported = <<>> /\ Reported' = << [chain |-> Hops, depth |-> Len(Hops)] >>
    BY <2>2, <2>3 DEF Reported, Hops
  <2>5. Reported' = Append(Reported, [chain |-> Hops, depth |-> Len(Hops)])
    BY <2>4
  <2>6. Seen = "investigating" /\ Seen' = "idle"
    BY <2>2 DEF Seen
  <2>7. Arm!Report
    BY <2>3, <2>5, <2>6 DEF Arm!Report, Seen, Hops, Reported
  <2>8. QED
    BY <2>7
<1>4. CASE CloseEscapes
  <2>1. pc = "closing" /\ pc' = "escaped" /\ UNCHANGED tw
    BY <1>4 DEF CloseEscapes
  <2>2. Seen = "investigating" /\ Seen' = "idle" /\ Hops' = Hops /\ Reported' = Reported
    BY <2>1 DEF Seen, Hops, Reported
  <2>3. Arm!GiveUp
    BY <2>2 DEF Arm!GiveUp, Seen, Hops, Reported
  <2>4. QED
    BY <2>3
<1>5. CASE \/ OpenStream \/ ExceedBound \/ SendResult \/ TakeMessage \/ AddUsage \/ KeepStreaming
           \/ EndOfTurn \/ Terminated \/ DriveCrashes \/ StreamCloses
  <2>1. /\ pc \notin {"start", "done", "escaped"} /\ pc' \notin {"start", "done", "escaped"}
        /\ UNCHANGED tw
    BY <1>5 DEF OpenStream, ExceedBound, SendResult, TakeMessage, AddUsage, KeepStreaming,
         EndOfTurn, Terminated, DriveCrashes, StreamCloses, Crash, LeaveLoop, Take
  <2>2. QED
    BY <2>1, Unseen DEF Arm!investigationVars, Seen, Hops, Reported
<1>6. CASE Session \/ UNCHANGED armBVars
  <2>1. UNCHANGED <<pc, tw, result>>
    BY <1>6 DEF Session, SessionCalls, SessionSpeaks, SessionSpends, SessionWaits,
         SessionEndsTurn, SessionTerminates, driverVars, armBVars
  <2>2. QED
    BY <2>1 DEF Arm!investigationVars
<1>7. QED
  BY <1>1, <1>2, <1>3, <1>4, <1>5, <1>6 DEF ArmBNext, Driver

\* Arm B implements the arms' common specification: each call of the session is one
\* hop of the one investigation, and its result reports those hops and their number.
THEOREM ArmBImplementsInvestigation == ArmBSpec => ArmBIsInvestigation
<1>1. ArmBInit => Arm!InvestigationInit
  <2> SUFFICES ASSUME ArmBInit PROVE Arm!InvestigationInit
    OBVIOUS
  <2>1. pc = "start" /\ ArmBInv
    BY BInit DEF ArmBInit
  <2>2. Hops = <<>>
    BY <2>1 DEF ArmBInv, WriterInv
  <2>3. QED
    BY <2>1, <2>2 DEF Arm!InvestigationInit, Hops
<1>2. ArmBInv /\ [ArmBNext]_armBVars => [Arm!InvestigationNext]_(Arm!investigationVars)
  BY InvestigationStepB
<1>3. QED
  BY <1>1, <1>2, ArmBInvariant, PTL DEF ArmBSpec, ArmBIsInvestigation, Arm!InvestigationSpec

=============================================================================
